---------------------------- MODULE TimerProofs ----------------------------
(***************************************************************************)
(* Proofs about Timer, for any number of timers, any length of the tick and *)
(* any width of the numbers.                                               *)
(***************************************************************************)
EXTENDS Timer, NaturalSets, SequenceTheorems

-----------------------------------------------------------------------------
(* Arithmetic *)

\* A product with the ticks of a microsecond grows with its other factor.
LEMMA MulMono ==
  ASSUME NEW a \in Int, NEW b \in Int, a <= b
  PROVE  a * Tick <= b * Tick /\ a * Tick \in Int /\ b * Tick \in Int
  BY TimerAssumption, SMT

\* A product with them distributes over differences.
LEMMA MulDist ==
  ASSUME NEW a \in Int, NEW b \in Int
  PROVE  (a - b) * Tick = a * Tick - b * Tick /\ (a + 1) * Tick = a * Tick + Tick
  BY TimerAssumption, SMT

\* Ticks in whole microseconds, rounded down.
LEMMA WholeMicros ==
  ASSUME NEW c \in Nat
  PROVE  /\ c \div Tick \in Nat
         /\ (c \div Tick) * Tick <= c
         /\ c < (c \div Tick + 1) * Tick
  BY TimerAssumption, SMT

\* A number that fits is left alone by the wrap at 32 bits.
LEMMA Wraps ==
  ASSUME NEW a \in Int
  PROVE  /\ a % Wrap \in U32
         /\ a \in U32 => a % Wrap = a
  BY TimerAssumption, SMT DEF U32

-----------------------------------------------------------------------------
(* Chains *)

\* Chain(h) is the function that its definition says: such a function exists.
LEMMA ChainSteps ==
  ASSUME NEW h \in Link, next \in [Entry -> Link]
  PROVE  /\ Chain(h) \in [0 .. Entries -> Link]
         /\ Chain(h)[0] = h
         /\ \A k \in 1 .. Entries :
              Chain(h)[k] = IF Chain(h)[k - 1] = NULL THEN NULL ELSE next[Chain(h)[k - 1]]
<1> DEFINE Of(c) == [k \in 0 .. Entries |->
                       IF k = 0 THEN h ELSE IF c[k - 1] = NULL THEN NULL ELSE next[c[k - 1]]]
           Goes(f, n) == /\ f[0] = h
                         /\ \A k \in 1 .. n :
                              f[k] = IF f[k - 1] = NULL THEN NULL ELSE next[f[k - 1]]
           S == {n \in Nat : \E f \in [0 .. n -> Link] : Goes(f, n)}
<1>1. 0 \in S
  <2> DEFINE f == [k \in 0 .. 0 |-> h]
  <2>1. f \in [0 .. 0 -> Link] /\ Goes(f, 0)
    OBVIOUS
  <2> QED
    BY <2>1
<1>2. ASSUME NEW n \in Nat, n \in S
      PROVE  n + 1 \in S
  <2>1. PICK f \in [0 .. n -> Link] : Goes(f, n)
    BY <1>2
  <2> DEFINE G(k) == IF k = n + 1 THEN IF f[n] = NULL THEN NULL ELSE next[f[n]] ELSE f[k]
             g == [k \in 0 .. n + 1 |-> G(k)]
  <2>2. g \in [0 .. n + 1 -> Link]
    <3>1. \A k \in 0 .. n + 1 : G(k) \in Link
      BY <2>1, n \in 0 .. n DEF Link
    <3> HIDE DEF G
    <3> QED
      BY <3>1
  <2>3. Goes(g, n + 1)
    BY <2>1
  <2> HIDE DEF g
  <2> QED
    BY <2>2, <2>3
<1>3. Nat \subseteq S
  <2> HIDE DEF S
  <2> QED
    BY <1>1, <1>2, NatSetInduction
<1>4. PICK f \in [0 .. Entries -> Link] : Goes(f, Entries)
  BY <1>3, TimerAssumption
<1>5. f = Of(f)
  BY <1>4, TimerAssumption
<1> DEFINE c == Chain(h)
<1>6. c = Of(c)
  <2>1. c = CHOOSE x : x = Of(x)
    BY DEF Chain
  <2> QED
    BY <2>1, <1>5, ZenonT(40)
<1> HIDE DEF c
<1>7. DOMAIN c = 0 .. Entries /\ c = [k \in 0 .. Entries |-> c[k]]
  BY <1>6
<1>8. c[0] = h
  BY <1>6, TimerAssumption
<1>9. ASSUME NEW k \in 1 .. Entries
      PROVE  c[k] = IF c[k - 1] = NULL THEN NULL ELSE next[c[k - 1]]
  BY <1>6, TimerAssumption
<1>10. \A k \in 0 .. Entries : c[k] \in Link
  <2> DEFINE T == {n \in Nat : n \in 0 .. Entries => c[n] \in Link}
  <2>1. 0 \in T
    BY <1>8
  <2>2. ASSUME NEW n \in Nat, n \in T PROVE n + 1 \in T
    <3> SUFFICES ASSUME n + 1 \in 0 .. Entries PROVE c[n + 1] \in Link
      OBVIOUS
    <3>1. n \in 0 .. Entries /\ n + 1 \in 1 .. Entries /\ (n + 1) - 1 = n
      BY TimerAssumption
    <3>2. c[n] \in Link
      BY <2>2, <3>1
    <3>3. c[n + 1] = IF c[n] = NULL THEN NULL ELSE next[c[n]]
      BY <1>9, <3>1
    <3> QED
      BY <3>2, <3>3 DEF Link
  <2>3. Nat \subseteq T
    <3> HIDE DEF T
    <3> QED
      BY <2>1, <2>2, NatSetInduction
  <2> QED
    BY <2>3
<1> QED
  BY <1>7, <1>8, <1>9, <1>10 DEF c

\* The walk of the handler ends at an entry that is not due, or behind the last one.
LEMMA FiringStops ==
  ASSUME TypeOK, head # NULL, ~Circular(head)
  PROVE  /\ Firing \in 1 .. Entries
         /\ \A j \in 1 .. Firing - 1 : Chain(head)[j] # NULL /\ Expired[Chain(head)[j]] = 0
         /\ Chain(head)[Firing] = NULL \/ Expired[Chain(head)[Firing]] # 0
         /\ Rest \in Link
         /\ Chain(head)[Firing] = Rest
<1> DEFINE Stops(k) == Chain(head)[k] = NULL \/ Expired[Chain(head)[k]] # 0
           S == {k \in 1 .. Entries : Stops(k)}
<1>1. S \in SUBSET Nat
  OBVIOUS
<1>2. Entries \in S
  BY TimerAssumption DEF Circular
<1>3. PICK m \in S : \A k \in S : m <= k
  <2> HIDE DEF S
  <2> QED
    BY <1>1, <1>2, LeastNatural
<1>4. m \in 1 .. Entries /\ Stops(m)
  OBVIOUS
<1>5. \A j \in 1 .. m - 1 : j \in 1 .. Entries /\ j \notin S
  BY <1>3, <1>4, TimerAssumption
<1>6. \A j \in 1 .. m - 1 : Chain(head)[j] # NULL /\ Expired[Chain(head)[j]] = 0
  BY <1>5
<1> DEFINE Right(k) == /\ \A j \in 1 .. k - 1 : Chain(head)[j] # NULL /\ Expired[Chain(head)[j]] = 0
                       /\ Chain(head)[k] = NULL \/ (Chain(head)[k] # NULL /\ Expired[Chain(head)[k]] # 0)
<1>7. Right(m)
  BY <1>4, <1>6
<1>8. Firing = CHOOSE k \in 1 .. Entries : Right(k)
  BY DEF Firing
<1> HIDE DEF Right
<1>9. Firing \in 1 .. Entries /\ Right(Firing)
  BY <1>4, <1>7, <1>8
<1>10. Rest \in Link
  BY <1>9, ChainSteps, TimerAssumption DEF TypeOK, Rest
<1> QED
  BY <1>9, <1>10 DEF Right, Rest

\* Subtraction that stops at zero.
LEMMA LessType ==
  ASSUME NEW n \in U32, NEW k \in U32
  PROVE  Less(n, k) \in U32
  BY TimerAssumption DEF Less, U32

\* The times that the handler takes from the entries of the list.
LEMMA ExpiredType ==
  ASSUME TypeOK
  PROVE  Expired \in [Entry -> U32]
<1>1. ASSUME NEW e \in Entry, head # NULL
      PROVE  Less(timer[e], timer[head]) \in U32
  <2>1. head \in Entry /\ timer[e] \in U32 /\ timer[head] \in U32
    BY <1>1 DEF TypeOK, Link
  <2> QED
    BY <2>1, LessType
<1>2. head = NULL => OnChain(head) = {}
  <2> SUFFICES ASSUME head = NULL PROVE \A k \in 0 .. Entries : Chain(head)[k] = NULL
    BY DEF OnChain
  <2> DEFINE c == Chain(head)
             T == {n \in Nat : n \in 0 .. Entries => c[n] = NULL}
  <2>1. c[0] = NULL /\ \A k \in 1 .. Entries : c[k] = IF c[k - 1] = NULL THEN NULL ELSE next[c[k - 1]]
    BY ChainSteps DEF TypeOK
  <2> HIDE DEF c
  <2>2. 0 \in T
    BY <2>1
  <2>3. ASSUME NEW n \in Nat, n \in T PROVE n + 1 \in T
    <3> SUFFICES ASSUME n + 1 \in 0 .. Entries PROVE c[n + 1] = NULL
      OBVIOUS
    <3>1. n \in 0 .. Entries /\ n + 1 \in 1 .. Entries /\ (n + 1) - 1 = n
      BY TimerAssumption
    <3> QED
      BY <2>1, <2>3, <3>1
  <2>4. Nat \subseteq T
    <3> HIDE DEF T
    <3> QED
      BY <2>2, <2>3, NatSetInduction
  <2> QED
    BY <2>4, TimerAssumption DEF c
<1>3. \A e \in Entry : (IF e \in OnChain(head) THEN Less(timer[e], timer[head]) ELSE timer[e]) \in U32
  BY <1>1, <1>2 DEF TypeOK
<1> QED
  BY <1>3 DEF Expired

\* A stack without its top.
LEMMA Front ==
  ASSUME NEW S, NEW s \in Seq(S), s # << >>
  PROVE  /\ SubSeq(s, 1, Len(s) - 1) \in Seq(S)
         /\ Len(SubSeq(s, 1, Len(s) - 1)) = Len(s) - 1
         /\ \A i \in 1 .. Len(s) - 1 : SubSeq(s, 1, Len(s) - 1)[i] = s[i]
<1>1. PICK n \in Nat : n = Len(s) - 1
  BY EmptySeq
<1>2. \A i \in 1 .. n : s[i] \in S
  BY <1>1, ElementOfSeq
<1> DEFINE r == SubSeq(s, 1, n)
<1>3. /\ r \in Seq(S)
      /\ Len(r) = IF 1 <= n THEN n - 1 + 1 ELSE 0
      /\ \A i \in 1 .. n - 1 + 1 : r[i] = s[1 + i - 1]
  BY <1>2, SubSeqProperties
<1> HIDE DEF r
<1>4. r \in Seq(S) /\ Len(r) = n /\ \A i \in 1 .. n : r[i] = s[i]
  BY <1>3
<1> QED
  BY <1>1, <1>4, Zenon DEF r

-----------------------------------------------------------------------------
(* Types *)

\* timer_init leaves an empty queue.
LEMMA TypeInit == Init => TypeOK /\ InHand
<1> SUFFICES ASSUME Init PROVE TypeOK /\ InHand
  OBVIOUS
<1>1. 0 \in U32 /\ NULL \in Link /\ {} \in SUBSET Entry /\ FALSE \in BOOLEAN
  BY TimerAssumption DEF U32, Link
<1>2. loc \in [e : Link, time : U32, wake : BOOLEAN, snap : SUBSET Entry,
               it : Link, prev : Link, num : U32, before : SUBSET Entry]
  BY <1>1 DEF Init, NoLocals
<1>3. due \in [{} -> Nat] /\ DOMAIN due = {}
  BY DEF Init
<1> QED
  <2>1. timer \in [Entry -> U32] /\ next \in [Entry -> Link] /\ wakes \in [Entry -> BOOLEAN]
    BY <1>1 DEF Init
  <2>2. frames \in Seq([at : {"store", "eoi"}, rest : Link]) /\ Len(frames) <= MaxNest
    BY EmptySeq, TimerAssumption DEF Init
  <2> QED
    BY <1>1, <1>2, <1>3, <2>1, <2>2 DEF Init, TypeOK, InHand, Unlinked, Arming

\* A step of the kernel leaves everything in its range.
LEMMA TypeKernel ==
  ASSUME TypeOK, InHand, KernelStep \/ Ask
  PROVE  TypeOK' /\ InHand'
<1> USE DEF TypeOK, InHand, Unlinked, Arming, Step, At, Goto, list, hw
<1>0. NULL \in Link /\ 0 \in U32 /\ NoLocals \in [e : Link, time : U32, wake : BOOLEAN,
                                    snap : SUBSET Entry, it : Link, prev : Link, num : U32,
                                    before : SUBSET Entry]
  BY TimerAssumption DEF Link, NoLocals, U32
<1>1. CASE \E wake \in BOOLEAN : NewTimerNow(wake)
  BY <1>1 DEF NewTimerNow
<1>2. CASE \E t \in Times, wake \in BOOLEAN : Allocate(t, wake)
  <2>1. PICK t \in Times, wake \in BOOLEAN : Allocate(t, wake)
    BY <1>2
  <2>2. t \in U32 /\ t # 0 /\ 1 \in Link /\ 1 # NULL
    BY <2>1, TimerAssumption DEF Allocate, U32, Link, Entry, NULL
  <2>3. /\ loc' = [e |-> NULL, time |-> t, wake |-> wake, snap |-> {},
                   it |-> 1, prev |-> NULL, num |-> 0, before |-> used]
        /\ loc'.it = 1 /\ loc'.time = t
    BY <2>1 DEF Allocate, NoLocals
  <2>4. loc' \in [e : Link, time : U32, wake : BOOLEAN, snap : SUBSET Entry,
                  it : Link, prev : Link, num : U32, before : SUBSET Entry]
    BY <2>2, <2>3, <1>0
  <2>5. TypeOK' /\ pc' = "test"
    BY <2>1, <2>4 DEF Allocate
  <2> QED
    BY <2>1, <2>2, <2>3, <2>5 DEF Allocate
<1>18. CASE Occupied
  <2>1. loc.it + 1 \in Link /\ loc.it + 1 # NULL
    <3>1. loc.it \in Entry /\ loc.it < Entries /\ Entries \in Nat
      BY <1>18, TimerAssumption DEF Occupied
    <3> QED
      BY <3>1 DEF Link, Entry, NULL
  <2> QED
    BY <1>18, <2>1 DEF Occupied
<1>19. CASE Clear
  BY <1>19, <1>0 DEF Clear
<1>20. CASE Exhausted
  BY <1>20 DEF Exhausted
<1>3. CASE Mark
  <2>1. loc.e \in Entry /\ loc.snap \subseteq Entry /\ loc.time \in Nat /\ loc.wake \in BOOLEAN
    BY <1>3 DEF Mark, Link, U32
  <2>2. loc.time * Tick \in Nat
    BY <2>1, TimerAssumption, SMT
  <2>3. used' \subseteq Entry /\ timer' \in [Entry -> U32] /\ wakes' \in [Entry -> BOOLEAN]
    BY <1>3, <2>1 DEF Mark
  <2>4. DOMAIN due' \subseteq Entry /\ due' \in [DOMAIN due' -> Nat]
    <3> DEFINE D == DOMAIN due \cup {loc.e}
               f == [d \in D |-> IF d = loc.e THEN loc.time * Tick ELSE due[d]]
    <3>1. due' = f
      BY <1>3 DEF Mark
    <3>2. f \in [D -> Nat]
      BY <2>2
    <3>3. D \subseteq Entry
      BY <2>1
    <3> HIDE DEF f
    <3> QED
      BY <3>1, <3>2, <3>3
  <2> QED
    BY <1>3, <2>3, <2>4 DEF Mark
<1>4. CASE ReadHead
  BY <1>4 DEF ReadHead
<1>5. CASE ReadTimer
  BY <1>5 DEF ReadTimer, Link
<1>6. CASE ReadCount
  <2>1. loc.num - counter \div Tick \in Int
    BY WholeMicros DEF U32
  <2>2. (loc.num - counter \div Tick) % Wrap \in U32
    BY <2>1, Wraps
  <2> QED
    BY <1>6, <2>2 DEF ReadCount
<1>7. CASE Sub
  <2>1. loc.it \in Entry /\ next[loc.it] \in Link /\ Less(timer[loc.it], loc.num) \in U32
    <3>1. loc.it \in Entry /\ loc.num \in U32
      BY <1>7 DEF Sub, Link
    <3> QED
      BY <3>1, LessType
  <2> QED
    BY <1>7, <2>1 DEF Sub
<1>8. CASE SubDone
  BY <1>8 DEF SubDone
<1>9. CASE Find
  BY <1>9, <1>0 DEF Find
<1>10. CASE Scan
  BY <1>10 DEF Scan, Link
<1>11. CASE ScanDone
  BY <1>11 DEF ScanDone
<1>12. CASE LinkFirst
  BY <1>12 DEF LinkFirst
<1>13. CASE LinkAfter
  BY <1>13, <1>0 DEF LinkAfter, Return, Link
<1>14. CASE Arm
  BY <1>14 DEF Arm, Link
<1>15. CASE Cli
  BY <1>15 DEF Cli
<1>16. CASE Write
  BY <1>16, <1>0, Wraps, TimerAssumption, SMTT(30) DEF Write, Return, Count, Overflows, Less, U32
<1>17. CASE Woken \/ NotWoken \/ Hlt
  BY <1>17 DEF Woken, NotWoken, Hlt
<1> QED
  BY <1>1, <1>2, <1>3, <1>4, <1>5, <1>6, <1>7, <1>8, <1>9, <1>10, <1>11, <1>12, <1>13, <1>14,
     <1>15, <1>16, <1>17, <1>18, <1>19, <1>20 DEF KernelStep, Ask

\* So do the hardware and the handlers.
LEMMA TypeOthers ==
  ASSUME TypeOK, InHand, CountDown \/ PitTick \/ TimerInterrupt \/ HandlerStep
  PROVE  TypeOK' /\ InHand'
<1> USE DEF TypeOK, InHand, Unlinked, Arming, list, hw, Wakes
<1>1. CASE CountDown
  BY <1>1, TimerAssumption DEF CountDown, Less, U32
<1>2. CASE PitTick
  BY <1>2 DEF PitTick
<1>3. CASE TimerInterrupt
  <2>1. CASE head = NULL \/ Circular(head)
    BY <1>3, <2>1 DEF TimerInterrupt
  <2>2. CASE ~(head = NULL \/ Circular(head))
    <3>1. Rest \in Link /\ Expired \in [Entry -> U32]
      BY <2>2, FiringStops, ExpiredType
    <3>2. counter' \in U32
      <4>1. CASE Rest = NULL
        BY <1>3, <2>2, <4>1 DEF TimerInterrupt
      <4>2. CASE Rest # NULL
        <5>1. Expired[Rest] * Tick \in Int
          BY <3>1, <4>2, TimerAssumption, SMT DEF Link, U32
        <5> QED
          BY <1>3, <2>2, <4>2, <5>1, Wraps DEF TimerInterrupt, Count
      <4> QED
        BY <4>1, <4>2
    <3>3. Fired \subseteq Entry
      <4>1. \A k \in 0 .. Firing - 1 : Chain(head)[k] \in Link /\ Chain(head)[k] # NULL
        BY <2>2, FiringStops, ChainSteps, TimerAssumption
      <4> QED
        BY <4>1 DEF Fired, Link
    <3>4. used' \subseteq Entry /\ flag' \in BOOLEAN
      BY <1>3, <2>2, <3>3 DEF TimerInterrupt, Flip
    <3>5. DOMAIN due' \subseteq Entry /\ due' \in [DOMAIN due' -> Nat]
      BY <1>3, <2>2 DEF TimerInterrupt
    <3>6. frames' \in Seq([at : {"store", "eoi"}, rest : Link]) /\ Len(frames') <= MaxNest
      <4> DEFINE F == [at : {"store", "eoi"}, rest : Link]
                 f == [at |-> "store", rest |-> Rest]
      <4>1. f \in F /\ frames \in Seq(F)
        BY <3>1
      <4>2. frames' = Append(frames, f) /\ Len(frames) < MaxNest
        BY <1>3, <2>2 DEF TimerInterrupt
      <4>3. Len(frames) \in Nat
        BY <4>1, LenProperties
      <4> HIDE DEF F, f
      <4>4. frames' \in Seq(F) /\ Len(frames') = Len(frames) + 1
        BY <4>1, <4>2, AppendProperties
      <4> QED
        BY <4>2, <4>3, <4>4, TimerAssumption DEF F
    <3>7. pending' = FALSE /\ inService' = TRUE /\ enabled' \in BOOLEAN /\ spoilt' \in BOOLEAN
      BY <1>3, <2>2 DEF TimerInterrupt
    <3>8. UNCHANGED << next, head, wakes, loc, halted >> /\ timer' = Expired
      BY <1>3, <2>2 DEF TimerInterrupt
    <3>9. pc' \in {"idle", "test", "mark", "head", "timer", "count", "sub", "find", "scan", "link",
             "arm", "cli", "write", "check", "hlt", "asleep"} /\ (pc' = pc \/ pc' = "check")
      BY <1>3, <2>2 DEF TimerInterrupt
    <3> QED
      BY <3>1, <3>2, <3>3, <3>4, <3>5, <3>6, <3>7, <3>8, <3>9
  <2> QED
    BY <2>1, <2>2
<1>4. CASE Store
  <2> DEFINE n == Len(frames)
             g == [frames EXCEPT ![n].at = "eoi"]
             F == [at : {"store", "eoi"}, rest : Link]
  <2>1. n \in Nat /\ n >= 1 /\ \A i \in 1 .. n : frames[i] \in F
    <3>1. frames # << >> /\ frames \in Seq(F)
      BY <1>4 DEF Store
    <3> HIDE DEF F
    <3> QED
      BY <3>1, EmptySeq, LenProperties, ElementOfSeq
  <2>2. frames[n].rest \in Link
    BY <2>1
  <2>3. g \in Seq(F) /\ Len(g) = n
    <3>1. [frames[n] EXCEPT !.at = "eoi"] \in F
      BY <2>1
    <3> QED
      BY <2>1, <3>1, ExceptSeq
  <2> QED
    BY <1>4, <2>2, <2>3 DEF Store, Innermost
<1>5. CASE EoiIret
  <2> DEFINE F == [at : {"store", "eoi"}, rest : Link]
  <2>1. frames \in Seq(F) /\ frames # << >>
    BY <1>5 DEF EoiIret
  <2>2. Len(frames) \in Nat /\ Len(frames) >= 1
    <3> HIDE DEF F
    <3> QED
      BY <2>1, EmptySeq
  <2>3. frames' = SubSeq(frames, 1, Len(frames) - 1)
    BY <1>5 DEF EoiIret
  <2>4. frames' \in Seq(F) /\ Len(frames') = Len(frames) - 1
    BY <2>1, <2>3, Front, Zenon
  <2>5. Len(frames') <= MaxNest
    BY <2>2, <2>4, TimerAssumption
  <2> QED
    BY <1>5, <2>4, <2>5 DEF EoiIret
<1> QED
  BY <1>1, <1>2, <1>3, <1>4, <1>5 DEF HandlerStep

-----------------------------------------------------------------------------
(* The list as a sequence *)

\* A queue is a sequence of entries, at most all there are.
LEMMA QueueType ==
  ASSUME NEW q \in Queues
  PROVE  /\ Len(q) \in Nat /\ Len(q) <= Entries /\ DOMAIN q = 1 .. Len(q)
         /\ \A i \in 1 .. Len(q) : q[i] \in Entry
         /\ q = << >> <=> Len(q) = 0
         /\ Members(q) \subseteq Entry
<1>1. PICK n \in 0 .. Entries : q \in [1 .. n -> Entry]
  BY DEF Queues
<1>2. n \in Nat /\ n <= Entries
  BY TimerAssumption
<1>3. q \in Seq(Entry) /\ Len(q) = n
  BY <1>1, <1>2
<1>4. q = << >> <=> Len(q) = 0
  BY <1>3, EmptySeq
<1> QED
  BY <1>1, <1>2, <1>3, <1>4 DEF Members

\* The chain from the first entry is the sequence, and then NULL for ever.
LEMMA QueueChain ==
  ASSUME TypeOK, NEW q \in Queues, NEW h \in Link, h = First, Listed(q)
  PROVE  /\ \A k \in 0 .. Entries : Chain(h)[k] = IF k < Len(q) THEN q[k + 1] ELSE NULL
         /\ ~Circular(h)
         /\ OnChain(h) = Members(q)
<1> DEFINE c == Chain(h)
           N == Len(q)
<1>1. c[0] = h /\ \A k \in 1 .. Entries : c[k] = IF c[k - 1] = NULL THEN NULL ELSE next[c[k - 1]]
  BY ChainSteps DEF TypeOK
<1>2. /\ N \in Nat /\ N <= Entries /\ DOMAIN q = 1 .. N
      /\ \A i \in 1 .. N : q[i] \in Entry /\ q[i] # NULL
      /\ q = << >> <=> N = 0
  BY QueueType DEF Entry, NULL
<1>3. /\ h = IF N = 0 THEN NULL ELSE q[1]
      /\ \A i \in 1 .. N : next[q[i]] = IF i = N THEN NULL ELSE q[i + 1]
  BY <1>2 DEF Listed
<1> HIDE DEF c, N
<1> DEFINE T == {n \in Nat : n \in 0 .. Entries => c[n] = IF n < N THEN q[n + 1] ELSE NULL}
<1>4. 0 \in T
  BY <1>1, <1>2, <1>3
<1>5. ASSUME NEW n \in Nat, n \in T PROVE n + 1 \in T
  <2> SUFFICES ASSUME n + 1 \in 0 .. Entries
               PROVE  c[n + 1] = IF n + 1 < N THEN q[n + 1 + 1] ELSE NULL
    OBVIOUS
  <2>1. n \in 0 .. Entries /\ n + 1 \in 1 .. Entries /\ (n + 1) - 1 = n
    BY TimerAssumption
  <2>2. c[n] = IF n < N THEN q[n + 1] ELSE NULL
    BY <1>5, <2>1
  <2>3. c[n + 1] = IF c[n] = NULL THEN NULL ELSE next[c[n]]
    BY <1>1, <2>1
  <2> QED
    BY <1>2, <1>3, <2>2, <2>3
<1>6. Nat \subseteq T
  <2> HIDE DEF T
  <2> QED
    BY <1>4, <1>5, NatSetInduction
<1>7. \A k \in 0 .. Entries : c[k] = IF k < N THEN q[k + 1] ELSE NULL
  BY <1>6, TimerAssumption
<1>8. ~Circular(h)
  BY <1>7, <1>2, TimerAssumption DEF Circular, c
<1>9. OnChain(h) = Members(q)
  <2>1. OnChain(h) = {c[k] : k \in 0 .. Entries} \ {NULL}
    BY DEF OnChain, c
  <2>2. ASSUME NEW k \in 0 .. Entries, c[k] # NULL PROVE c[k] \in Members(q)
    BY <1>2, <1>7, <2>2 DEF Members
  <2>3. ASSUME NEW i \in 1 .. N PROVE q[i] \in OnChain(h)
    <3>1. i - 1 \in 0 .. Entries /\ i - 1 < N /\ (i - 1) + 1 = i
      BY <1>2, TimerAssumption
    <3>2. c[i - 1] = q[i]
      BY <1>7, <3>1
    <3> QED
      BY <2>1, <3>1, <3>2, <1>2
  <2> QED
    BY <1>2, <2>1, <2>2, <2>3 DEF Members
<1> QED
  BY <1>7, <1>8, <1>9 DEF c, N

\* The head in memory, or in the hands of a handler, is an entry or NULL.
LEMMA FirstType == TypeOK => First \in Link
<1> SUFFICES ASSUME TypeOK PROVE First \in Link
  OBVIOUS
<1> DEFINE F == [at : {"store", "eoi"}, rest : Link]
<1>1. CASE frames # << >>
  <2>1. frames \in Seq(F)
    BY DEF TypeOK
  <2>2. frames[Len(frames)] \in F
    <3> HIDE DEF F
    <3> QED
      BY <1>1, <2>1, EmptySeq, ElementOfSeq
  <2> QED
    BY <2>2 DEF First, Innermost, TypeOK
<1>2. CASE frames = << >>
  BY <1>2 DEF First, TypeOK
<1> QED
  BY <1>1, <1>2

\* In the middle of queue_sub_timer the entries are still in order: those behind have
\* more to lose than those in front have lost.
LEMMA TimesGrow ==
  ASSUME TypeOK, NEW q \in Queues, NEW m \in 1 .. Len(q) + 1, Ordered(q, m)
  PROVE  \A i, j \in 1 .. Len(q) : i <= j => timer[q[i]] <= timer[q[j]]
<1>1. /\ DOMAIN q = 1 .. Len(q) /\ \A i \in 1 .. Len(q) : q[i] \in Entry
      /\ \A e \in Entry : timer[e] \in Nat
      /\ loc.num \in Nat
  BY QueueType DEF TypeOK, U32
<1> QED
  BY <1>1, SMTT(30) DEF Ordered, Left

\* What the invariant says, in the words of the properties.
LEMMA InvImplies ==
  ASSUME IInv
  PROVE  QueueSorted /\ Armed /\ NoneLost /\ HaltOnlyWhenFull
<1>1. CASE ~Calm
  BY <1>1 DEF QueueSorted, Armed, NoneLost, HaltOnlyWhenFull
<1>2. CASE Calm
  <2>1. TypeOK /\ First \in Link /\ (halted => pc = "test" /\ loc.before = Entry)
    BY <1>2, FirstType DEF IInv, Consistent
  <2>q. PICK q \in Queues : \E m \in 1 .. Len(q) + 1 : InOrder(q, m)
    BY <1>2 DEF IInv, Consistent
  <2>2. PICK m \in 1 .. Len(q) + 1 : InOrder(q, m)
    BY <2>q
  <2>3. /\ \A k \in 0 .. Entries : Chain(First)[k] = IF k < Len(q) THEN q[k + 1] ELSE NULL
        /\ ~Circular(First)
        /\ OnChain(First) = Members(q)
    BY <2>1, <2>2, QueueChain DEF InOrder
  <2>4. /\ Len(q) \in Nat /\ Len(q) <= Entries /\ DOMAIN q = 1 .. Len(q)
        /\ \A i \in 1 .. Len(q) : q[i] \in Entry /\ q[i] # NULL
        /\ q = << >> <=> Len(q) = 0
    BY QueueType DEF Entry, NULL
  <2>5. QueueSorted
    <3> DEFINE c == Chain(First)
    <3>1. ASSUME NEW k \in 1 .. Entries, c[k] # NULL PROVE timer[c[k - 1]] <= timer[c[k]]
      <4>1. k - 1 \in 0 .. Entries /\ k \in 0 .. Entries /\ k < Len(q) /\ c[k] = q[k + 1]
        BY <2>3, <3>1, TimerAssumption
      <4>2. c[k - 1] = q[k]
        BY <2>3, <2>4, <4>1
      <4>3. k \in 1 .. Len(q) /\ k + 1 \in 1 .. Len(q) /\ k <= k + 1
        BY <2>4, <4>1
      <4> QED
        BY <2>1, <2>2, <4>1, <4>2, <4>3, TimesGrow DEF InOrder
    <3> QED
      BY <2>3, <3>1 DEF QueueSorted
  <2>6. First # NULL <=> q # << >>
    BY <2>2, <2>4 DEF InOrder, Listed
  <2>7. Armed
    <3> SUFFICES ASSUME ~halted, pc \notin {"arm", "cli", "write"}
                 PROVE  /\ First # NULL <=> counter > 0 \/ pending
                        /\ First # NULL => counter < (timer[First] + 1) * Tick
      BY DEF Armed
    <3>1. q = << >> <=> counter = 0 /\ ~pending
      BY <2>2 DEF InOrder, Counting, Arming
    <3>2. counter \in Nat
      BY <2>1 DEF TypeOK, U32
    <3>3. ASSUME First # NULL PROVE counter < (timer[First] + 1) * Tick
      <4>1. First = q[1] /\ 1 \in 1 .. Len(q) /\ q # << >>
        BY <2>2, <2>4, <2>6, <3>3 DEF InOrder, Listed
      <4>2. counter < (Left(q, m, 1) + 1) * Tick
        BY <2>2, <4>1 DEF InOrder, Counting, Arming
      <4>3. timer[q[1]] \in Nat /\ loc.num \in Nat
        BY <2>1, <2>4, <4>1 DEF TypeOK, U32
      <4>4. Left(q, m, 1) \in Int /\ Left(q, m, 1) <= timer[q[1]]
        BY <4>3 DEF Left
      <4>5. (Left(q, m, 1) + 1) * Tick <= (timer[q[1]] + 1) * Tick
            /\ (Left(q, m, 1) + 1) * Tick \in Int /\ (timer[q[1]] + 1) * Tick \in Int
        <5> DEFINE a == Left(q, m, 1) + 1
                   b == timer[q[1]] + 1
        <5>1. a \in Int /\ b \in Int /\ a <= b
          BY <4>3, <4>4
        <5> HIDE DEF a, b
        <5>2. a * Tick <= b * Tick /\ a * Tick \in Int /\ b * Tick \in Int
          BY <5>1, MulMono
        <5> QED
          BY <5>2 DEF a, b
      <4> QED
        BY <3>2, <4>1, <4>2, <4>5
    <3> QED
      BY <2>6, <3>1, <3>2, <3>3
  <2>8. NoneLost
    BY <2>2, <2>3 DEF NoneLost, InOrder, Complete, Queue, Unlinked
  <2> QED
    BY <2>1, <2>5, <2>7, <2>8 DEF HaltOnlyWhenFull
<1> QED
  BY <1>1, <1>2

-----------------------------------------------------------------------------
(* The kernel *)

\* What the kernel itself does.
KernelActs == KernelStep \/ Ask

\* The search for a clear bit: it begins, goes on, finds one, or has seen them all.
Looks ==
  \/ \E t \in Times, wake \in BOOLEAN : Allocate(t, wake)
  \/ Occupied \/ Clear \/ Exhausted

\* A free entry comes in hand, or none was found free; nothing else changes.
LEMMA Looking ==
  ASSUME TypeOK, InHand, Looks
  PROVE  /\ UNCHANGED << list, hw, wakes, used, flag, frames, due, spoilt >>
         /\ frames = << >> /\ ~halted
         /\ \/ /\ pc = "idle" /\ pc' = "test" /\ UNCHANGED halted
               /\ loc'.it = 1 /\ loc'.before = used
            \/ /\ pc = "test" /\ pc' = "test" /\ UNCHANGED halted
               /\ loc.it \in used /\ loc'.it = loc.it + 1 /\ loc'.before = loc.before
            \/ /\ pc = "test" /\ UNCHANGED << pc, loc >> /\ loc.it \in used /\ loc.it = Entries
            \/ /\ pc = "test" /\ pc' = "mark" /\ UNCHANGED halted
               /\ loc'.e \in Entry \ used /\ loc'.snap = used
<1>1. CASE \E t \in Times, wake \in BOOLEAN : Allocate(t, wake)
  <2>1. PICK t \in Times, wake \in BOOLEAN : Allocate(t, wake)
    BY <1>1
  <2>2. loc'.it = 1 /\ loc'.before = used
    BY <2>1 DEF Allocate, NoLocals
  <2> QED
    BY <2>1, <2>2 DEF Allocate, At, Goto
<1>2. CASE Occupied
  BY <1>2 DEF Occupied, At, TypeOK
<1>3. CASE Clear
  BY <1>3 DEF Clear, Step, At, Goto, TypeOK, InHand, Link
<1>4. CASE Exhausted
  BY <1>4 DEF Exhausted, At
<1> QED
  BY <1>1, <1>2, <1>3, <1>4 DEF Looks

\* The new entry is filled in, and its bit set.
LEMMA Marks ==
  ASSUME TypeOK, InHand, Mark
  PROVE  /\ pc = "mark" /\ pc' = "head" /\ loc.e \in Entry /\ loc.time # 0 /\ loc.time \in U32
         /\ used' = loc.snap \cup {loc.e}
         /\ DOMAIN due' = DOMAIN due \cup {loc.e}
         /\ \A d \in DOMAIN due' : due'[d] = IF d = loc.e THEN loc.time * Tick ELSE due[d]
         /\ \A d \in Entry : timer'[d] = IF d = loc.e THEN loc.time ELSE timer[d]
         /\ \A d \in Entry : wakes'[d] = IF d = loc.e THEN loc.wake ELSE wakes[d]
         /\ UNCHANGED << next, head, hw, flag, loc, frames, halted, spoilt >>
<1>1. loc.e \in Entry /\ loc.time # 0 /\ loc.time \in U32 /\ pc = "mark" /\ pc' = "head"
  BY DEF TypeOK, InHand, Mark, Step, At, Goto, Link
<1>2. due' = [d \in DOMAIN due \cup {loc.e} |-> IF d = loc.e THEN loc.time * Tick ELSE due[d]]
  BY DEF Mark
<1>3. /\ DOMAIN due' = DOMAIN due \cup {loc.e}
      /\ \A d \in DOMAIN due' : due'[d] = IF d = loc.e THEN loc.time * Tick ELSE due[d]
  BY <1>2
<1>4. /\ \A d \in Entry : timer'[d] = IF d = loc.e THEN loc.time ELSE timer[d]
      /\ \A d \in Entry : wakes'[d] = IF d = loc.e THEN loc.wake ELSE wakes[d]
  BY <1>1 DEF Mark, TypeOK
<1> QED
  BY <1>1, <1>3, <1>4 DEF Mark

\* No handler runs while the kernel does; interrupts are off where it writes the count.
LEMMA KernelSettles ==
  ASSUME TypeOK, InHand, Settled, Calm', KernelActs
  PROVE  Settled' /\ frames = << >> /\ frames' = << >> /\ ~halted
<1> USE DEF Settled, Step, At, Goto, list, hw, Calm, Return, InWindow
<1>1. CASE \E wake \in BOOLEAN : NewTimerNow(wake)
  BY <1>1 DEF NewTimerNow
<1>2. CASE Looks
  BY <1>2, Looking
<1>3. CASE Mark
  BY <1>3 DEF Mark
<1>4. CASE ReadHead
  BY <1>4 DEF ReadHead
<1>5. CASE ReadTimer
  BY <1>5 DEF ReadTimer
<1>6. CASE ReadCount
  BY <1>6 DEF ReadCount
<1>7. CASE Sub
  BY <1>7 DEF Sub
<1>8. CASE SubDone
  BY <1>8 DEF SubDone
<1>9. CASE Find
  BY <1>9 DEF Find
<1>10. CASE Scan
  BY <1>10 DEF Scan
<1>11. CASE ScanDone
  BY <1>11 DEF ScanDone
<1>12. CASE LinkFirst
  BY <1>12 DEF LinkFirst
<1>13. CASE LinkAfter
  BY <1>13 DEF LinkAfter
<1>14. CASE Arm
  BY <1>14 DEF Arm
<1>15. CASE Cli
  BY <1>15 DEF Cli
<1>16. CASE Write
  BY <1>16 DEF Write, TypeOK
<1>17. CASE Woken \/ NotWoken \/ Hlt
  BY <1>17 DEF Woken, NotWoken, Hlt
<1> QED
  BY <1>1, <1>2, <1>3, <1>4, <1>5, <1>6, <1>7, <1>8, <1>9, <1>10, <1>11, <1>12, <1>13, <1>14,
     <1>15, <1>16, <1>17 DEF KernelActs, KernelStep, Ask, Looks

\* A sleep starts with wakeup_flag clear, and waits for its own timer alone.
LEMMA KernelSleeps ==
  ASSUME TypeOK, InHand, OneSleep, DOMAIN due = used, pc = "mark" => loc.e \notin used,
         KernelActs
  PROVE  OneSleep'
<1> USE DEF OneSleep, Wakers, Step, At, Goto, list, hw, Return, Unlinked, Arming, Sleeping, TypeOK
<1>1. CASE \E wake \in BOOLEAN : NewTimerNow(wake)
  BY <1>1 DEF NewTimerNow
<1>2. CASE Looks
  BY <1>2, Looking
<1>3. CASE Mark
  BY <1>3, Marks
<1>4. CASE ReadHead
  BY <1>4 DEF ReadHead
<1>5. CASE ReadTimer
  BY <1>5 DEF ReadTimer
<1>6. CASE ReadCount
  BY <1>6 DEF ReadCount
<1>7. CASE Sub
  BY <1>7 DEF Sub
<1>8. CASE SubDone
  BY <1>8 DEF SubDone
<1>9. CASE Find
  BY <1>9 DEF Find
<1>10. CASE Scan
  BY <1>10 DEF Scan
<1>11. CASE ScanDone
  BY <1>11 DEF ScanDone
<1>12. CASE LinkFirst
  BY <1>12 DEF LinkFirst
<1>13. CASE LinkAfter
  BY <1>13 DEF LinkAfter
<1>14. CASE Arm
  BY <1>14 DEF Arm
<1>15. CASE Cli
  BY <1>15 DEF Cli
<1>16. CASE Write
  BY <1>16 DEF Write
<1>17. CASE Woken \/ NotWoken \/ Hlt
  BY <1>17 DEF Woken, NotWoken, Hlt
<1> QED
  BY <1>1, <1>2, <1>3, <1>4, <1>5, <1>6, <1>7, <1>8, <1>9, <1>10, <1>11, <1>12, <1>13, <1>14,
     <1>15, <1>16, <1>17 DEF KernelActs, KernelStep, Ask, Looks

\* A step that only reads leaves the list as it is.
LEMMA ListStays ==
  ASSUME frames = << >>, frames' = << >>, NEW q, Listed(q), UNCHANGED list
  PROVE  Listed(q)'
  BY DEF Listed, First, list

\* The time that has passed since the hardware was set, in whole microseconds.
LEMMA PassedTime ==
  ASSUME NEW t \in U32, NEW c \in Nat, c < (t + 1) * Tick
  PROVE  /\ c \div Tick <= t
         /\ t - c \div Tick \in U32
         /\ (t - c \div Tick) % Wrap = t - c \div Tick
<1>1. PICK d \in Nat : d = c \div Tick
  BY WholeMicros
<1>2. d * Tick <= c
  BY <1>1, WholeMicros
<1>3. t \in Nat /\ t <= Wrap - 1 /\ Wrap \in Nat
  BY TimerAssumption DEF U32
<1>4. d <= t
  <2> SUFFICES ASSUME t + 1 <= d PROVE FALSE
    BY <1>3
  <2>1. (t + 1) * Tick <= d * Tick /\ (t + 1) * Tick \in Int /\ d * Tick \in Int
    BY <1>3, MulMono
  <2> QED
    BY <1>2, <2>1
<1>5. t - d \in U32
  BY <1>3, <1>4 DEF U32
<1>6. (t - d) % Wrap = t - d
  BY <1>5, <1>3, Wraps
<1> QED
  BY <1>1, <1>4, <1>5, <1>6

\* queue_sub_head_time takes the time passed from every entry: from then on the first
\* has as much time as the hardware counts, in whole microseconds.
LEMMA CountKeeps ==
  ASSUME TypeOK, frames = << >>, frames' = << >>, ReadCount,
         NEW q \in Queues, NEW m \in 1 .. Len(q) + 1, InOrder(q, m), Listed(q)'
  PROVE  \E n \in 1 .. Len(q) + 1 : InOrder(q, n)'
<1> DEFINE N == Len(q)
           t == timer[q[1]]
           d == counter \div Tick
<1>1. /\ N \in Nat /\ DOMAIN q = 1 .. N /\ \A i \in 1 .. N : q[i] \in Entry /\ timer[q[i]] \in Nat
      /\ q = << >> <=> N = 0
  BY QueueType DEF TypeOK, U32
<1>2. /\ UNCHANGED << list, counter, pending, used, due >>
      /\ pc = "count" /\ pc' = "sub"
      /\ loc' = [loc EXCEPT !.num = (@ - d) % Wrap, !.it = head]
  BY DEF ReadCount, Step, At, Goto, hw
<1>3. /\ q # << >> /\ 1 \in 1 .. N /\ loc.num = t /\ head = q[1]
      /\ counter < (t + 1) * Tick
  BY <1>1, <1>2 DEF InOrder, Position, Listed, First, Counting, Left, Arming
<1>4. t \in U32 /\ counter \in Nat /\ t \in Nat
  BY <1>1, <1>3 DEF TypeOK, U32
<1>5. /\ d \in Nat /\ d * Tick <= counter /\ counter < (d + 1) * Tick
      /\ d <= t /\ (t - d) % Wrap = t - d
  BY <1>3, <1>4, WholeMicros, PassedTime
<1>6. loc'.num = t - d /\ loc'.it = q[1] /\ loc'.e = loc.e
  BY <1>2, <1>3, <1>5 DEF TypeOK
<1> HIDE DEF d
<1>7. \A i, j \in 1 .. N : i <= j => timer[q[i]] <= timer[q[j]]
  BY <1>1, <1>2 DEF InOrder, Ordered, Left
<1>8. \A i \in 1 .. N : Left(q, 1, i)' = timer[q[i]] - (t - d) /\ t <= timer[q[i]]
  BY <1>1, <1>2, <1>3, <1>6, <1>7 DEF Left, list
<1>9. Left(q, 1, 1)' = d
  BY <1>3, <1>4, <1>5, <1>8
<1>10. Complete(q)' /\ Position(q, 1)'
  BY <1>1, <1>2, <1>3, <1>6 DEF InOrder, Complete, Position, Unlinked, Arming, list
<1>11. Ordered(q, 1)'
  <2>1. \A i, j \in DOMAIN q : i <= j => Left(q, 1, i)' <= Left(q, 1, j)'
    BY <1>1, <1>4, <1>5, <1>7, <1>8
  <2>2. \A i \in DOMAIN q : loc'.num <= timer'[q[i]]
    BY <1>1, <1>2, <1>4, <1>5, <1>6, <1>8 DEF list
  <2> QED
    BY <1>2, <2>1, <2>2 DEF Ordered
<1>12. Counting(q, 1)'
  BY <1>2, <1>3, <1>5, <1>9 DEF InOrder, Counting, Arming
<1>13. OnTime(q, 1)'
  <2>1. \A i \in 1 .. N : Left(q, 1, i)' - Left(q, 1, 1)' = timer[q[i]] - t
    BY <1>1, <1>4, <1>5, <1>8, <1>9
  <2>2. \A i \in 1 .. N : due[q[i]] <= (timer[q[i]] - t) * Tick + counter
    BY <1>1, <1>2, <1>3 DEF InOrder, OnTime, Left, Arming
  <2>3. loc.e \in used /\ due[loc.e] \in Nat /\ due[loc.e] <= timer[loc.e] * Tick /\ timer[loc.e] \in Nat
    BY <1>2 DEF InOrder, Complete, OnTime, Unlinked, Arming, TypeOK, U32
  <2>4. due[loc.e] + d * Tick <= timer[loc.e] * Tick + counter
    <3>1. d * Tick \in Int /\ timer[loc.e] * Tick \in Int
      BY <1>5, <2>3, TimerAssumption, SMT
    <3> QED
      BY <1>4, <1>5, <2>3, <3>1
  <2> QED
    BY <1>1, <1>2, <1>6, <1>9, <2>1, <2>2, <2>3, <2>4 DEF OnTime, Unlinked, Arming, list
<1>14. InOrder(q, 1)'
  BY <1>10, <1>11, <1>12, <1>13 DEF InOrder
<1> QED
  BY <1>1, <1>14

\* queue_find_loc passes an entry that is not later than the new one.
LEMMA ScanKeeps ==
  ASSUME TypeOK, Scan,
         NEW q \in Queues, NEW m \in 1 .. Len(q) + 1, InOrder(q, m), Listed(q)'
  PROVE  \E n \in 1 .. Len(q) + 1 : InOrder(q, n)'
<1> DEFINE N == Len(q)
<1>1. /\ N \in Nat /\ DOMAIN q = 1 .. N /\ \A i \in 1 .. N : q[i] \in Entry /\ timer[q[i]] \in Nat
      /\ q = << >> <=> N = 0
      /\ m \in 1 .. N + 1 /\ m \in Int
  BY QueueType DEF TypeOK, U32
<1>2. /\ UNCHANGED << list, counter, pending, used, due >>
      /\ pc = "scan" /\ pc' = "scan" /\ loc.it # NULL /\ ~(timer[loc.e] < timer[loc.it])
      /\ loc' = [loc EXCEPT !.prev = loc.it, !.it = next[loc.it]]
  BY DEF Scan, At, hw, Later
<1>3. m <= N /\ loc.it = q[m] /\ m \in 1 .. N
  BY <1>1, <1>2 DEF InOrder, Position
<1>4. next[q[m]] = IF m = N THEN NULL ELSE q[m + 1]
  BY <1>1, <1>3 DEF InOrder, Listed
<1>5. /\ loc'.prev = q[m] /\ loc'.it = (IF m = N THEN NULL ELSE q[m + 1])
      /\ loc'.e = loc.e
  BY <1>2, <1>3, <1>4 DEF TypeOK
<1>6. timer[q[m]] <= timer[loc.e]
  <2>1. loc.e \in used /\ timer[loc.e] \in Nat /\ timer[q[m]] \in Nat
    BY <1>1, <1>2, <1>3 DEF InOrder, Complete, Unlinked, TypeOK, U32
  <2> QED
    BY <1>2, <1>3, <2>1
<1>7. PICK n \in 2 .. N + 1 : n = m + 1 /\ n \in Int
  BY <1>1, <1>3
<1>8. Complete(q)' /\ Counting(q, n)' /\ OnTime(q, n)'
  BY <1>1, <1>2, <1>5 DEF InOrder, Complete, Counting, OnTime, Left, Unlinked, Arming, list
<1>9. Position(q, n)'
  <2>1. n > N <=> m = N
    <3>1. N \in Int /\ m \in Int /\ m <= N /\ n = m + 1
      BY <1>1, <1>3, <1>7
    <3> HIDE DEF N
    <3> QED
      BY <3>1
  <2>2. (IF n = 1 THEN NULL ELSE q[n - 1]) = q[m]
    BY <1>1, <1>3, <1>7
  <2> QED
    BY <1>2, <1>5, <1>7, <2>1, <2>2 DEF Position, Arming
<1>10. Ordered(q, n)'
  <2>1. \A i \in 1 .. N : i < n => i < m \/ i = m
    BY <1>1, <1>7
  <2> QED
    BY <1>1, <1>2, <1>5, <1>6, <2>1 DEF InOrder, Ordered, Left, list
<1> QED
  BY <1>7, <1>8, <1>9, <1>10, <1>1 DEF InOrder

\* Steps of the kernel that change neither the list, nor a time, a bit or the count.
Reads ==
  \/ \E wake \in BOOLEAN : NewTimerNow(wake)
  \/ Looks
  \/ ReadHead \/ ReadTimer \/ ReadCount \/ SubDone \/ Find \/ Scan
  \/ ScanDone \/ Arm \/ Cli \/ Woken \/ NotWoken \/ Hlt

\* Reading, walking, and the steps of sleep keep the queue as it is.
LEMMA ReadsKeep ==
  ASSUME TypeOK, TypeOK', InHand, frames = << >>, frames' = << >>, Reads,
         NEW q \in Queues, NEW m \in 1 .. Len(q) + 1, InOrder(q, m)
  PROVE  \E n \in 1 .. Len(q) + 1 : InOrder(q, n)'
<1> DEFINE N == Len(q)
<1>1. /\ N \in Nat /\ N <= Entries /\ DOMAIN q = 1 .. N /\ m \in 1 .. N + 1
      /\ \A i \in 1 .. N : q[i] \in Entry /\ q[i] # NULL
      /\ q = << >> <=> N = 0
      /\ m \in 1 .. N + 1 /\ 1 \in 1 .. N + 1
  BY QueueType DEF Entry, NULL
<1>2. UNCHANGED << list, counter, pending, used, due >>
  BY Looking DEF Reads, NewTimerNow, ReadHead, ReadTimer, ReadCount, SubDone, Find, Scan,
     ScanDone, Arm, Cli, Woken, NotWoken, Hlt, hw
<1>3. Listed(q)'
  BY <1>2, ListStays DEF InOrder
<1> USE <1>1, <1>2, <1>3
<1> USE DEF InOrder, Complete, Position, Ordered, Counting, OnTime, Left, Unlinked, Arming,
            Step, At, Goto, list
<1>4. CASE \E wake \in BOOLEAN : NewTimerNow(wake)
  <2>1. InOrder(q, m)'
    BY <1>4 DEF NewTimerNow
  <2> QED
    BY <2>1
<1>5. CASE Looks
  <2>1. InOrder(q, m)'
    BY <1>5, Looking
  <2> QED
    BY <2>1
<1>6. CASE ReadHead
  <2>1. InOrder(q, m)'
    BY <1>6 DEF ReadHead, Listed, First
  <2> QED
    BY <2>1
<1>7. CASE ReadTimer
  <2>1. InOrder(q, m)'
    BY <1>7 DEF ReadTimer, TypeOK
  <2> QED
    BY <2>1
<1>8. CASE SubDone
  <2>1. InOrder(q, m)'
    BY <1>8 DEF SubDone
  <2> QED
    BY <2>1
<1>9. CASE Find
  <2>1. InOrder(q, 1)'
    BY <1>9 DEF Find, Listed, First
  <2> QED
    BY <2>1
<1>10. CASE Scan
  <2> HIDE DEF InOrder, Complete, Position, Ordered, Counting, OnTime, Left, Unlinked, Arming,
            Step, At, Goto, list
  <2> QED
    BY <1>10, ScanKeeps, Zenon
<1>11. CASE ScanDone
  <2>1. InOrder(q, m)'
    BY <1>11 DEF ScanDone, Later, TypeOK, U32
  <2> QED
    BY <2>1
<1>12. CASE Arm
  <2>1. InOrder(q, m)'
    BY <1>12 DEF Arm, TypeOK, U32
  <2> QED
    BY <2>1
<1>13. CASE Cli
  <2>1. InOrder(q, m)'
    BY <1>13 DEF Cli
  <2> QED
    BY <2>1
<1>14. CASE Woken
  <2>1. InOrder(q, m)'
    BY <1>14 DEF Woken
  <2> QED
    BY <2>1
<1>15. CASE NotWoken
  <2>1. InOrder(q, m)'
    BY <1>15 DEF NotWoken
  <2> QED
    BY <2>1
<1>16. CASE Hlt
  <2>1. InOrder(q, m)'
    BY <1>16 DEF Hlt
  <2> QED
    BY <2>1
<1>17. CASE ReadCount
  <2> HIDE DEF InOrder, Complete, Position, Ordered, Counting, OnTime, Left, Unlinked, Arming,
            Step, At, Goto, list
  <2> QED
    BY <1>17, CountKeeps, Zenon
<1> QED
  BY <1>4, <1>5, <1>6, <1>7, <1>8, <1>9, <1>10, <1>11, <1>12, <1>13, <1>14, <1>15, <1>16, <1>17 DEF Reads

\* A new timer is marked: its time has not begun to run.
LEMMA MarkKeeps ==
  ASSUME TypeOK, TypeOK', InHand, frames = << >>, frames' = << >>, Mark,
         NEW q \in Queues, NEW m \in 1 .. Len(q) + 1, InOrder(q, m)
  PROVE  InOrder(q, m)'
<1>1. /\ DOMAIN q = 1 .. Len(q) /\ \A i \in 1 .. Len(q) : q[i] \in Entry
      /\ Members(q) = {q[i] : i \in 1 .. Len(q)}
  BY QueueType DEF Members
<1>2. /\ pc = "mark" /\ pc' = "head" /\ loc.e \in Entry /\ loc.time # 0 /\ loc.time \in U32
      /\ UNCHANGED << next, head, counter, pending, loc >>
      /\ used' = used \cup {loc.e} /\ loc.e \notin used /\ DOMAIN due = used
      /\ DOMAIN due' = used'
      /\ due'[loc.e] = loc.time * Tick /\ timer'[loc.e] = loc.time
      /\ \A d \in used : due'[d] = due[d] /\ timer'[d] = timer[d]
      /\ Members(q) = used
  BY Marks DEF InOrder, Complete, hw, TypeOK, Unlinked
<1>3. \A i \in 1 .. Len(q) : q[i] \in used /\ due'[q[i]] = due[q[i]] /\ timer'[q[i]] = timer[q[i]]
  BY <1>1, <1>2
<1>4. loc.time * Tick \in Int
  BY <1>2, TimerAssumption, SMT DEF U32
<1>5. Listed(q)'
  BY <1>2 DEF InOrder, Listed, First
<1>6. Complete(q)' /\ Position(q, m)'
  BY <1>2 DEF Complete, Position, Unlinked, Arming, Members
<1>7. Ordered(q, m)'
  BY <1>1, <1>2, <1>3 DEF InOrder, Ordered, Left
<1>8. Counting(q, m)'
  <2>1. q # << >> => 1 \in 1 .. Len(q)
    BY QueueType
  <2> QED
    BY <2>1, <1>2, <1>3 DEF InOrder, Counting, Left, Arming
<1>9. OnTime(q, m)'
  <2>1. \A i \in 1 .. Len(q) : 1 \in 1 .. Len(q)
    BY QueueType
  <2>2. \A i \in 1 .. Len(q) : due[q[i]] <= (timer[q[i]] - timer[q[1]]) * Tick + counter
    BY <1>1, <1>2 DEF InOrder, OnTime, Left, Arming
  <2>3. \A i \in 1 .. Len(q) : due'[q[i]] <= (timer'[q[i]] - timer'[q[1]]) * Tick + counter
    BY <2>1, <2>2, <1>3
  <2> QED
    BY <1>1, <1>2, <1>4, <2>3 DEF OnTime, Left, Arming, Unlinked
<1> QED
  BY <1>5, <1>6, <1>7, <1>8, <1>9 DEF InOrder

\* queue_sub_timer reaches the next entry: no entry's time, once it is done, changes.
LEMMA SubKeeps ==
  ASSUME TypeOK, frames = << >>, frames' = << >>, Sub,
         NEW q \in Queues, NEW m \in 1 .. Len(q) + 1, InOrder(q, m)
  PROVE  \E n \in 1 .. Len(q) + 1 : InOrder(q, n)'
<1> DEFINE N == Len(q)
<1>1. /\ N \in Nat /\ DOMAIN q = 1 .. N /\ \A i \in 1 .. N : q[i] \in Entry /\ timer[q[i]] \in Nat
      /\ q = << >> <=> N = 0
      /\ m \in 1 .. N + 1 /\ m \in Int /\ loc.num \in Nat
  BY QueueType DEF TypeOK, U32
<1>2. /\ UNCHANGED << next, head, counter, pending, used, due >>
      /\ pc = "sub" /\ pc' = "sub" /\ loc.it # NULL
      /\ timer' = [timer EXCEPT ![loc.it] = Less(@, loc.num)]
      /\ loc' = [loc EXCEPT !.it = next[loc.it]]
  BY DEF Sub, At, hw
<1>3. m <= N /\ loc.it = q[m] /\ m \in 1 .. N
  BY <1>1, <1>2 DEF InOrder, Position
<1>4. next[q[m]] = IF m = N THEN NULL ELSE q[m + 1]
  BY <1>1, <1>3 DEF InOrder, Listed
<1>5. loc'.it = (IF m = N THEN NULL ELSE q[m + 1]) /\ loc'.e = loc.e /\ loc'.num = loc.num
  BY <1>2, <1>3, <1>4 DEF TypeOK
<1>6. loc.num <= timer[q[m]]
  BY <1>1, <1>2, <1>3 DEF InOrder, Ordered
<1>7. PICK n \in 2 .. N + 1 : n = m + 1 /\ n \in Int
  BY <1>1, <1>3
<1>8. \A i \in 1 .. N : (q[i] = q[m] <=> i = m) /\ (i >= n <=> i >= m /\ i # m)
  BY <1>1, <1>3, <1>7 DEF InOrder, Listed
<1>9. \A d \in Entry : timer'[d] = IF d = q[m] THEN timer[q[m]] - loc.num ELSE timer[d]
  BY <1>1, <1>2, <1>3, <1>6 DEF TypeOK, Less
<1>10. \A i \in 1 .. N : Left(q, n, i)' = Left(q, m, i)
  <2> SUFFICES ASSUME NEW i \in 1 .. N PROVE Left(q, n, i)' = Left(q, m, i)
    OBVIOUS
  <2>1. CASE i = m
    <3>1. ~(i >= n) /\ i >= m /\ timer'[q[i]] = timer[q[m]] - loc.num
      BY <1>1, <1>8, <1>9, <2>1
    <3> QED
      BY <1>2, <2>1, <3>1 DEF Left
  <2>2. CASE i # m
    <3>1. timer'[q[i]] = timer[q[i]] /\ (i >= n <=> i >= m)
      BY <1>1, <1>8, <1>9, <2>2
    <3> QED
      BY <1>2, <1>5, <3>1 DEF Left
  <2> QED
    BY <2>1, <2>2
<1>11. loc.e \in used /\ Members(q) = used \ {loc.e} /\ timer[loc.e] # 0 /\ loc.e \in Entry
  BY <1>2 DEF InOrder, Complete, Unlinked, TypeOK
<1>12. timer'[loc.e] = timer[loc.e]
  <2>1. q[m] # loc.e
    BY <1>1, <1>3, <1>11 DEF Members
  <2> QED
    BY <1>9, <1>11, <2>1
<1>13. Listed(q)' /\ Complete(q)'
  BY <1>2, <1>5, <1>11, <1>12 DEF InOrder, Listed, First, Complete, Unlinked, Arming, Members
<1>14. Position(q, n)'
  <2>1. n > N <=> m = N
    <3>1. N \in Int /\ m \in Int /\ m <= N /\ n = m + 1
      BY <1>1, <1>3, <1>7
    <3> HIDE DEF N
    <3> QED
      BY <3>1
  <2> QED
    BY <1>2, <1>5, <1>7, <2>1 DEF Position, Arming
<1>15. Ordered(q, n)'
  <2>1. \A i, j \in DOMAIN q : i <= j => Left(q, n, i)' <= Left(q, n, j)'
    BY <1>1, <1>10 DEF InOrder, Ordered
  <2>2. \A i \in DOMAIN q : i >= n => loc'.num <= timer'[q[i]]
    BY <1>1, <1>2, <1>5, <1>8, <1>9 DEF InOrder, Ordered
  <2> QED
    BY <1>2, <2>1, <2>2 DEF Ordered
<1>16. Counting(q, n)' /\ OnTime(q, n)'
  <2>1. q # << >> => 1 \in 1 .. N
    BY <1>1
  <2>2. Counting(q, n)'
    BY <1>2, <1>10, <2>1 DEF InOrder, Counting, Arming
  <2>3. \A i \in 1 .. N : 1 \in 1 .. N
    BY <1>1
  <2>4. OnTime(q, n)'
    BY <1>1, <1>2, <1>5, <1>10, <1>12, <2>1, <2>3 DEF InOrder, OnTime, Arming, Unlinked
  <2> QED
    BY <2>2, <2>4
<1> QED
  BY <1>1, <1>7, <1>13, <1>14, <1>15, <1>16 DEF InOrder

\* A sequence of timers with one more, which it did not have, before its m-th.
Inserted(q, m, e) ==
  [i \in 1 .. Len(q) + 1 |-> IF i < m THEN q[i] ELSE IF i = m THEN e ELSE q[i - 1]]

\* An entry put before the m-th.
LEMMA Insertion ==
  ASSUME NEW q \in Queues, NEW m \in 1 .. Len(q) + 1, NEW e \in Entry, e \notin Members(q),
         \A i, j \in DOMAIN q : q[i] = q[j] => i = j,
         NEW r, r = Inserted(q, m, e)
  PROVE  /\ r \in Queues /\ Len(r) = Len(q) + 1
         /\ \A i, j \in DOMAIN r : r[i] = r[j] => i = j
         /\ Members(r) = Members(q) \cup {e}
         /\ \A i \in 1 .. Len(q) + 1 : r[i] = IF i < m THEN q[i] ELSE IF i = m THEN e ELSE q[i - 1]
<1>0. PICK N \in Nat : N = Len(q)
  BY QueueType
<1>1. /\ N \in Nat /\ N <= Entries /\ DOMAIN q = 1 .. N /\ m \in 1 .. N + 1 /\ m \in Int
      /\ \A i \in 1 .. N : q[i] \in Entry /\ q[i] # e
      /\ \A i, j \in 1 .. N : q[i] = q[j] => i = j
  BY <1>0, QueueType DEF Members
<1>2. r = [i \in 1 .. N + 1 |-> IF i < m THEN q[i] ELSE IF i = m THEN e ELSE q[i - 1]]
  BY <1>0 DEF Inserted
<1>3. /\ DOMAIN r = 1 .. N + 1
      /\ \A i \in 1 .. N + 1 : r[i] = IF i < m THEN q[i] ELSE IF i = m THEN e ELSE q[i - 1]
  BY <1>2
<1>4. \A i \in 1 .. N + 1 : /\ i < m => i \in 1 .. N
                            /\ i > m => i - 1 \in 1 .. N
  BY <1>1
<1>5. \A i \in 1 .. N + 1 : r[i] \in Entry
  BY <1>1, <1>3, <1>4
<1>6. r \in [1 .. N + 1 -> Entry]
  BY <1>2, <1>3, <1>5
<1>7. \A i, j \in 1 .. N + 1 : r[i] = r[j] => i = j
  <2> SUFFICES ASSUME NEW i \in 1 .. N + 1, NEW j \in 1 .. N + 1, r[i] = r[j], i < j
               PROVE  FALSE
    <3>1. ASSUME NEW i \in 1 .. N + 1, NEW j \in 1 .. N + 1, r[i] = r[j], i # j
          PROVE  FALSE
      <4>1. i < j \/ j < i
        BY <3>1
      <4> QED
        BY <3>1, <4>1
    <3> QED
      BY <3>1
  <2>1. CASE j < m
    <3>1. i \in 1 .. N /\ j \in 1 .. N /\ r[i] = q[i] /\ r[j] = q[j]
      BY <2>1, <1>1, <1>3, <1>4
    <3>2. i = j
      BY <3>1, <1>1, Zenon
    <3> QED
      BY <3>2
  <2>2. CASE i < m /\ j = m
    BY <2>2, <1>1, <1>3, <1>4
  <2>3. CASE i < m /\ j > m
    <3>1. i \in 1 .. N /\ j - 1 \in 1 .. N /\ r[i] = q[i] /\ r[j] = q[j - 1] /\ i < j - 1
      BY <2>3, <1>1, <1>3, <1>4
    <3>2. i = j - 1
      BY <3>1, <1>1, Zenon
    <3> QED
      BY <3>1, <3>2
  <2>4. CASE i = m
    <3>1. j > m /\ j - 1 \in 1 .. N /\ r[j] = q[j - 1] /\ r[i] = e
      BY <2>4, <1>1, <1>3, <1>4
    <3> QED
      BY <3>1, <1>1
  <2>5. CASE i > m
    <3>1. i - 1 \in 1 .. N /\ j - 1 \in 1 .. N /\ r[i] = q[i - 1] /\ r[j] = q[j - 1] /\ i - 1 # j - 1
      BY <2>5, <1>1, <1>3, <1>4
    <3>2. i - 1 = j - 1
      BY <3>1, <1>1, Zenon
    <3> QED
      BY <3>1, <3>2
  <2> QED
    BY <1>1, <2>1, <2>2, <2>3, <2>4, <2>5
<1>8. N + 1 <= Entries
  <2> SUFFICES ASSUME Entries < N + 1 PROVE FALSE
    BY <1>1, TimerAssumption
  <2>1. /\ IsFiniteSet(1 .. N + 1) /\ Cardinality(1 .. N + 1) = N + 1
        /\ IsFiniteSet(Entry) /\ Cardinality(Entry) = Entries
    BY <1>1, FS_Interval, TimerAssumption DEF Entry
  <2>2. \E x, y \in 1 .. N + 1 : x # y /\ r[x] = r[y]
    BY <2>1, <1>6, FS_PigeonHole
  <2> QED
    BY <2>2, <1>7
<1>9. r \in Queues
  <2>1. N + 1 \in 0 .. Entries
    BY <1>1, <1>8, TimerAssumption
  <2> QED
    BY <2>1, <1>6 DEF Queues
<1>10. Len(r) = N + 1
  BY <1>3, <1>6, <1>1, LenProperties, <1>9, QueueType
<1>11. Members(r) = Members(q) \cup {e}
  <2>1. ASSUME NEW i \in 1 .. N PROVE q[i] \in Members(r)
    <3>1. CASE i < m
      BY <3>1, <1>1, <1>3 DEF Members
    <3>2. CASE ~(i < m)
      <4>1. i + 1 \in 1 .. N + 1 /\ r[i + 1] = q[i]
        BY <3>2, <1>1, <1>3
      <4> QED
        BY <4>1, <1>3 DEF Members
    <3> QED
      BY <3>1, <3>2
  <2>2. e \in Members(r)
    BY <1>1, <1>3 DEF Members
  <2>3. ASSUME NEW i \in 1 .. N + 1 PROVE r[i] \in Members(q) \cup {e}
    <3>1. i < m \/ i = m \/ i > m
      BY <1>1
    <3>2. CASE i < m
      BY <3>2, <1>1, <1>3, <1>4 DEF Members
    <3>3. CASE i = m
      BY <3>3, <1>1, <1>3
    <3>4. CASE i > m
      <4>1. i - 1 \in 1 .. N /\ r[i] = q[i - 1]
        BY <3>4, <1>1, <1>3, <1>4
      <4> QED
        BY <4>1, <1>1 DEF Members
    <3> QED
      BY <3>1, <3>2, <3>3, <3>4
  <2> QED
    BY <1>1, <1>3, <2>1, <2>2, <2>3 DEF Members
<1> QED
  BY <1>0, <1>3, <1>7, <1>9, <1>10, <1>11

\* slist_insert_head and slist_insert_after put the new entry where the search ended.
LEMMA Linked ==
  ASSUME TypeOK, LinkFirst \/ LinkAfter, frames = << >>, frames' = << >>,
         NEW q \in Queues, NEW m \in 1 .. Len(q) + 1, InOrder(q, m), NEW e, e = loc.e
  PROVE  /\ e \in Entry \ Members(q) /\ Members(q) = used \ {e} /\ e \in used
         /\ LinkFirst <=> m = 1
         /\ Listed(Inserted(q, m, e))'
<1>0. PICK N \in Nat : N = Len(q)
  BY QueueType
<1>1. e = loc.e /\ \A i, j \in DOMAIN q : q[i] = q[j] => i = j
  BY DEF InOrder, Listed
<1>r. PICK r : r = Inserted(q, m, e)
  OBVIOUS
<1>2. /\ N \in Nat /\ N <= Entries /\ DOMAIN q = 1 .. N /\ m \in 1 .. N + 1 /\ m \in Int
      /\ \A i \in 1 .. N : q[i] \in Entry /\ q[i] # NULL
      /\ q = << >> <=> N = 0
  BY <1>0, QueueType DEF Entry, NULL
<1>3. pc = "link" /\ loc.e \in used /\ Members(q) = used \ {loc.e} /\ loc.e \in Entry
  BY DEF LinkFirst, LinkAfter, Step, At, InOrder, Complete, Unlinked, TypeOK
<1>4. e \in Entry /\ e \notin Members(q) /\ \A i \in 1 .. N : q[i] # e
  BY <1>1, <1>2, <1>3 DEF Members
<1>5. /\ \A i, j \in 1 .. N : q[i] = q[j] => i = j
      /\ head = IF N = 0 THEN NULL ELSE q[1]
      /\ \A i \in 1 .. N : next[q[i]] = IF i = N THEN NULL ELSE q[i + 1]
      /\ loc.it = IF m > N THEN NULL ELSE q[m]
      /\ loc.prev = IF m = 1 THEN NULL ELSE q[m - 1]
  BY <1>0, <1>2, <1>3 DEF InOrder, Listed, First, Position
<1>6. m > 1 => m - 1 \in 1 .. N
  BY <1>2
<1>7. loc.prev = NULL <=> m = 1
  BY <1>2, <1>5, <1>6
<1>8. LinkFirst <=> m = 1
  BY <1>7 DEF LinkFirst, LinkAfter
<1>9. /\ r \in Queues /\ Len(r) = N + 1
      /\ \A i, j \in DOMAIN r : r[i] = r[j] => i = j
      /\ \A i \in 1 .. N + 1 : r[i] = IF i < m THEN q[i] ELSE IF i = m THEN e ELSE q[i - 1]
  <2>1. e \notin Members(q) /\ e \in Entry /\ r = Inserted(q, m, e)
    BY <1>r, <1>4
  <2>2. \A i, j \in DOMAIN q : q[i] = q[j] => i = j
    BY <1>1
  <2>3. /\ r \in Queues /\ Len(r) = Len(q) + 1
        /\ \A i, j \in DOMAIN r : r[i] = r[j] => i = j
        /\ \A i \in 1 .. Len(q) + 1 : r[i] = IF i < m THEN q[i] ELSE IF i = m THEN e ELSE q[i - 1]
    BY <2>1, <2>2, Insertion
  <2> QED
    BY <1>0, <2>3
<1>10. DOMAIN r = 1 .. N + 1 /\ r # << >>
  BY <1>9, <1>2, QueueType
<1>11. CASE m = 1
  <2>1. head' = e /\ next' = [next EXCEPT ![e] = head]
    BY <1>1, <1>8, <1>11 DEF LinkFirst
  <2>2. ASSUME NEW i \in 1 .. N + 1
        PROVE  next'[r[i]] = IF i = N + 1 THEN NULL ELSE r[i + 1]
    <3>1. CASE i = 1
      <4>1. r[i] = e /\ next'[r[i]] = head
        <5>1. next \in [Entry -> Link]
          BY DEF TypeOK
        <5>2. next'[e] = head
          BY <1>4, <2>1, <5>1
        <5>3. r[i] = e
          BY <1>2, <1>9, <1>11, <3>1
        <5> QED
          BY <5>2, <5>3
      <4>2. N # 0 => r[i + 1] = q[1]
        BY <1>2, <1>9, <1>11, <3>1
      <4> QED
        BY <1>2, <1>5, <3>1, <4>1, <4>2
    <3>2. CASE i > 1
      <4>1. i - 1 \in 1 .. N /\ r[i] = q[i - 1] /\ (i # N + 1 => r[i + 1] = q[i])
        BY <1>2, <1>9, <1>11, <3>2
      <4>2. next'[r[i]] = next[q[i - 1]]
        BY <1>2, <1>4, <2>1, <4>1 DEF TypeOK
      <4>3. next[q[i - 1]] = IF i - 1 = N THEN NULL ELSE q[i]
        BY <1>5, <4>1
      <4> QED
        BY <1>2, <4>1, <4>2, <4>3
    <3> QED
      BY <3>1, <3>2
  <2>3. r[1] = e
    BY <1>2, <1>9, <1>11
  <2> QED
    BY <1>1, <1>r, <1>3, <1>4, <1>8, <1>9, <1>10, <2>1, <2>2, <2>3, SMTT(30) DEF Listed, First
<1>12. CASE m > 1
  <2> DEFINE p == q[m - 1]
  <2>1. head' = head /\ next' = [next EXCEPT ![e] = next[p], ![p] = e] /\ p \in Entry /\ p # e
    BY <1>1, <1>2, <1>4, <1>5, <1>6, <1>8, <1>12 DEF LinkAfter
  <2>2. \A d \in Entry : next'[d] = IF d = p THEN e ELSE IF d = e THEN next[p] ELSE next[d]
    <3> HIDE DEF p
    <3> QED
      BY <1>4, <2>1 DEF TypeOK
  <2>3. next[p] = IF m - 1 = N THEN NULL ELSE q[m]
    BY <1>5, <1>6, <1>12, <1>2
  <2>4. \A i \in 1 .. N : q[i] = p <=> i = m - 1
    BY <1>2, <1>5, <1>6, <1>12
  <2> HIDE DEF p
  <2>5. ASSUME NEW i \in 1 .. N + 1
        PROVE  next'[r[i]] = IF i = N + 1 THEN NULL ELSE r[i + 1]
    <3>1. CASE i < m - 1
      <4>1. i \in 1 .. N /\ r[i] = q[i] /\ r[i + 1] = q[i + 1] /\ i # N /\ i # N + 1
        BY <1>2, <1>9, <3>1
      <4> QED
        BY <1>2, <1>4, <1>5, <2>2, <2>4, <3>1, <4>1
    <3>2. CASE i = m - 1
      <4>1. i \in 1 .. N /\ r[i] = p /\ r[i + 1] = e /\ i # N + 1
        BY <1>2, <1>9, <2>4, <3>2
      <4> QED
        BY <2>1, <2>2, <4>1
    <3>3. CASE i = m
      <4>1. r[i] = e /\ (i # N + 1 => r[i + 1] = q[m])
        BY <1>2, <1>9, <3>3
      <4>2. next'[r[i]] = next[p]
        BY <1>4, <2>1, <2>2, <4>1
      <4> QED
        BY <1>2, <2>3, <3>3, <4>1, <4>2
    <3>4. CASE i > m
      <4>1. i - 1 \in 1 .. N /\ r[i] = q[i - 1] /\ (i # N + 1 => r[i + 1] = q[i]) /\ i - 1 # m - 1
        BY <1>2, <1>9, <1>12, <3>4
      <4>2. next'[r[i]] = next[q[i - 1]]
        BY <1>2, <1>4, <2>2, <2>4, <4>1
      <4>3. next[q[i - 1]] = IF i - 1 = N THEN NULL ELSE q[i]
        BY <1>5, <4>1
      <4> QED
        BY <1>2, <4>1, <4>2, <4>3
    <3> QED
      BY <1>2, <3>1, <3>2, <3>3, <3>4
  <2>6. head' = r[1]
    BY <1>2, <1>5, <1>6, <1>9, <1>12, <2>1
  <2> QED
    BY <1>1, <1>r, <1>3, <1>4, <1>8, <1>9, <1>10, <2>5, <2>6 DEF Listed, First
<1>13. m = 1 \/ m > 1
  BY <1>2
<1> QED
  BY <1>11, <1>12, <1>13

\* The new entry is in its place: before it are the earlier ones, behind it the later.
LEMMA LinkKeeps ==
  ASSUME TypeOK, TypeOK', LinkFirst \/ LinkAfter, frames = << >>, frames' = << >>,
         NEW q \in Queues, NEW m \in 1 .. Len(q) + 1, InOrder(q, m)
  PROVE  \E r \in Queues : \E n \in 1 .. Len(r) + 1 : InOrder(r, n)'
<1>0. PICK N \in Nat : N = Len(q)
  BY QueueType
<1>e. PICK e : e = loc.e
  OBVIOUS
<1>r. PICK r : r = Inserted(q, m, e)
  OBVIOUS
<1>1. /\ N \in Nat /\ DOMAIN q = 1 .. N /\ m \in 1 .. N + 1 /\ m \in Int
      /\ \A i \in 1 .. N : q[i] \in Entry /\ timer[q[i]] \in Nat
      /\ q = << >> <=> N = 0
  BY <1>0, QueueType DEF TypeOK, U32
<1>2. e \in Entry \ Members(q) /\ Members(q) = used \ {e} /\ e \in used /\ (LinkFirst <=> m = 1)
      /\ Listed(r)'
  BY <1>e, <1>r, Linked
<1>3. /\ r \in Queues /\ Len(r) = N + 1 /\ Members(r) = used
      /\ \A i \in 1 .. N + 1 : r[i] = IF i < m THEN q[i] ELSE IF i = m THEN e ELSE q[i - 1]
  <2>1. \A i, j \in DOMAIN q : q[i] = q[j] => i = j
    BY DEF InOrder, Listed
  <2>2. /\ r \in Queues /\ Len(r) = N + 1 /\ Members(r) = Members(q) \cup {e}
        /\ \A i \in 1 .. N + 1 : r[i] = IF i < m THEN q[i] ELSE IF i = m THEN e ELSE q[i - 1]
    BY <1>0, <1>2, <1>r, <2>1, Insertion
  <2> QED
    BY <1>2, <2>2
<1>4. DOMAIN r = 1 .. N + 1 /\ r # << >> /\ 1 \in 1 .. N + 1
  BY <1>1, <1>3, QueueType
<1>5. \A i \in 1 .. N + 1 : /\ i < m => i \in 1 .. N /\ r[i] = q[i]
                            /\ i = m => r[i] = e
                            /\ i > m => i - 1 \in 1 .. N /\ r[i] = q[i - 1]
                            /\ i < m \/ i = m \/ i > m
  BY <1>1, <1>3
<1>6. /\ UNCHANGED << timer, counter, pending, used, due >>
      /\ pc = "link"
      /\ m = 1 => head' = e /\ pc' = "arm" /\ loc' = loc
      /\ m # 1 => pc' \in {"idle", "check"}
  BY <1>2, <1>e DEF LinkFirst, LinkAfter, Step, At, Goto, Return, hw
<1>7. /\ timer[e] \in Nat /\ timer[e] # 0 /\ due[e] \in Nat
      /\ DOMAIN due = used /\ due[e] <= timer[e] * Tick
      /\ q # << >> => due[e] = 0 \/ due[e] + timer[q[1]] * Tick <= timer[e] * Tick + counter
  BY <1>2, <1>6, <1>e DEF InOrder, Complete, OnTime, Left, Unlinked, Arming, TypeOK, U32
<1>8. /\ \A i, j \in 1 .. N : i <= j => timer[q[i]] <= timer[q[j]]
      /\ \A i \in 1 .. N : i < m => timer[q[i]] <= timer[e]
      /\ \A i \in 1 .. N : i >= m => timer[e] < timer[q[i]]
  BY <1>1, <1>6, <1>e DEF InOrder, Ordered, Left
<1>9. /\ q = << >> <=> counter = 0 /\ ~pending
      /\ q # << >> => counter < (timer[q[1]] + 1) * Tick
      /\ \A i \in 1 .. N : due[q[i]] <= (timer[q[i]] - timer[q[1]]) * Tick + counter
      /\ counter \in Nat
  BY <1>1, <1>6 DEF InOrder, Counting, OnTime, Left, Arming, TypeOK, U32
<1>10. \A i \in 1 .. N + 1 : timer[r[i]] \in Nat
  BY <1>1, <1>5, <1>7
<1>11. \A i, j \in 1 .. N + 1 : i <= j => timer[r[i]] <= timer[r[j]]
  <2> SUFFICES ASSUME NEW i \in 1 .. N + 1, NEW j \in 1 .. N + 1, i <= j
               PROVE  timer[r[i]] <= timer[r[j]]
    OBVIOUS
  <2>1. CASE j < m
    <3>1. i \in 1 .. N /\ j \in 1 .. N /\ r[i] = q[i] /\ r[j] = q[j]
      BY <2>1, <1>1, <1>5
    <3> QED
      BY <3>1, <1>8, Zenon
  <2>2. CASE i < m /\ j = m
    BY <2>2, <1>5, <1>8
  <2>3. CASE i < m /\ j > m
    <3>1. i \in 1 .. N /\ j - 1 \in 1 .. N /\ r[i] = q[i] /\ r[j] = q[j - 1] /\ i <= j - 1
      BY <2>3, <1>1, <1>5
    <3> QED
      BY <3>1, <1>8, Zenon
  <2>4. CASE i = m /\ j = m
    BY <2>4, <1>5, <1>7
  <2>5. CASE i = m /\ j > m
    <3>1. j - 1 \in 1 .. N /\ r[j] = q[j - 1] /\ r[i] = e /\ j - 1 >= m
      BY <2>5, <1>1, <1>5
    <3>2. timer[e] < timer[q[j - 1]]
      BY <3>1, <1>8, Zenon
    <3> QED
      BY <3>1, <3>2, <1>1, <1>7
  <2>6. CASE i > m
    <3>1. i - 1 \in 1 .. N /\ j - 1 \in 1 .. N /\ r[i] = q[i - 1] /\ r[j] = q[j - 1] /\ i - 1 <= j - 1
      BY <2>6, <1>1, <1>5
    <3> QED
      BY <3>1, <1>8, Zenon
  <2> QED
    BY <1>1, <2>1, <2>2, <2>3, <2>4, <2>5, <2>6
<1>12. CASE m = 1
  <2>1. r[1] = e /\ loc'.e = e /\ pc' = "arm"
    BY <1>4, <1>5, <1>6, <1>12, <1>e
  <2>2. Complete(r)' /\ Position(r, 1)'
    BY <1>2, <1>3, <1>4, <1>6, <1>7, <2>1 DEF Complete, Position, Unlinked, Arming, Members
  <2>3. Ordered(r, 1)' /\ Counting(r, 1)'
    BY <1>4, <1>6, <1>11, <2>1 DEF Ordered, Counting, Left, Arming
  <2>4. ASSUME NEW i \in 1 .. N + 1
        PROVE  due[r[i]] <= timer[r[i]] * Tick + (IF i = 1 THEN 0 ELSE Tick - 1)
    <3>1. CASE i = 1
      <4>1. timer[e] * Tick \in Int
        BY <1>7, TimerAssumption, SMT
      <4> QED
        BY <1>7, <2>1, <3>1, <4>1
    <3>2. CASE i > 1
      <4>1. i - 1 \in 1 .. N /\ r[i] = q[i - 1] /\ q # << >> /\ 1 \in 1 .. N
        BY <1>1, <1>5, <1>12, <3>2
      <4>2. PICK a \in Nat, b \in Nat, d \in Nat, c \in Nat :
              a = timer[q[i - 1]] /\ b = timer[q[1]] /\ d = due[q[i - 1]] /\ c = counter
        <5>1. q[i - 1] \in used
          BY <4>1, <1>2, <1>1 DEF Members
        <5> QED
          BY <1>1, <1>7, <1>9, <4>1, <5>1 DEF TypeOK
      <4>3. d <= (a - b) * Tick + c /\ c < (b + 1) * Tick
        BY <1>9, <4>1, <4>2
      <4>4. d <= a * Tick + (Tick - 1)
        <5>1. (a - b) * Tick = a * Tick - b * Tick /\ (b + 1) * Tick = b * Tick + Tick
              /\ a * Tick \in Int /\ b * Tick \in Int /\ Tick \in Int
          BY TimerAssumption, SMT
        <5> QED
          BY <4>3, <5>1
      <4> QED
        BY <3>2, <4>1, <4>2, <4>4
    <3> QED
      BY <3>1, <3>2
  <2>5. OnTime(r, 1)'
    BY <1>4, <1>6, <2>1, <2>4 DEF OnTime, Arming, Unlinked
  <2>6. InOrder(r, 1)'
    BY <1>2, <2>2, <2>3, <2>5 DEF InOrder
  <2> QED
    BY <1>3, <1>1, <2>6
<1>13. CASE m # 1
  <2>1. /\ r[1] = q[1] /\ q # << >> /\ 1 \in 1 .. N /\ pc' \in {"idle", "check"}
        /\ timer[q[1]] <= timer[e]
    BY <1>1, <1>4, <1>5, <1>6, <1>8, <1>13
  <2>2. Complete(r)' /\ Position(r, 1)'
    BY <1>3, <1>6, <1>7, <2>1 DEF Complete, Position, Unlinked, Arming, Members
  <2>3. Ordered(r, 1)' /\ Counting(r, 1)'
    BY <1>4, <1>6, <1>9, <1>11, <2>1 DEF Ordered, Counting, Left, Arming
  <2>4. ASSUME NEW i \in 1 .. N + 1
        PROVE  due[r[i]] <= (timer[r[i]] - timer[r[1]]) * Tick + counter
    <3>1. CASE i < m
      BY <3>1, <1>5, <1>9, <2>1
    <3>2. CASE i > m
      BY <3>2, <1>5, <1>9, <2>1
    <3>3. CASE i = m
      <4>1. PICK a \in Nat, b \in Nat : a = timer[e] /\ b = timer[q[1]]
        BY <1>1, <1>7, <2>1
      <4>2. due[e] \in Nat /\ counter \in Nat /\ b <= a /\ Tick \in Nat
            /\ (due[e] = 0 \/ due[e] + b * Tick <= a * Tick + counter)
        BY <1>7, <1>9, <2>1, <4>1, TimerAssumption
      <4>3. (a - b) * Tick = a * Tick - b * Tick /\ b * Tick <= a * Tick
            /\ b * Tick \in Int /\ a * Tick \in Int
        BY <4>2, MulDist, MulMono
      <4>4. due[e] <= (a - b) * Tick + counter
        BY <4>2, <4>3
      <4> QED
        BY <3>3, <4>1, <4>4, <1>5, <2>1
    <3> QED
      BY <1>5, <3>1, <3>2, <3>3
  <2>5. OnTime(r, 1)'
    BY <1>4, <1>6, <2>1, <2>4 DEF OnTime, Left, Arming, Unlinked
  <2>6. InOrder(r, 1)'
    BY <1>2, <2>2, <2>3, <2>5 DEF InOrder
  <2> QED
    BY <1>3, <1>1, <2>6
<1> QED
  BY <1>12, <1>13

\* The hardware is set to the time of the entry that is first now.
LEMMA WriteKeeps ==
  ASSUME TypeOK, TypeOK', InHand, Write, Calm', frames = << >>, frames' = << >>,
         NEW q \in Queues, NEW m \in 1 .. Len(q) + 1, InOrder(q, m)
  PROVE  InOrder(q, m)'
<1> DEFINE N == Len(q)
<1>1. /\ N \in Nat /\ DOMAIN q = 1 .. N
      /\ \A i \in 1 .. N : q[i] \in Entry /\ timer[q[i]] \in Nat /\ q[i] \in Members(q)
      /\ q = << >> <=> N = 0
  BY QueueType DEF TypeOK, U32, Members
<1>2. /\ UNCHANGED << list, pending, used >>
      /\ pc = "write" /\ pc' \in {"idle", "check"}
      /\ counter' = Count(loc.num) /\ ~Overflows(loc.num) /\ ~pending
      /\ due' = [d \in DOMAIN due |-> IF d = loc.e THEN due[d] ELSE Less(due[d], Tick - 1)]
  BY DEF Write, At, Return, Calm
<1>3. /\ q # << >> /\ 1 \in 1 .. N /\ q[1] = loc.e /\ loc.num = timer[loc.e] /\ timer[loc.e] # 0
      /\ Members(q) = used /\ DOMAIN due = used
  BY <1>1, <1>2 DEF InOrder, Position, Complete, Arming, Unlinked
<1>4. PICK t \in Nat : t = timer[q[1]] /\ t # 0
  BY <1>1, <1>3
<1>5. counter' = t * Tick /\ t * Tick \in Nat /\ t * Tick > 0 /\ t * Tick < (t + 1) * Tick
  <2>1. t * Tick \in Nat /\ t * Tick > 0 /\ (t + 1) * Tick = t * Tick + Tick /\ Tick \in Nat \ {0}
    BY <1>4, TimerAssumption, SMT
  <2>2. ~(t * Tick >= Wrap) /\ counter' = (t * Tick) % Wrap
    BY <1>2, <1>3, <1>4 DEF Count, Overflows
  <2>3. t * Tick \in U32
    BY <2>1, <2>2, TimerAssumption DEF U32
  <2> QED
    BY <2>1, <2>2, <2>3, Wraps
<1>6. \A i, j \in 1 .. N : i <= j => timer[q[i]] <= timer[q[j]]
  BY <1>1, <1>2 DEF InOrder, Ordered, Left
<1>7. ASSUME NEW i \in 1 .. N
      PROVE  due'[q[i]] <= (timer[q[i]] - t) * Tick + t * Tick
  <2>1. PICK a \in Nat, d \in Nat : a = timer[q[i]] /\ d = due[q[i]]
    BY <1>1, <1>3 DEF TypeOK
  <2>2. (a - t) * Tick + t * Tick = a * Tick /\ a * Tick \in Nat /\ Tick \in Nat \ {0}
    BY <2>1, TimerAssumption, SMTT(30)
  <2>3. d <= a * Tick + (IF i = 1 THEN 0 ELSE Tick - 1)
    BY <1>1, <1>2, <2>1 DEF InOrder, OnTime, Arming
  <2>4. due'[q[i]] = IF q[i] = q[1] THEN d ELSE Less(d, Tick - 1)
    BY <1>1, <1>2, <1>3, <2>1
  <2>5. q[i] = q[1] <=> i = 1
    BY <1>1, <1>3 DEF InOrder, Listed
  <2>6. due'[q[i]] <= a * Tick
    BY <2>2, <2>3, <2>4, <2>5 DEF Less
  <2> QED
    BY <2>1, <2>2, <2>6
<1>8. Listed(q)'
  BY <1>2, ListStays DEF InOrder
<1>9. Complete(q)' /\ Position(q, m)' /\ Ordered(q, m)'
  BY <1>1, <1>2, <1>3, <1>6 DEF Complete, Position, Ordered, Left, Members, Unlinked, Arming, list
<1>10. Counting(q, m)'
  BY <1>2, <1>3, <1>4, <1>5 DEF Counting, Left, Arming, list
<1>11. OnTime(q, m)'
  BY <1>1, <1>2, <1>3, <1>4, <1>5, <1>7 DEF OnTime, Left, Arming, Unlinked, list
<1> QED
  BY <1>8, <1>9, <1>10, <1>11 DEF InOrder

-----------------------------------------------------------------------------
(* The hardware and the handlers *)

\* A tick of the hardware is one for every timer.
LEMMA CountDownKeeps ==
  ASSUME TypeOK, TypeOK', Settled, OneSleep, CountDown,
         NEW q \in Queues, NEW m \in 1 .. Len(q) + 1, InOrder(q, m)
  PROVE  Settled' /\ OneSleep' /\ InOrder(q, m)'
<1>1. /\ DOMAIN q = 1 .. Len(q) /\ Len(q) \in Nat /\ q = << >> <=> Len(q) = 0
      /\ \A i \in 1 .. Len(q) : q[i] \in Entry /\ timer[q[i]] \in Nat /\ q[i] \in Members(q)
      /\ loc.num \in Nat
  BY QueueType DEF TypeOK, U32, Members
<1>2. /\ UNCHANGED << list, inService, enabled, wakes, used, flag, pc, loc, frames, halted, spoilt >>
      /\ counter > 0 /\ counter' = counter - 1 /\ pending' = (pending \/ counter = 1)
      /\ due' = [e \in DOMAIN due |-> Less(due[e], 1)]
  BY DEF CountDown
<1>3. counter \in Nat /\ pending \in BOOLEAN /\ ~pending /\ DOMAIN due = used
      /\ \A e \in used : due[e] \in Nat
  BY <1>2 DEF TypeOK, U32, Settled, InOrder, Complete
<1>4. \A e \in used : /\ due'[e] <= due[e] /\ due'[e] \in Nat
                      /\ due[e] = 0 => due'[e] = 0
                      /\ due'[e] = 0 \/ due'[e] = due[e] - 1
  BY <1>2, <1>3 DEF Less
<1>5. Settled'
  <2>1. pending' => counter' = 0
    BY <1>2, <1>3
  <2> QED
    BY <1>2, <2>1 DEF Settled, InWindow
<1>6. OneSleep'
  <2>1. DOMAIN due' = DOMAIN due /\ Wakers' = Wakers
    BY <1>2 DEF Wakers
  <2> QED
    BY <1>2, <2>1 DEF OneSleep
<1>7. Listed(q)'
  BY <1>2 DEF InOrder, Listed, First, Innermost, list
<1>8. Complete(q)' /\ Position(q, m)' /\ Ordered(q, m)'
  BY <1>1, <1>2 DEF InOrder, Complete, Position, Ordered, Left, Members, list
<1>9. \A i \in 1 .. Len(q) : Left(q, m, i)' = Left(q, m, i) /\ Left(q, m, i) \in Int
  BY <1>1, <1>2 DEF Left, list
<1>10. Counting(q, m)'
  <2>1. CASE pc \in Arming
    BY <1>2, <2>1 DEF InOrder, Counting, Arming
  <2>2. CASE pc \notin Arming
    <3>1. q # << >> /\ 1 \in 1 .. Len(q) /\ counter < (Left(q, m, 1) + 1) * Tick
      BY <1>1, <1>2, <1>3, <2>2 DEF InOrder, Counting
    <3>2. (Left(q, m, 1) + 1) * Tick \in Int
      BY <1>9, <3>1, TimerAssumption, SMT
    <3>3. ASSUME counter' = 0 PROVE pending'
      <4>1. counter = 1
        BY <1>2, <1>3, <3>3
      <4> QED
        BY <1>2, <4>1
    <3>4. counter' < (Left(q, m, 1) + 1) * Tick
      <4>1. PICK x \in Int : x = (Left(q, m, 1) + 1) * Tick
        BY <3>2
      <4> QED
        BY <1>2, <1>3, <3>1, <4>1
    <3>5. counter' < (Left(q, m, 1)' + 1) * Tick
      BY <1>9, <3>1, <3>4
    <3> QED
      BY <1>2, <2>2, <3>1, <3>3, <3>5 DEF Counting
  <2> QED
    BY <2>1, <2>2
<1>11. OnTime(q, m)'
  <2>1. \A i \in 1 .. Len(q) : q[i] \in used
    BY <1>1 DEF InOrder, Complete
  <2>2. CASE pc \in Arming
    <3>1. \A i \in 1 .. Len(q) : timer[q[i]] * Tick \in Int /\ Tick \in Nat
      BY <1>1, TimerAssumption, SMT
    <3>2. \A i \in 1 .. Len(q) : due[q[i]] <= timer[q[i]] * Tick + (IF i = 1 THEN 0 ELSE Tick - 1)
      BY <1>1, <2>2 DEF InOrder, OnTime
    <3>3. \A i \in 1 .. Len(q) : due'[q[i]] <= timer[q[i]] * Tick + (IF i = 1 THEN 0 ELSE Tick - 1)
      BY <1>3, <1>4, <2>1, <3>1, <3>2
    <3>4. pc' \in Arming /\ pc' \notin Unlinked /\ pc' \notin {"sub", "find", "scan", "link"}
          /\ timer' = timer
      BY <1>2, <2>2 DEF Arming, Unlinked, list
    <3> QED
      BY <1>1, <3>3, <3>4 DEF OnTime
  <2>3. CASE pc \notin Arming
    <3>1. ASSUME NEW i \in 1 .. Len(q)
          PROVE  due'[q[i]] <= (Left(q, m, i)' - Left(q, m, 1)') * Tick + counter'
      <4>1. PICK a \in Int, b \in Int : a = Left(q, m, i) /\ b = Left(q, m, 1)
        BY <1>1, <1>9
      <4>2. b <= a
        BY <1>1, <4>1 DEF InOrder, Ordered
      <4>3. due[q[i]] <= (a - b) * Tick + counter
        BY <1>1, <2>3, <4>1 DEF InOrder, OnTime
      <4>4. (a - b) * Tick \in Int /\ 0 <= (a - b) * Tick
        <5>1. a - b \in Int /\ 0 <= a - b
          BY <4>1, <4>2
        <5>2. 0 * Tick <= (a - b) * Tick /\ (a - b) * Tick \in Int
          BY <5>1, MulMono
        <5> QED
          BY <5>2, TimerAssumption
      <4>5. due'[q[i]] <= (a - b) * Tick + counter'
        BY <1>2, <1>3, <1>4, <2>1, <4>3, <4>4
      <4> QED
        BY <1>1, <1>9, <4>1, <4>5
    <3>2. ASSUME pc \in Unlinked
          PROVE  due'[loc.e] <= timer[loc.e] * Tick
      <4>1. loc.e \in used /\ timer[loc.e] \in Nat /\ due[loc.e] <= timer[loc.e] * Tick
        BY <3>2 DEF InOrder, Complete, OnTime, TypeOK, U32
      <4>2. timer[loc.e] * Tick \in Int
        BY <4>1, TimerAssumption, SMT
      <4> QED
        BY <1>3, <1>4, <4>1, <4>2
    <3>3. ASSUME pc \in {"sub", "find", "scan", "link"}, q # << >>
          PROVE  due'[loc.e] = 0 \/ due'[loc.e] + Left(q, m, 1)' * Tick <= timer[loc.e] * Tick + counter'
      <4>1. loc.e \in used /\ timer[loc.e] \in Nat /\ 1 \in 1 .. Len(q)
            /\ (due[loc.e] = 0 \/ due[loc.e] + Left(q, m, 1) * Tick <= timer[loc.e] * Tick + counter)
        BY <1>1, <3>3 DEF InOrder, Complete, OnTime, TypeOK, U32, Unlinked
      <4>2. timer[loc.e] * Tick \in Int /\ Left(q, m, 1) * Tick \in Int
        BY <1>9, <4>1, TimerAssumption, SMT
      <4>3. due'[loc.e] = 0 \/ due'[loc.e] = due[loc.e] - 1
        BY <1>4, <4>1
      <4> QED
        BY <1>2, <1>3, <1>4, <1>9, <4>1, <4>2, <4>3, SMTT(30)
    <3> QED
      BY <1>1, <1>2, <2>3, <3>1, <3>2, <3>3 DEF OnTime, list
  <2> QED
    BY <2>2, <2>3
<1> QED
  BY <1>5, <1>6, <1>7, <1>8, <1>10, <1>11 DEF InOrder

\* The tick of the PIT ends a hlt, and nothing else here.
LEMMA PitTickKeeps ==
  ASSUME TypeOK, Settled, OneSleep, PitTick,
         NEW q \in Queues, NEW m \in 1 .. Len(q) + 1, InOrder(q, m)
  PROVE  Settled' /\ OneSleep' /\ InOrder(q, m)'
<1>1. /\ UNCHANGED << list, counter, pending, enabled, wakes, used, flag, loc, frames, halted, due, spoilt >>
      /\ pc' = pc \/ (pc = "asleep" /\ pc' = "check")
  BY DEF PitTick, Wakes
<1>2. Settled' /\ OneSleep'
  BY <1>1 DEF Settled, InWindow, OneSleep, Wakers, Unlinked, Arming, Sleeping
<1>3. Listed(q)'
  BY <1>1 DEF InOrder, Listed, First, Innermost, list
<1>4. Complete(q)' /\ Position(q, m)' /\ Ordered(q, m)' /\ Counting(q, m)' /\ OnTime(q, m)'
  BY <1>1 DEF InOrder, Complete, Position, Ordered, Counting, OnTime, Left, Members, Unlinked,
              Arming, list
<1> QED
  BY <1>2, <1>3, <1>4 DEF InOrder

\* What comes first does not change when the handler stores it, nor when it returns.
LEMMA HandlerKeeps ==
  ASSUME TypeOK, Settled, OneSleep, HandlerStep,
         NEW q \in Queues, NEW m \in 1 .. Len(q) + 1, InOrder(q, m)
  PROVE  Settled' /\ OneSleep' /\ InOrder(q, m)'
<1> DEFINE F == [at : {"store", "eoi"}, rest : Link]
           n == Len(frames)
<1>1. /\ UNCHANGED << timer, next, counter, pending, wakes, used, flag, pc, loc, halted, due, spoilt >>
      /\ frames # << >>
  BY DEF HandlerStep, Store, EoiIret, hw, list
<1>2. frames \in Seq(F) /\ n \in Nat /\ n >= 1
  <2>1. frames \in Seq(F)
    BY DEF TypeOK
  <2> HIDE DEF F
  <2> QED
    BY <1>1, <2>1, EmptySeq
<1>3. \A i \in 1 .. n : frames[i] \in F
  <2> HIDE DEF F
  <2> QED
    BY <1>2, ElementOfSeq
<1>4. /\ First' = First
      /\ \A i \in 1 .. Len(frames') - 1 : frames'[i].at = "eoi"
      /\ frames' # << >> => ~InWindow /\ pc # "write"
      /\ pc = "write" => ~enabled'
  <2>1. CASE Store
    <3> DEFINE g == [frames EXCEPT ![n].at = "eoi"]
    <3>1. head' = frames[n].rest /\ frames' = g /\ frames[n].at = "store" /\ enabled' = enabled
      BY <2>1 DEF Store, Innermost, hw
    <3>2. /\ g \in Seq(F) /\ Len(g) = n
          /\ \A j \in 1 .. n : g[j] = IF j = n THEN [frames[n] EXCEPT !.at = "eoi"] ELSE frames[j]
      <4>1. [frames[n] EXCEPT !.at = "eoi"] \in F /\ n \in 1 .. n
        BY <1>2, <1>3
      <4> QED
        BY <1>2, <4>1, ExceptSeq
    <3>3. frames'[n].at = "eoi" /\ Len(frames') = n /\ frames' # << >>
      <4>1. g[n] = [frames[n] EXCEPT !.at = "eoi"] /\ frames[n] \in F
        BY <1>2, <1>3, <3>2
      <4>2. g[n].at = "eoi"
        BY <4>1
      <4>3. g # << >>
        BY <1>2, <3>2, EmptySeq
      <4> QED
        BY <3>1, <3>2, <4>2, <4>3
    <3>4. First' = First
      BY <1>1, <3>1, <3>3 DEF First, Innermost
    <3>5. \A i \in 1 .. n - 1 : frames'[i].at = "eoi"
      BY <1>2, <3>1, <3>2 DEF Settled
    <3> QED
      BY <1>1, <3>1, <3>3, <3>4, <3>5 DEF Settled
  <2>2. CASE EoiIret
    <3>1. head' = head /\ frames' = SubSeq(frames, 1, n - 1) /\ frames[n].at = "eoi"
      BY <2>2 DEF EoiIret, Innermost, list
    <3>2. /\ frames' \in Seq(F) /\ Len(frames') = n - 1
          /\ \A i \in 1 .. n - 1 : frames'[i] = frames[i]
      <4> HIDE DEF F
      <4> QED
        BY <1>1, <1>2, <3>1, Front
    <3>3. \A i \in 1 .. n - 1 : frames'[i].at = "eoi"
      BY <3>2 DEF Settled
    <3>4. First = head
      BY <3>1 DEF First, Innermost
    <3>5. First' = head
      <4>1. frames' # << >> => n - 1 \in 1 .. n - 1
        <5>1. frames' # << >> => Len(frames') \in Nat \ {0}
          <6> HIDE DEF F
          <6> QED
            BY <3>2, EmptySeq
        <5> QED
          BY <1>2, <3>2, <5>1
      <4> QED
        BY <3>1, <3>2, <3>3, <4>1 DEF First, Innermost
    <3> QED
      BY <1>1, <1>2, <3>2, <3>3, <3>4, <3>5 DEF Settled
  <2> QED
    BY <2>1, <2>2 DEF HandlerStep
<1>5. Settled' /\ OneSleep'
  BY <1>1, <1>4 DEF Settled, InWindow, OneSleep, Wakers, Unlinked, Arming, Sleeping
<1>6. Listed(q)'
  BY <1>1, <1>4 DEF InOrder, Listed
<1>7. Complete(q)' /\ Position(q, m)' /\ Ordered(q, m)' /\ Counting(q, m)' /\ OnTime(q, m)'
  BY <1>1 DEF InOrder, Complete, Position, Ordered, Counting, OnTime, Left, Members, Unlinked,
              Arming
<1> QED
  BY <1>5, <1>6, <1>7 DEF InOrder

\* The timers that fire are those at the front of the list that have no longer to wait
\* than the first; the others are left, with what they have still to wait.
LEMMA InterruptTakes ==
  ASSUME TypeOK, Settled, TimerInterrupt, Calm',
         NEW q \in Queues, NEW m \in 1 .. Len(q) + 1, InOrder(q, m)
  PROVE  /\ UNCHANGED << next, head, wakes, loc, halted >>
         /\ pc' = pc \/ (pc = "asleep" /\ pc' = "check")
         /\ pc \in {"idle", "test", "head", "find", "check", "hlt", "asleep"}
         /\ ~halted /\ ~Spoils /\ pending' = FALSE /\ counter = 0 /\ q # << >>
         /\ timer' = Expired /\ used' = Flip(used, Fired)
         /\ flag' = (flag \/ \E e \in Fired : wakes[e])
         /\ due' = [e \in DOMAIN due \ Fired |-> due[e]]
         /\ counter' = (IF Rest = NULL THEN counter ELSE Count(Expired[Rest]))
         /\ Rest # NULL => Expired[Rest] # 0 /\ ~Overflows(Expired[Rest])
         /\ frames' = Append(frames, [at |-> "store", rest |-> Rest])
         /\ Rest \in Link
         /\ \A i \in 1 .. Len(q) : /\ timer'[q[i]] = timer[q[i]] - timer[q[1]]
                                   /\ timer[q[1]] <= timer[q[i]]
         /\ \A e \in Entry \ Members(q) : timer'[e] = timer[e]
         /\ \E f \in 1 .. Len(q) : /\ Fired = {q[i] : i \in 1 .. f}
                                   /\ Rest = IF f < Len(q) THEN q[f + 1] ELSE NULL
                                   /\ \A i \in 1 .. f : timer[q[i]] = timer[q[1]]
<1>0. PICK N \in Nat : N = Len(q)
  BY QueueType
<1>1. /\ N <= Entries /\ DOMAIN q = 1 .. N /\ (q = << >> <=> N = 0)
      /\ \A i \in 1 .. N : q[i] \in Entry /\ q[i] # NULL /\ timer[q[i]] \in Nat
  BY <1>0, QueueType DEF TypeOK, U32, Entry, NULL
<1>2. /\ ~halted /\ enabled /\ pending /\ pending' = FALSE /\ ~Spoils
      /\ UNCHANGED << next, head, wakes, loc >>
      /\ pc' = pc \/ (pc = "asleep" /\ pc' = "check")
  BY DEF TimerInterrupt, Calm, Wakes
<1>3. pc \in {"idle", "test", "head", "find", "check", "hlt", "asleep"} /\ counter = 0
  BY <1>2 DEF TypeOK, Spoils, InWindow, Settled
<1>4. First = head
  <2>1. frames # << >> => Len(frames) \in Nat \ {0}
    BY EmptySeq DEF TypeOK
  <2>2. frames # << >> => Innermost.at # "store"
    BY <1>2, <2>1 DEF Spoils, Innermost
  <2> QED
    BY <2>2 DEF First
<1>5. q # << >> /\ 1 \in 1 .. N /\ head = q[1] /\ head # NULL
  <2>1. q # << >>
    BY <1>2, <1>3 DEF InOrder, Counting, Arming
  <2> QED
    BY <1>1, <1>4, <2>1 DEF InOrder, Listed
<1>6. /\ \A k \in 0 .. Entries : Chain(head)[k] = IF k < N THEN q[k + 1] ELSE NULL
      /\ ~Circular(head)
      /\ OnChain(head) = Members(q)
  BY <1>0, <1>4, QueueChain DEF InOrder, TypeOK
<1>7. PICK f \in 1 .. Entries : f = Firing
  BY <1>5, <1>6, FiringStops
<1>8. /\ \A j \in 1 .. f - 1 : Chain(head)[j] # NULL /\ Expired[Chain(head)[j]] = 0
      /\ Chain(head)[f] = NULL \/ Expired[Chain(head)[f]] # 0
      /\ Rest \in Link /\ Rest = Chain(head)[f]
  BY <1>5, <1>6, <1>7, FiringStops, Zenon
<1>9. f <= N /\ f \in 1 .. N /\ f \in Nat
  <2>1. f \in Nat /\ f >= 1 /\ f <= Entries
    BY <1>7, TimerAssumption
  <2>2. CASE f = 1
    BY <1>5, <2>1, <2>2
  <2>3. CASE f > 1
    <3>1. f - 1 \in 1 .. f - 1 /\ f - 1 \in 0 .. Entries
      BY <2>1, <2>3, TimerAssumption
    <3>2. Chain(head)[f - 1] # NULL
      BY <1>8, <3>1
    <3>3. f - 1 < N
      BY <1>6, <3>1, <3>2
    <3> QED
      BY <2>1, <3>3
  <2> QED
    BY <2>1, <2>2, <2>3
<1>10. Rest = (IF f < N THEN q[f + 1] ELSE NULL) /\ (Rest # NULL <=> f < N)
  <2>1. f \in 0 .. Entries
    BY <1>7, TimerAssumption
  <2>2. f < N => f + 1 \in 1 .. N
    BY <1>9
  <2> QED
    BY <1>1, <1>6, <1>8, <2>1, <2>2
<1>11. /\ timer' = Expired /\ used' = Flip(used, Fired)
       /\ flag' = (flag \/ \E e \in Fired : wakes[e])
       /\ due' = [e \in DOMAIN due \ Fired |-> due[e]]
       /\ counter' = (IF Rest = NULL THEN counter ELSE Count(Expired[Rest]))
       /\ Rest # NULL => ~Overflows(Expired[Rest])
       /\ frames' = Append(frames, [at |-> "store", rest |-> Rest])
       /\ halted' = halted
  BY <1>2, <1>5, <1>6 DEF TimerInterrupt, Calm
<1>12. Fired = {q[i] : i \in 1 .. f}
  <2>1. ASSUME NEW k \in 0 .. f - 1 PROVE Chain(head)[k] \in {q[i] : i \in 1 .. f}
    <3>1. k \in 0 .. Entries /\ k < N /\ k + 1 \in 1 .. f
      BY <1>1, <1>9, TimerAssumption
    <3>2. Chain(head)[k] = q[k + 1]
      BY <1>6, <3>1
    <3> QED
      BY <3>1, <3>2
  <2>2. ASSUME NEW i \in 1 .. f PROVE q[i] \in {Chain(head)[k] : k \in 0 .. f - 1}
    <3>1. i - 1 \in 0 .. f - 1 /\ i - 1 \in 0 .. Entries /\ i - 1 < N /\ (i - 1) + 1 = i
      BY <1>1, <1>9, TimerAssumption
    <3>2. Chain(head)[i - 1] = q[i]
      BY <1>6, <3>1
    <3> QED
      BY <3>1, <3>2
  <2>3. Fired = {Chain(head)[k] : k \in 0 .. f - 1}
    BY <1>7 DEF Fired
  <2> QED
    BY <2>1, <2>2, <2>3
<1>13. PICK t \in Nat : t = timer[q[1]]
  BY <1>1, <1>5
<1>14. /\ \A i \in 1 .. N : timer'[q[i]] = timer[q[i]] - t /\ t <= timer[q[i]]
       /\ \A e \in Entry \ Members(q) : timer'[e] = timer[e]
  <2>1. \A i, j \in 1 .. N : i <= j => timer[q[i]] <= timer[q[j]]
    BY <1>1, <1>3 DEF InOrder, Ordered, Left
  <2>2. \A i \in 1 .. N : t <= timer[q[i]] /\ q[i] \in Members(q)
    BY <1>1, <1>5, <1>13, <2>1 DEF Members
  <2>3. \A e \in Entry : timer'[e] = IF e \in Members(q) THEN Less(timer[e], t) ELSE timer[e]
    BY <1>5, <1>6, <1>11, <1>13 DEF Expired
  <2> QED
    BY <1>1, <2>2, <2>3 DEF Less
<1>15. \A i \in 1 .. f : timer[q[i]] = timer[q[1]]
  <2> SUFFICES ASSUME NEW i \in 1 .. f, i # 1
               PROVE  timer[q[i]] = timer[q[1]]
    OBVIOUS
  <2>1. i - 1 \in 1 .. f - 1 /\ i - 1 \in 0 .. Entries /\ i - 1 < N /\ (i - 1) + 1 = i /\ i \in 1 .. N
    BY <1>1, <1>9, TimerAssumption
  <2>2. Chain(head)[i - 1] = q[i]
    BY <1>6, <2>1
  <2>3. Expired[q[i]] = 0
    BY <1>8, <2>1, <2>2
  <2>4. timer[q[i]] - t = 0 /\ timer[q[i]] \in Nat
    BY <1>1, <1>11, <1>14, <2>1, <2>3
  <2> QED
    BY <1>13, <2>4
<1> QED
  <2>1. Rest # NULL => Expired[Rest] # 0
    BY <1>8
  <2>2. \E g \in 1 .. N : /\ Fired = {q[i] : i \in 1 .. g}
                          /\ Rest = IF g < N THEN q[g + 1] ELSE NULL
                          /\ \A i \in 1 .. g : timer[q[i]] = timer[q[1]]
    <3>1. Rest = IF f < N THEN q[f + 1] ELSE NULL
      BY <1>10
    <3> QED
      BY <1>9, <1>12, <1>15, <3>1, Zenon
  <2>3. \A i \in 1 .. N : timer'[q[i]] = timer[q[i]] - timer[q[1]] /\ timer[q[1]] <= timer[q[i]]
    BY <1>13, <1>14
  <2> QED
    BY <1>0, <1>2, <1>3, <1>5, <1>8, <1>11, <1>14, <2>1, <2>2, <2>3

\* The handler takes the first timer and those due with it from the front of the list,
\* and sets the hardware to the time of the one that is first then.
LEMMA InterruptKeeps ==
  ASSUME TypeOK, TypeOK', Settled, OneSleep, TimerInterrupt, Calm',
         NEW q \in Queues, NEW m \in 1 .. Len(q) + 1, InOrder(q, m)
  PROVE  Settled' /\ OneSleep' /\ halted' = halted /\ used' \subseteq used
         /\ UNCHANGED loc /\ pc' \in {pc, "check"}
         /\ \E r \in Queues : \E n \in 1 .. Len(r) + 1 : InOrder(r, n)'
<1>0. PICK N \in Nat : N = Len(q)
  BY QueueType
<1>1. /\ N <= Entries /\ DOMAIN q = 1 .. N /\ (q = << >> <=> N = 0)
      /\ \A i \in 1 .. N : q[i] \in Entry /\ q[i] # NULL /\ timer[q[i]] \in Nat
  BY <1>0, QueueType DEF TypeOK, U32, Entry, NULL
<1>2. /\ ~halted /\ pending' = FALSE /\ ~Spoils
      /\ UNCHANGED << next, head, wakes, loc >>
      /\ pc' = pc \/ (pc = "asleep" /\ pc' = "check")
  BY InterruptTakes
<1>3. pc \in {"idle", "test", "head", "find", "check", "hlt", "asleep"} /\ counter = 0
  BY InterruptTakes
<1>6. PICK f \in 1 .. Len(q) : /\ Fired = {q[i] : i \in 1 .. f}
                               /\ Rest = IF f < Len(q) THEN q[f + 1] ELSE NULL
                               /\ \A i \in 1 .. f : timer[q[i]] = timer[q[1]]
  BY InterruptTakes, Zenon
<1>7. f \in 1 .. N /\ Rest = (IF f < N THEN q[f + 1] ELSE NULL)
  BY <1>0, <1>6
<1>5. q # << >> /\ 1 \in 1 .. N
  BY <1>1, <1>7
<1>9. f <= N /\ f \in 1 .. N /\ f \in Nat
  BY <1>7
<1>10. Rest = (IF f < N THEN q[f + 1] ELSE NULL) /\ (Rest # NULL <=> f < N)
  <2>1. f < N => f + 1 \in 1 .. N
    BY <1>9
  <2> QED
    BY <1>1, <1>7, <2>1
<1>11. /\ timer' = Expired /\ used' = Flip(used, Fired)
       /\ flag' = (flag \/ \E e \in Fired : wakes[e])
       /\ due' = [e \in DOMAIN due \ Fired |-> due[e]]
       /\ counter' = (IF Rest = NULL THEN counter ELSE Count(Expired[Rest]))
       /\ Rest # NULL => Expired[Rest] # 0 /\ ~Overflows(Expired[Rest])
       /\ frames' = Append(frames, [at |-> "store", rest |-> Rest])
       /\ halted' = halted /\ Rest \in Link
  BY InterruptTakes
<1>12. Fired = {q[i] : i \in 1 .. f}
  BY <1>6
<1>13. PICK t \in Nat : t = timer[q[1]]
  BY <1>1, <1>5
<1>14. /\ \A i \in 1 .. N : timer'[q[i]] = timer[q[i]] - t /\ t <= timer[q[i]]
       /\ \A e \in Entry \ Members(q) : timer'[e] = timer[e]
  BY <1>0, <1>13, InterruptTakes
<1> DEFINE S == N - f
<1>15. S \in Nat /\ S <= Entries
  BY <1>1, <1>9, TimerAssumption
<1>16. PICK r : r = [i \in 1 .. S |-> q[i + f]]
  OBVIOUS
<1>17. \A i \in 1 .. S : i + f \in 1 .. N /\ i + f > f /\ r[i] = q[i + f]
  BY <1>9, <1>16
<1>18. r \in Queues /\ Len(r) = S /\ DOMAIN r = 1 .. S /\ (r = << >> <=> S = 0)
  <2>1. r \in [1 .. S -> Entry]
    BY <1>1, <1>16, <1>17
  <2>2. S \in 0 .. Entries
    BY <1>15, TimerAssumption
  <2>3. r \in Queues
    BY <2>1, <2>2 DEF Queues
  <2>4. DOMAIN r = 1 .. S
    BY <1>16
  <2>5. Len(r) = S
    BY <1>15, <2>1
  <2> QED
    BY <2>3, <2>4, <2>5, QueueType
<1>19. Members(q) = used \ (IF pc \in Unlinked THEN {loc.e} ELSE {}) /\ DOMAIN due = used
  BY DEF InOrder, Complete
<1>20. /\ Fired \subseteq Members(q) /\ used' = used \ Fired /\ DOMAIN due' = used'
       /\ \A e \in used' : due'[e] = due[e]
  <2>1. Fired \subseteq Members(q)
    BY <1>1, <1>9, <1>12 DEF Members
  <2> QED
    BY <1>11, <1>19, <2>1 DEF Flip
<1>21. Members(r) = Members(q) \ Fired
  <2>1. ASSUME NEW i \in 1 .. N, q[i] \notin Fired PROVE q[i] \in Members(r)
    <3>1. ~(i <= f)
      BY <1>12, <2>1
    <3>2. i - f \in 1 .. S /\ (i - f) + f = i
      BY <1>9, <3>1
    <3>3. r[i - f] = q[i]
      BY <1>17, <3>2
    <3> QED
      BY <1>18, <3>2, <3>3 DEF Members
  <2>2. ASSUME NEW i \in 1 .. S PROVE r[i] \in Members(q) /\ r[i] \notin Fired
    <3>1. i + f \in 1 .. N /\ r[i] = q[i + f] /\ \A j \in 1 .. f : j # i + f /\ j \in 1 .. N
      BY <1>9, <1>17
    <3>2. \A j \in 1 .. f : q[j] # q[i + f]
      BY <1>1, <3>1 DEF InOrder, Listed
    <3> QED
      BY <1>1, <1>12, <3>1, <3>2 DEF Members
  <2> QED
    BY <1>1, <1>18, <2>1, <2>2 DEF Members
<1>22. /\ f < N <=> S # 0
       /\ S # 0 => /\ 1 \in 1 .. S /\ r[1] = q[f + 1] /\ Rest = r[1] /\ f + 1 \in 1 .. N
       /\ S = 0 => Rest = NULL
  <2>1. f < N <=> S # 0
    BY <1>9
  <2>2. S # 0 => 1 \in 1 .. S /\ f + 1 \in 1 .. N /\ 1 + f = f + 1
    BY <1>9, <1>15
  <2> QED
    BY <1>10, <1>17, <2>1, <2>2
<1> HIDE DEF S
<1>23. \A i \in 1 .. S : timer'[r[i]] = timer[q[i + f]] - t /\ timer'[r[i]] \in Nat
  <2> SUFFICES ASSUME NEW i \in 1 .. S
               PROVE  timer'[r[i]] = timer[q[i + f]] - t /\ timer'[r[i]] \in Nat
    OBVIOUS
  <2>1. i + f \in 1 .. N /\ r[i] = q[i + f]
    BY <1>17
  <2>2. PICK j \in 1 .. N : j = i + f
    BY <2>1
  <2>3. timer'[q[j]] = timer[q[j]] - t /\ t <= timer[q[j]] /\ timer[q[j]] \in Nat
    BY <1>1, <1>14
  <2>4. timer'[q[j]] = timer[q[i + f]] - t /\ timer'[q[j]] \in Nat
    BY <1>13, <2>2, <2>3
  <2> QED
    BY <2>1, <2>2, <2>4
<1>24. /\ S = 0 => counter' = 0
       /\ S # 0 => /\ timer'[r[1]] \in Nat \ {0} /\ timer'[r[1]] * Tick \in Nat
                   /\ counter' = timer'[r[1]] * Tick
                   /\ counter' > 0 /\ counter' < (timer'[r[1]] + 1) * Tick
  <2>1. S = 0 => counter' = 0
    BY <1>3, <1>11, <1>22
  <2>2. ASSUME S # 0
        PROVE  /\ timer'[r[1]] \in Nat \ {0} /\ timer'[r[1]] * Tick \in Nat
               /\ counter' = timer'[r[1]] * Tick
               /\ counter' > 0 /\ counter' < (timer'[r[1]] + 1) * Tick
    <3>1. PICK x : x = timer'[r[1]]
      OBVIOUS
    <3>2. x = Expired[Rest] /\ Rest # NULL /\ x # 0 /\ x \in Nat
      BY <1>10, <1>11, <1>22, <1>23, <2>2, <3>1
    <3>3. ~(x * Tick >= Wrap) /\ counter' = (x * Tick) % Wrap
      BY <1>11, <3>2 DEF Overflows, Count
    <3>4. x * Tick \in Nat /\ x * Tick > 0 /\ (x + 1) * Tick = x * Tick + Tick /\ Tick \in Nat \ {0}
      BY <3>2, TimerAssumption, SMT
    <3>5. x * Tick \in U32
      BY <3>3, <3>4, TimerAssumption DEF U32
    <3>6. counter' = x * Tick
      BY <3>3, <3>4, <3>5, Wraps
    <3> QED
      BY <3>1, <3>2, <3>4, <3>6
  <2> QED
    BY <2>1, <2>2
<1>25. Settled' /\ First' = Rest
  <2> DEFINE F == [at : {"store", "eoi"}, rest : Link]
             g == [at |-> "store", rest |-> Rest]
  <2>1. frames \in Seq(F) /\ g \in F /\ Len(frames) \in Nat /\ g.at = "store" /\ g.rest = Rest
    BY <1>11 DEF TypeOK
  <2> HIDE DEF F, g
  <2>2. /\ frames' \in Seq(F) /\ Len(frames') = Len(frames) + 1
        /\ \A i \in 1 .. Len(frames) : frames'[i] = frames[i]
        /\ frames'[Len(frames) + 1] = g
    BY <1>11, <2>1, AppendProperties DEF g
  <2>3. \A i \in 1 .. Len(frames) : frames[i] \in F /\ frames[i].at # "store"
    BY <1>2, <2>1, ElementOfSeq DEF Spoils
  <2>4. \A i \in 1 .. Len(frames) : frames'[i].at = "eoi"
    BY <2>2, <2>3 DEF F
  <2>5. frames' # << >>
    BY <2>1, <2>2, EmptySeq
  <2>6. First' = Rest
    BY <2>1, <2>2, <2>5 DEF First, Innermost
  <2>7. Settled'
    <3>1. \A i \in 1 .. Len(frames') - 1 : frames'[i].at = "eoi"
      BY <2>1, <2>2, <2>4
    <3> QED
      BY <1>2, <1>3, <3>1 DEF Settled, InWindow
  <2> QED
    BY <2>6, <2>7
<1>26. OneSleep'
  <2>1. Wakers' = Wakers \ Fired
    BY <1>2, <1>19, <1>20 DEF Wakers
  <2>2. flag' => flag \/ \E e \in Fired : e \in Wakers
    BY <1>11, <1>19, <1>20 DEF Wakers, TypeOK
  <2>3. pc \in Unlinked => loc.e \notin Fired
    BY <1>19, <1>20
  <2>4. CASE pc \in {"head", "find"}
    <3>1. pc \in Unlinked /\ pc' = pc
      BY <1>2, <2>4 DEF Unlinked
    <3>2. ~flag' /\ \A e \in Wakers' : e = loc.e /\ loc.wake
      BY <2>1, <2>2, <2>3, <3>1 DEF OneSleep
    <3> QED
      BY <1>2, <2>4, <3>1, <3>2 DEF OneSleep, Unlinked, Sleeping
  <2>5. CASE pc \in {"idle", "test"}
    <3>1. ~flag' /\ Wakers' = {} /\ pc' = pc
      BY <1>2, <2>1, <2>2, <2>5 DEF OneSleep
    <3> QED
      BY <2>5, <3>1 DEF OneSleep, Unlinked, Arming, Sleeping
  <2>6. CASE pc \in {"check", "hlt", "asleep"}
    <3>1. pc' \in {"check", "hlt", "asleep"}
      BY <1>2, <2>6
    <3>2. (flag => Wakers = {}) /\ \A d, e \in Wakers : d = e
      BY <2>6 DEF OneSleep, Sleeping
    <3>3. (flag' => Wakers' = {}) /\ \A d, e \in Wakers' : d = e
      BY <2>1, <2>2, <3>2
    <3> QED
      BY <3>1, <3>3 DEF OneSleep, Unlinked, Arming, Sleeping
  <2> QED
    BY <1>3, <2>4, <2>5, <2>6
<1>27. Listed(r)'
  <2>1. ASSUME NEW i \in 1 .. S, NEW j \in 1 .. S, r[i] = r[j] PROVE i = j
    <3>1. i + f \in 1 .. N /\ j + f \in 1 .. N /\ q[i + f] = q[j + f]
      BY <1>17, <2>1
    <3>2. i + f = j + f
      BY <1>1, <3>1 DEF InOrder, Listed
    <3> QED
      BY <1>9, <3>2
  <2>2. ASSUME NEW i \in 1 .. S
        PROVE  next[r[i]] = IF i = S THEN NULL ELSE r[i + 1]
    <3>1. i + f \in 1 .. N /\ r[i] = q[i + f]
      BY <1>17
    <3>2. next[q[i + f]] = IF i + f = N THEN NULL ELSE q[i + f + 1]
      BY <1>0, <1>1, <3>1 DEF InOrder, Listed
    <3>3. (i + f = N <=> i = S) /\ (i # S => i + 1 \in 1 .. S /\ (i + 1) + f = i + f + 1)
      BY <1>9 DEF S
    <3>4. i # S => r[i + 1] = q[i + f + 1]
      BY <1>17, <3>3
    <3> QED
      BY <3>1, <3>2, <3>3, <3>4
  <2>3. First' = IF r = << >> THEN NULL ELSE r[1]
    BY <1>18, <1>22, <1>25
  <2> QED
    BY <1>2, <1>18, <2>1, <2>2, <2>3 DEF Listed
<1>28. pc' \notin Arming /\ pc' \notin {"mark", "timer", "count", "sub", "scan", "link", "cli", "write"}
       /\ (pc' \in Unlinked <=> pc \in Unlinked)
  BY <1>2, <1>3 DEF Arming, Unlinked
<1>29. pc \in Unlinked => /\ loc.e \in used /\ loc.e \in used' /\ loc.e \notin Members(q)
                          /\ timer'[loc.e] = timer[loc.e] /\ timer[loc.e] \in Nat \ {0}
                          /\ due[loc.e] <= timer[loc.e] * Tick /\ due[loc.e] \in Nat
                          /\ due'[loc.e] = due[loc.e]
  <2>1. pc \in Unlinked => /\ loc.e \in used /\ timer[loc.e] \in Nat \ {0} /\ loc.e \in Entry
                           /\ due[loc.e] <= timer[loc.e] * Tick /\ due[loc.e] \in Nat
    BY DEF InOrder, Complete, OnTime, TypeOK, U32
  <2> QED
    BY <1>14, <1>19, <1>20, <2>1
<1>30. Complete(r)' /\ Position(r, 1)'
  <2>1. Members(r) = IF pc' \in Unlinked THEN used' \ {loc.e} ELSE used'
    BY <1>19, <1>20, <1>21, <1>28
  <2> QED
    BY <1>2, <1>20, <1>28, <1>29, <2>1 DEF Complete, Position, Members
<1>31. Ordered(r, 1)'
  <2>1. \A i, j \in 1 .. N : i <= j => timer[q[i]] <= timer[q[j]]
    BY <1>1, <1>3 DEF InOrder, Ordered, Left
  <2>2. \A i, j \in 1 .. S : i <= j => timer'[r[i]] <= timer'[r[j]]
    <3> SUFFICES ASSUME NEW i \in 1 .. S, NEW j \in 1 .. S, i <= j
                 PROVE  timer'[r[i]] <= timer'[r[j]]
      OBVIOUS
    <3>1. i + f \in 1 .. N /\ j + f \in 1 .. N /\ i + f <= j + f
      BY <1>9, <1>17
    <3>2. timer[q[i + f]] <= timer[q[j + f]]
      BY <2>1, <3>1, Zenon
    <3>3. PICK a \in Nat, b \in Nat : a = timer[q[i + f]] /\ b = timer[q[j + f]]
      BY <1>1, <3>1
    <3>4. timer'[r[i]] = a - t /\ timer'[r[j]] = b - t /\ a <= b
      BY <1>23, <3>2, <3>3
    <3> QED
      BY <3>4
  <2> QED
    BY <1>18, <1>28, <2>2 DEF Ordered, Left
<1>32. Counting(r, 1)'
  <2>1. r = << >> <=> (counter' = 0 /\ ~pending')
    BY <1>2, <1>18, <1>24
  <2>2. r # << >> => counter' < (timer'[r[1]] + 1) * Tick
    BY <1>18, <1>24
  <2> QED
    BY <1>28, <2>1, <2>2 DEF Counting, Left
<1>33. OnTime(r, 1)'
  <2>1. ASSUME NEW i \in 1 .. S
        PROVE  due'[r[i]] <= (timer'[r[i]] - timer'[r[1]]) * Tick + counter'
    <3>0. i + f \in 1 .. N /\ r[i] = q[i + f]
      BY <1>17
    <3>1. i + f \in 1 .. N /\ r[i] = q[i + f] /\ r[i] \in Members(r) /\ S # 0
      <4>1. r[i] \in Members(r)
        BY <1>18, Zenon DEF Members
      <4>2. S # 0
        BY <1>15
      <4> QED
        BY <3>0, <4>1, <4>2
    <3>2. due[q[i + f]] <= (timer[q[i + f]] - t) * Tick + 0 /\ due'[r[i]] = due[q[i + f]]
      <4>1. r[i] \in used'
        BY <1>19, <1>20, <1>21, <3>1
      <4>2. due[q[i + f]] <= (timer[q[i + f]] - t) * Tick + 0
        BY <1>1, <1>3, <1>13, <3>1 DEF InOrder, OnTime, Left, Arming
      <4> QED
        BY <1>20, <3>1, <4>1, <4>2
    <3>3. PICK a \in Nat, b \in Nat, d \in Nat :
            a = timer'[r[i]] /\ b = timer'[r[1]] /\ d = due'[r[i]]
      <4>1. r[i] \in used'
        BY <1>19, <1>20, <1>21, <3>1
      <4>2. due'[r[i]] \in Nat
        BY <1>20, <4>1 DEF TypeOK
      <4> QED
        BY <1>23, <1>24, <3>1, <4>2
    <3>4. d <= a * Tick + 0 /\ counter' = b * Tick
      BY <1>23, <1>24, <3>1, <3>2, <3>3
    <3>5. (a - b) * Tick = a * Tick - b * Tick /\ a * Tick \in Int /\ b * Tick \in Int
      BY TimerAssumption, SMT
    <3>6. d <= (a - b) * Tick + b * Tick
      BY <3>4, <3>5
    <3> QED
      BY <3>3, <3>4, <3>6
  <2>2. ASSUME pc = "find", S # 0
        PROVE  due'[loc.e] + timer'[r[1]] * Tick <= timer'[loc.e] * Tick + counter'
    <3>1. pc \in Unlinked
      BY <2>2 DEF Unlinked
    <3>2. timer[loc.e] * Tick \in Int
      BY <1>29, <3>1, TimerAssumption, SMT
    <3>3. due'[loc.e] = due[loc.e] /\ timer'[loc.e] = timer[loc.e] /\ due[loc.e] \in Nat
          /\ due[loc.e] <= timer[loc.e] * Tick
      BY <1>29, <3>1
    <3>4. counter' = timer'[r[1]] * Tick /\ counter' \in Nat
      BY <1>24, <2>2
    <3> QED
      BY <3>2, <3>3, <3>4
  <2> QED
    BY <1>2, <1>18, <1>28, <1>29, <2>1, <2>2 DEF OnTime, Left
<1> QED
  <2>1. InOrder(r, 1)'
    BY <1>27, <1>30, <1>31, <1>32, <1>33 DEF InOrder
  <2>2. 1 \in 1 .. Len(r) + 1
    BY <1>15, <1>18
  <2> QED
    BY <1>2, <1>11, <1>18, <1>20, <1>25, <1>26, <2>1, <2>2

-----------------------------------------------------------------------------
(* The invariant *)

\* The queue is empty and the hardware at rest.
LEMMA TimerInit == Init => IInv
<1> SUFFICES ASSUME Init PROVE IInv
  OBVIOUS
<1> DEFINE q == << >>
<1>1. TypeOK /\ InHand
  BY TypeInit
<1>2. /\ next = [e \in Entry |-> NULL] /\ used = {} /\ head = NULL /\ flag = FALSE
      /\ counter = 0 /\ pending = FALSE /\ enabled = TRUE
      /\ pc = "idle" /\ frames = << >> /\ halted = FALSE /\ DOMAIN due = {}
  BY DEF Init
<1>3. Settled /\ OneSleep /\ Scanning
  BY <1>2, EmptySeq DEF Settled, InWindow, OneSleep, Wakers, Unlinked, Arming, Sleeping, Scanning
<1>4. q \in Queues /\ Len(q) = 0 /\ DOMAIN q = {}
  <2>1. q \in [1 .. 0 -> Entry] /\ 0 \in 0 .. Entries
    BY TimerAssumption
  <2> QED
    BY <2>1 DEF Queues
<1>5. 1 \in 1 .. Len(q) + 1
  BY <1>4
<1>6. Members(q) = {}
  BY <1>4 DEF Members
<1>7. First = NULL
  BY <1>2 DEF First
<1> HIDE DEF q
<1>8. InOrder(q, 1)
  <2>1. q = << >>
    BY DEF q
  <2> QED
    BY <1>2, <1>4, <1>6, <1>7, <2>1
    DEF InOrder, Listed, Complete, Position, Ordered, Counting, OnTime, Unlinked, Arming
<1> QED
  BY <1>1, <1>2, <1>3, <1>4, <1>5, <1>8 DEF IInv, Consistent

\* What has once been spoilt stays so.
LEMMA CalmBefore == [Next]_vars /\ Calm' => Calm
<1> SUFFICES ASSUME [Next]_vars, Calm' PROVE Calm
  OBVIOUS
<1> USE DEF Calm
<1>1. CASE Ask
  BY <1>1 DEF Ask, NewTimerNow, Allocate
<1>2. CASE KernelStep
  BY <1>2 DEF KernelStep, Occupied, Clear, Exhausted, Mark, ReadHead, ReadTimer, ReadCount, Sub,
              SubDone, Find, Scan, ScanDone, LinkFirst, LinkAfter, Arm, Cli, Write, Woken,
              NotWoken, Hlt
<1>3. CASE CountDown \/ PitTick \/ TimerInterrupt \/ HandlerStep \/ UNCHANGED vars
  BY <1>3 DEF CountDown, PitTick, TimerInterrupt, HandlerStep, Store, EoiIret, vars
<1> QED
  BY <1>1, <1>2, <1>3 DEF Next

\* The entries that the search has passed were in use when it began; when it has passed
\* them all, and only then, the kernel stops.
LEMMA KernelScans ==
  ASSUME TypeOK, InHand, Scanning, ~halted, KernelActs
  PROVE  Scanning' /\ (halted' => pc' = "test" /\ loc'.before = Entry)
<1>1. CASE Looks
  <2>1. loc.it \in Link /\ loc.before \subseteq Entry /\ used \subseteq Entry /\ Entries \in Nat \ {0}
    BY TimerAssumption DEF TypeOK
  <2>2. /\ used' = used
        /\ \/ pc' = "test" /\ halted' = halted /\ loc'.it = 1 /\ loc'.before = used
           \/ /\ pc = "test" /\ pc' = "test" /\ halted' = halted
              /\ loc.it \in used /\ loc'.it = loc.it + 1 /\ loc'.before = loc.before
           \/ /\ pc = "test" /\ pc' = pc /\ loc' = loc /\ loc.it \in used /\ loc.it = Entries
           \/ pc' = "mark" /\ halted' = halted
    BY <1>1, Looking
  <2>3. CASE pc' = "test" /\ halted' = halted /\ loc'.it = 1 /\ loc'.before = used
    BY <2>2, <2>3 DEF Scanning
  <2>4. CASE /\ pc = "test" /\ pc' = "test" /\ halted' = halted
             /\ loc.it \in used /\ loc'.it = loc.it + 1 /\ loc'.before = loc.before
    BY <2>1, <2>2, <2>4 DEF Scanning, Entry
  <2>5. CASE pc = "test" /\ pc' = pc /\ loc' = loc /\ loc.it \in used /\ loc.it = Entries
    <3>1. \A e \in Entry : e \in used \cup (1 .. loc.it - 1)
      BY <2>1, <2>5 DEF Entry
    <3> QED
      BY <2>1, <2>2, <2>5, <3>1 DEF Scanning
  <2>6. CASE pc' = "mark" /\ halted' = halted
    BY <2>6 DEF Scanning
  <2> QED
    BY <2>2, <2>3, <2>4, <2>5, <2>6
<1>2. CASE \E wake \in BOOLEAN : NewTimerNow(wake)
  BY <1>2 DEF NewTimerNow, Scanning
<1>3. CASE KernelStep /\ ~Looks
  BY <1>3 DEF KernelStep, Looks, Mark, ReadHead, ReadTimer, ReadCount, Sub, SubDone, Find, Scan,
              ScanDone, LinkFirst, LinkAfter, Arm, Cli, Write, Woken, NotWoken, Hlt, Scanning,
              Step, At, Goto, Return
<1> QED
  BY <1>1, <1>2, <1>3 DEF KernelActs, Ask, Looks

\* A handler only frees entries, which the search does not mind.
LEMMA ScanGoesOn ==
  ASSUME Scanning, UNCHANGED loc, pc' \in {pc, "check"}, used' \subseteq used
  PROVE  Scanning'
  BY DEF Scanning

\* A step of the kernel keeps the list, the hardware and the locals together.
LEMMA KernelKeeps ==
  ASSUME TypeOK, TypeOK', InHand, Consistent, Calm', KernelActs
  PROVE  Consistent'
<1>q. PICK q \in Queues : \E m \in 1 .. Len(q) + 1 : InOrder(q, m)
  BY DEF Consistent
<1>m. PICK m \in 1 .. Len(q) + 1 : InOrder(q, m)
  BY <1>q
<1>1. Settled' /\ frames = << >> /\ frames' = << >> /\ ~halted
  BY KernelSettles DEF Consistent
<1>2. OneSleep'
  BY <1>m, KernelSleeps DEF Consistent, InOrder, Complete
<1>3. Scanning' /\ (halted' => pc' = "test" /\ loc'.before = Entry)
  BY <1>1, KernelScans DEF Consistent
<1>4. \E r \in Queues : \E n \in 1 .. Len(r) + 1 : InOrder(r, n)'
  <2>1. CASE Reads
    BY <1>1, <1>m, <2>1, ReadsKeep
  <2>2. CASE Mark
    BY <1>1, <1>m, <2>2, MarkKeeps
  <2>3. CASE Sub
    BY <1>1, <1>m, <2>3, SubKeeps
  <2>4. CASE LinkFirst \/ LinkAfter
    BY <1>1, <1>m, <2>4, LinkKeeps
  <2>5. CASE Write
    BY <1>1, <1>m, <2>5, WriteKeeps
  <2> QED
    BY <2>1, <2>2, <2>3, <2>4, <2>5 DEF KernelActs, KernelStep, Ask, Reads, Looks
<1> QED
  BY <1>1, <1>2, <1>3, <1>4 DEF Consistent

\* So does one of the hardware, or of a handler.
LEMMA OthersKeep ==
  ASSUME TypeOK, TypeOK', Consistent, Calm', CountDown \/ PitTick \/ TimerInterrupt \/ HandlerStep
  PROVE  Consistent'
<1>q. PICK q \in Queues : \E m \in 1 .. Len(q) + 1 : InOrder(q, m)
  BY DEF Consistent
<1>m. PICK m \in 1 .. Len(q) + 1 : InOrder(q, m)
  BY <1>q
<1>0. Settled /\ OneSleep /\ Scanning
  BY DEF Consistent
<1>1. CASE CountDown
  <2>1. Settled' /\ OneSleep' /\ InOrder(q, m)'
    BY <1>0, <1>1, <1>m, CountDownKeeps
  <2>2. ~halted' /\ Scanning'
    BY <1>0, <1>1, ScanGoesOn DEF CountDown
  <2> QED
    BY <2>1, <2>2 DEF Consistent
<1>2. CASE PitTick
  <2>1. Settled' /\ OneSleep' /\ InOrder(q, m)'
    BY <1>0, <1>2, <1>m, PitTickKeeps
  <2>2. ~halted' /\ Scanning'
    BY <1>0, <1>2, ScanGoesOn DEF PitTick, Wakes
  <2> QED
    BY <2>1, <2>2 DEF Consistent
<1>3. CASE TimerInterrupt
  <2>1. Settled' /\ OneSleep' /\ halted' = halted /\ used' \subseteq used
        /\ UNCHANGED loc /\ pc' \in {pc, "check"}
        /\ \E r \in Queues : \E n \in 1 .. Len(r) + 1 : InOrder(r, n)'
    BY <1>0, <1>3, <1>m, InterruptKeeps
  <2>2. ~halted' /\ Scanning'
    BY <1>0, <1>3, <2>1, ScanGoesOn DEF TimerInterrupt
  <2> QED
    BY <2>1, <2>2 DEF Consistent
<1>4. CASE HandlerStep
  <2>1. Settled' /\ OneSleep' /\ InOrder(q, m)'
    BY <1>0, <1>4, <1>m, HandlerKeeps
  <2>2. ~halted' /\ Scanning'
    BY <1>0, <1>4, ScanGoesOn DEF HandlerStep, Store, EoiIret
  <2> QED
    BY <2>1, <2>2 DEF Consistent
<1> QED
  BY <1>1, <1>2, <1>3, <1>4

\* Every step keeps the invariant.
LEMMA TimerNext == IInv /\ [Next]_vars => IInv'
<1> SUFFICES ASSUME IInv, [Next]_vars PROVE IInv'
  OBVIOUS
<1>0. TypeOK /\ InHand /\ (Calm' => Calm) /\ (Calm => Consistent)
  BY CalmBefore DEF IInv
<1>1. CASE KernelActs
  BY <1>0, <1>1, TypeKernel, KernelKeeps DEF IInv, KernelActs
<1>2. CASE CountDown \/ PitTick \/ TimerInterrupt \/ HandlerStep
  BY <1>0, <1>2, TypeOthers, OthersKeep DEF IInv
<1>3. CASE UNCHANGED vars
  <2>1. TypeOK' /\ InHand' /\ Calm' = Calm
    BY <1>0, <1>3 DEF TypeOK, InHand, Calm, vars, Unlinked, Arming
  <2>2. ASSUME NEW q, NEW m, InOrder(q, m) PROVE InOrder(q, m)'
    BY <1>3, <2>2 DEF InOrder, Listed, Complete, Position, Ordered, Left, Counting, OnTime, Members,
                      First, Innermost, vars
  <2>3. Consistent => Consistent'
    <3>1. (Settled => Settled') /\ (OneSleep => OneSleep') /\ (Scanning => Scanning')
      BY <1>3 DEF Settled, InWindow, OneSleep, Wakers, Scanning, vars
    <3> QED
      BY <1>3, <2>2, <3>1 DEF Consistent, vars
  <2> QED
    BY <1>0, <2>1, <2>3 DEF IInv
<1> QED
  BY <1>1, <1>2, <1>3 DEF Next, KernelActs

\* new_timer, sleep and timer_handler keep the queue, the bits, the hardware and the
\* locals of the kernel consistent, at every step and whatever the interleaving, until
\* an interrupt meets a list half changed or a product overflows 32 bits.
THEOREM TimerInvariance == Spec => []IInv
  BY TimerInit, TimerNext, PTL DEF Spec

\* The list ends and is sorted by time, while it is brought up to date as well
\* (timer.c:59-79, 179-200).
THEOREM TimersInOrder == Spec => []QueueSorted
  BY TimerInvariance, InvImplies, PTL

\* The local APIC counts, or its interrupt is on the way, just while a timer waits,
\* and it is never set for later than the first timer and a microsecond.
THEOREM HardwareArmed == Spec => []Armed
  BY TimerInvariance, InvImplies, PTL

\* A timer asked for is in the queue until it fires, and its bit is clear afterwards.
THEOREM NoTimerLost == Spec => []NoneLost
  BY TimerInvariance, InvImplies, PTL

\* The handler finds an entry whenever it runs: only a request that was made while every
\* entry was in use stops the kernel, and such a one may although an entry is freed while
\* it searches (timer.c:109-122, 258-260).
THEOREM HaltsOnlyWhenFull == Spec => []HaltOnlyWhenFull
  BY TimerInvariance, InvImplies, PTL

\* sleep returns only once the timer it set has fired: wakeup_flag is never left over
\* from a sleep before (timer.c:274-284).
THEOREM SleepIsLongEnough == Spec => SleepsLongEnough
<1>1. IInv /\ [Next]_vars =>
        [Calm /\ pc = "check" /\ pc' = "idle" => \A e \in DOMAIN due : ~wakes[e]]_vars
  <2> SUFFICES ASSUME IInv, Next, Calm, pc = "check", pc' = "idle"
               PROVE  Wakers = {}
    BY DEF Wakers
  <2>1. flag
    BY DEF Next, Ask, KernelStep, NewTimerNow, Allocate, Occupied, Clear, Exhausted, Mark,
           ReadHead, ReadTimer, ReadCount, Sub, SubDone, Find, Scan, ScanDone, LinkFirst, LinkAfter, Arm, Cli, Write, Woken, NotWoken,
           Hlt, CountDown, PitTick, TimerInterrupt, HandlerStep, Store, EoiIret, Wakes, Step, At, Goto
  <2> QED
    BY <2>1 DEF IInv, Consistent, OneSleep, Sleeping
<1> QED
  BY <1>1, TimerInvariance, PTL DEF Spec, SleepsLongEnough

-----------------------------------------------------------------------------
(* The promise of TimerService *)

\* A timer whose callback runs has waited for as long as it was asked to.
LEMMA FiredAreDue ==
  ASSUME TypeOK, Consistent, TimerInterrupt, Calm'
  PROVE  Promise!Fire(Fired)
<1>q. PICK q \in Queues : \E m \in 1 .. Len(q) + 1 : InOrder(q, m)
  BY DEF Consistent
<1>m. PICK m \in 1 .. Len(q) + 1 : InOrder(q, m)
  BY <1>q
<1>0. Settled
  BY DEF Consistent
<1>1. PICK f \in 1 .. Len(q) : /\ Fired = {q[i] : i \in 1 .. f}
                               /\ \A i \in 1 .. f : timer[q[i]] = timer[q[1]]
  BY <1>0, <1>m, InterruptTakes, Zenon
<1>2. /\ pc \in {"idle", "test", "head", "find", "check", "hlt", "asleep"} /\ counter = 0
      /\ due' = [e \in DOMAIN due \ Fired |-> due[e]]
  BY <1>0, <1>m, InterruptTakes
<1>3. /\ DOMAIN q = 1 .. Len(q) /\ Len(q) \in Nat
      /\ \A i \in 1 .. Len(q) : timer[q[i]] \in Nat /\ q[i] \in Members(q)
  BY QueueType DEF TypeOK, U32, Members
<1>4. Members(q) \subseteq DOMAIN due
  BY <1>m DEF InOrder, Complete
<1>5. ASSUME NEW i \in 1 .. f PROVE q[i] \in DOMAIN due /\ due[q[i]] = 0
  <2>1. i \in 1 .. Len(q) /\ 1 \in 1 .. Len(q)
    BY <1>3
  <2>2. q[i] \in DOMAIN due /\ due[q[i]] \in Nat
    BY <1>3, <1>4, <2>1 DEF TypeOK
  <2>3. due[q[i]] <= (timer[q[i]] - timer[q[1]]) * Tick + counter
    BY <1>2, <1>3, <1>m, <2>1 DEF InOrder, OnTime, Left, Arming
  <2>4. timer[q[i]] - timer[q[1]] = 0
    BY <1>1, <1>3, <2>1
  <2>5. due[q[i]] <= 0 * Tick + 0
    BY <1>2, <2>3, <2>4
  <2> QED
    BY <2>2, <2>5, TimerAssumption
<1> QED
  BY <1>1, <1>2, <1>5 DEF Promise!Fire, Promise!Only

\* Every calm step asks for a timer, passes time, rounds a count or fires, or is none
\* of the promise's business.
LEMMA StepKept ==
  ASSUME IInv, IInv', Calm, Calm', [Next]_vars
  PROVE  [Promise!Next]_due
<1>0. TypeOK /\ InHand /\ Consistent
  BY DEF IInv
<1>1. ASSUME due' = due PROVE [Promise!Next]_due
  BY <1>1
<1>2. CASE Mark
  <2>1. /\ pc = "mark" /\ loc.e \in Entry /\ loc.time \in Times
        /\ due' = [d \in DOMAIN due \cup {loc.e} |-> IF d = loc.e THEN loc.time * Tick ELSE due[d]]
    BY <1>0, <1>2, Marks DEF InHand, Mark
  <2>2. loc.e \notin DOMAIN due
    BY <1>0, <2>1 DEF Consistent, InOrder, Complete
  <2>3. loc.time * Tick \in {t * Tick : t \in Times}
    BY <2>1
  <2>4. Promise!Ask(loc.e, loc.time * Tick)
    BY <2>1, <2>2 DEF Promise!Ask
  <2> QED
    BY <2>1, <2>3, <2>4 DEF Promise!Next
<1>3. CASE Write
  <2> DEFINE S == DOMAIN due \ {loc.e}
  <2>1. due' = [d \in DOMAIN due |-> IF d = loc.e THEN due[d] ELSE Less(due[d], Tick - 1)]
    BY <1>3 DEF Write
  <2>2. due' = [d \in DOMAIN due |-> IF d \in S THEN Promise!Less(due[d], Tick - 1) ELSE due[d]]
    BY <2>1 DEF Less, Promise!Less
  <2>3. S \in SUBSET Entry /\ S \subseteq DOMAIN due
    BY <1>0 DEF TypeOK
  <2>4. Promise!Round(S)
    BY <2>2, <2>3 DEF Promise!Round
  <2> QED
    BY <2>3, <2>4 DEF Promise!Next
<1>4. CASE CountDown
  BY <1>4 DEF CountDown, Less, Promise!Less, Promise!Pass, Promise!Next
<1>5. CASE TimerInterrupt
  <2>1. Promise!Fire(Fired)
    BY <1>0, <1>5, FiredAreDue
  <2>2. Fired \in SUBSET Entry
    BY <1>0, <2>1 DEF Promise!Fire, TypeOK
  <2> QED
    BY <2>1, <2>2 DEF Promise!Next
<1>6. CASE Ask \/ PitTick \/ HandlerStep \/ UNCHANGED vars
  BY <1>0, <1>1, <1>6 DEF Ask, NewTimerNow, Allocate, PitTick, HandlerStep, Store, EoiIret, vars
<1>7. CASE KernelStep /\ ~Mark /\ ~Write
  BY <1>1, <1>7 DEF KernelStep, Occupied, Clear, Exhausted, ReadHead, ReadTimer, ReadCount, Sub, SubDone, Find, Scan,
     ScanDone, LinkFirst, LinkAfter, Arm, Cli, Woken, NotWoken, Hlt
<1> QED
  BY <1>2, <1>3, <1>4, <1>5, <1>6, <1>7 DEF Next

\* Where no interrupt meets a list half changed and no product overflows, new_timer
\* keeps its promise: the callback runs once, and not before its time but for the
\* rounding of the hardware count.
THEOREM PromiseOfTimer == CalmSpec => KeepsPromise
<1>1. Init => IInv /\ Calm /\ Promise!Init
  BY TimerInit DEF Init, Calm, Promise!Init
<1>2. IInv /\ Calm /\ [NextCalm]_vars => IInv' /\ Calm'
  <2>1. [NextCalm]_vars => [Next]_vars
    BY DEF NextCalm
  <2>2. Calm /\ [NextCalm]_vars => Calm'
    BY DEF NextCalm, Calm, vars
  <2> QED
    BY <2>1, <2>2, TimerNext
<1>3. IInv /\ IInv' /\ Calm /\ Calm' /\ [NextCalm]_vars => [Promise!Next]_due
  <2>1. [NextCalm]_vars => [Next]_vars
    BY DEF NextCalm
  <2> QED
    BY <2>1, StepKept
<1> QED
  BY <1>1, <1>2, <1>3, PTL DEF CalmSpec, KeepsPromise, Promise!Spec

=============================================================================
