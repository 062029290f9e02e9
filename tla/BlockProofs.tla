---------------------------- MODULE BlockProofs ----------------------------
(***************************************************************************)
(* Proofs about Block, for queues of any size, requests of any number of   *)
(* sectors and as many as the indices can count, and any number of chains  *)
(* in the device's hands.                                                  *)
(***************************************************************************)
EXTENDS Block, NaturalSets, SequenceTheorems

-----------------------------------------------------------------------------
(* The queue *)

\* What is assumed of the sizes of the rings.
LEMMA Sizes ==
  /\ Size \in Nat \ {0} /\ Mod \in Nat \ {0} /\ Size < Mod
  /\ \A x \in Int : x % Size \in Slot /\ x % Mod \in Index
  /\ \A x \in Slot : x % Size = x
  /\ \A x \in Index : x % Mod = x
<1>1. Size \in Nat \ {0} /\ Mod \in Nat \ {0} /\ Size < Mod
  BY QueueAssumption
<1>2. \A x \in Int : x % Size \in Slot /\ x % Mod \in Index
  BY <1>1, DivMod DEF Slot, Index
<1>3. (\A x \in Slot : x % Size = x) /\ (\A x \in Index : x % Mod = x)
  BY <1>1, ModSmall DEF Slot, Index
<1> QED
  BY <1>1, <1>2, <1>3

\* Once round the ring one comes to every slot.
LEMMA ComesTo ==
  ASSUME NEW x \in Nat, NEW s \in Slot
  PROVE  \E n \in 1 .. Size : (x + n - 1) % Size = s
<1>1. s \in Int /\ x \in Int /\ Size \in Nat \ {0}
  BY Sizes DEF Slot
<1>e. PICK e \in Int : e = s - x
  BY <1>1
<1>2. PICK d \in 0 .. Size - 1 : d = e % Size
  BY <1>1, DivMod
<1>3. ((e % Size) + x) % Size = (e + x) % Size
  BY <1>1, ModSum
<1>4. d + 1 \in 1 .. Size /\ x + (d + 1) - 1 = d + x /\ e + x = s
  BY <1>1, <1>2, <1>e
<1>5. (x + (d + 1) - 1) % Size = s
  BY <1>2, <1>3, <1>4, Sizes
<1> QED
  BY <1>4, <1>5

\* The descriptors before n, from x on, have a successor.
Runs(desc, x, n) == \A m \in 1 .. n - 1 : desc[(x + m - 1) % Size].more

\* A queue in which not every descriptor has a successor has a last one from everywhere.
LEMMA ChainEnds ==
  ASSUME NEW desc, \E s \in Slot : ~desc[s].more, NEW x \in Nat
  PROVE  \E n \in 1 .. Size : ~desc[(x + n - 1) % Size].more /\ Runs(desc, x, n)
<1> DEFINE Ends == {n \in 1 .. Size : ~desc[(x + n - 1) % Size].more}
<1>1. PICK s \in Slot : ~desc[s].more
  OBVIOUS
<1>2. PICK n \in 1 .. Size : (x + n - 1) % Size = s
  BY ComesTo
<1>3. n \in Ends /\ Ends \in SUBSET Nat
  BY <1>1, <1>2
<1>4. PICK m \in Ends : \A k \in Ends : m <= k
  BY <1>3, LeastNatural
<1>5. ASSUME NEW k \in 1 .. m - 1 PROVE desc[(x + k - 1) % Size].more
  <2>1. k \in 1 .. Size /\ ~(m <= k)
    BY <1>4, Sizes
  <2> QED
    BY <1>4, <2>1
<1> QED
  BY <1>4, <1>5 DEF Runs

\* Where slot s comes in a list that starts at x.
Places(x, segs, s) == {i \in 1 .. Len(segs) : (x + i - 1) % Size = s}
LastPlace(x, segs, s) == CHOOSE i \in Places(x, segs, s) : \A j \in Places(x, segs, s) : j <= i

\* A slot that is used has a last use.
LEMMA LastUse ==
  ASSUME NEW x \in Nat, NEW B, NEW segs \in Seq(B), NEW s, Places(x, segs, s) # {}
  PROVE  /\ LastPlace(x, segs, s) \in Places(x, segs, s)
         /\ \A j \in Places(x, segs, s) : j <= LastPlace(x, segs, s)
<1> DEFINE P == Places(x, segs, s)
           T == {Len(segs) - i : i \in P}
<1>1. P \subseteq 1 .. Len(segs) /\ Len(segs) \in Nat /\ P # {}
  BY DEF Places
<1>2. T \in SUBSET Nat /\ T # {}
  BY <1>1
<1>3. PICK t \in T : \A k \in T : t <= k
  BY <1>2, LeastNatural
<1>4. PICK i \in P : t = Len(segs) - i
  BY <1>3
<1>5. ASSUME NEW j \in P PROVE j <= i
  <2>1. Len(segs) - j \in T
    OBVIOUS
  <2>2. Len(segs) - i <= Len(segs) - j
    BY <1>3, <1>4, <2>1
  <2>3. i \in Int /\ j \in Int
    BY <1>1
  <2> QED
    BY <1>1, <2>2, <2>3
<1> HIDE DEF P
<1>6. \E k \in P : \A j \in P : j <= k
  BY <1>5
<1>7. LastPlace(x, segs, s) = CHOOSE k \in P : \A j \in P : j <= k
  BY DEF LastPlace, P
<1> QED
  BY <1>6, <1>7 DEF P

\* What virtio_queue_enqueue makes of the descriptors.
IsChained(B, c, r, segs) ==
  /\ c \in Queue(B) /\ \E s \in Slot : ~c.desc[s].more
  /\ c.next = (r.next + Len(segs)) % Size /\ c.added = (r.added + Len(segs)) % Mod
  /\ c.ring = r.ring /\ c.avail = r.avail /\ c.used = r.used /\ c.usedIdx = r.usedIdx
  /\ c.seen = r.seen /\ c.taken = r.taken
  /\ r.next + Len(segs) <= Size =>
       \A s \in Slot : c.desc[s] =
         IF r.next <= s /\ s < r.next + Len(segs)
           THEN [buf |-> segs[s - r.next + 1], more |-> s + 1 < r.next + Len(segs)]
           ELSE r.desc[s]

LEMMA ChainedIs ==
  ASSUME NEW B, NEW r \in Queue(B), NEW segs \in Seq(B), Len(segs) >= 1
  PROVE  IsChained(B, Chained(r, segs), r, segs)
<1> DEFINE of(s)   == Places(r.next, segs, s)
           last(s) == LastPlace(r.next, segs, s)
           new     == [s \in Slot |-> IF of(s) = {} THEN r.desc[s]
                                      ELSE [buf |-> segs[last(s)], more |-> last(s) < Len(segs)]]
<1>1. Chained(r, segs) = [r EXCEPT !.desc = new, !.next = (r.next + Len(segs)) % Size,
                                   !.added = (r.added + Len(segs)) % Mod]
  BY DEF Chained, Places, LastPlace
<1>2. r.next \in Nat /\ r.next \in Slot /\ r.added \in Nat /\ r.desc \in [Slot -> Descriptor(B)]
  BY DEF Queue, Slot, Index
<1>3. \A s \in Slot : of(s) # {} => last(s) \in of(s) /\ \A j \in of(s) : j <= last(s)
  <2> HIDE DEF of, last
  <2> SUFFICES ASSUME NEW s \in Slot, of(s) # {}
               PROVE  last(s) \in of(s) /\ \A j \in of(s) : j <= last(s)
    OBVIOUS
  <2> QED
    BY <1>2, LastUse, Zenon DEF of, last
<1>4. \A s : of(s) \subseteq 1 .. Len(segs) /\ Len(segs) \in Nat
  BY DEF Places
<1>5. ASSUME NEW s \in Slot PROVE new[s] \in Descriptor(B)
  <2>1. CASE of(s) = {}
    BY <1>2, <2>1
  <2>2. CASE of(s) # {}
    <3>1. last(s) \in 1 .. Len(segs)
      BY <1>3, <1>4, <2>2
    <3>2. segs[last(s)] \in B
      BY <3>1, ElementOfSeq
    <3>3. new[s] = [buf |-> segs[last(s)], more |-> last(s) < Len(segs)]
      BY <2>2
    <3> HIDE DEF last, new, of
    <3> QED
      BY <3>2, <3>3 DEF Descriptor
  <2> QED
    BY <2>1, <2>2
<1>6. new \in [Slot -> Descriptor(B)]
  BY <1>5
<1>7. (r.next + Len(segs)) % Size \in Slot /\ (r.added + Len(segs)) % Mod \in Index
  <2>1. r.next + Len(segs) \in Int /\ r.added + Len(segs) \in Int
    BY <1>2, <1>4
  <2> QED
    BY <2>1, Sizes
<1>8. ~new[(r.next + Len(segs) - 1) % Size].more /\ (r.next + Len(segs) - 1) % Size \in Slot
  <2>1. r.next + Len(segs) - 1 \in Int /\ Len(segs) \in 1 .. Len(segs)
    BY <1>2, <1>4
  <2>2. PICK s \in Slot : s = (r.next + Len(segs) - 1) % Size
    BY <2>1, Sizes
  <2>3. Len(segs) \in of(s)
    BY <2>1, <2>2 DEF Places
  <2>4. last(s) = Len(segs)
    <3>1. last(s) \in of(s) /\ Len(segs) <= last(s)
      BY <1>3, <2>3
    <3>2. last(s) \in 1 .. Len(segs)
      BY <1>4, <3>1
    <3> HIDE DEF last, of
    <3> QED
      BY <1>4, <3>1, <3>2
  <2>5. new[s].more <=> last(s) < Len(segs)
    BY <2>3
  <2>6. ~(Len(segs) < Len(segs))
    BY <1>4
  <2> QED
    <3> HIDE DEF last, of, new
    <3> QED
      BY <2>2, <2>4, <2>5, <2>6
<1>9. ASSUME r.next + Len(segs) <= Size, NEW s \in Slot
      PROVE  new[s] = IF r.next <= s /\ s < r.next + Len(segs)
                        THEN [buf |-> segs[s - r.next + 1], more |-> s + 1 < r.next + Len(segs)]
                        ELSE r.desc[s]
  <2>1. s \in Nat /\ Size \in Nat
    BY Sizes DEF Slot
  <2>2. \A i \in 1 .. Len(segs) : (r.next + i - 1) % Size = r.next + i - 1
    <3>1. \A i \in 1 .. Len(segs) : r.next + i - 1 \in Slot
      BY <1>2, <1>4, <1>9, <2>1 DEF Slot
    <3> QED
      BY <3>1, Sizes
  <2>3. of(s) = {i \in 1 .. Len(segs) : r.next + i - 1 = s}
    BY <2>2 DEF Places
  <2>4. CASE r.next <= s /\ s < r.next + Len(segs)
    <3>1. PICK i \in 1 .. Len(segs) : i = s - r.next + 1
      BY <1>2, <1>4, <2>1, <2>4
    <3>2. of(s) = {i}
      BY <1>2, <2>1, <2>3, <3>1
    <3>3. last(s) = i /\ of(s) # {}
      BY <1>3, <3>2
    <3>4. new[s] = [buf |-> segs[last(s)], more |-> last(s) < Len(segs)]
      BY <3>3
    <3>5. (i < Len(segs)) = (s + 1 < r.next + Len(segs))
      BY <1>2, <1>4, <2>1, <3>1
    <3> HIDE DEF last, of, new
    <3> QED
      BY <2>4, <3>1, <3>3, <3>4, <3>5
  <2>5. CASE ~(r.next <= s /\ s < r.next + Len(segs))
    <3>1. of(s) = {}
      BY <1>2, <1>4, <2>1, <2>3, <2>5
    <3> QED
      BY <2>5, <3>1
  <2> QED
    BY <2>4, <2>5
<1> HIDE DEF new
<1>10. /\ Chained(r, segs) \in Queue(B) /\ Chained(r, segs).desc = new
       /\ Chained(r, segs).next = (r.next + Len(segs)) % Size
       /\ Chained(r, segs).added = (r.added + Len(segs)) % Mod
       /\ Chained(r, segs).ring = r.ring /\ Chained(r, segs).avail = r.avail
       /\ Chained(r, segs).used = r.used /\ Chained(r, segs).usedIdx = r.usedIdx
       /\ Chained(r, segs).seen = r.seen /\ Chained(r, segs).taken = r.taken
  BY <1>1, <1>6, <1>7 DEF Queue
<1> QED
  BY <1>8, <1>9, <1>10 DEF IsChained

-----------------------------------------------------------------------------
(* A request is made *)

\* What is assumed of the bounds.
LEMMA Bounds ==
  /\ MaxRequests \in Nat \ {0} /\ MaxSectors \in Nat /\ 1 \in Request
  /\ \A n \in 0 .. MaxRequests : n * (MaxSectors + 2) \in Nat /\ n * (MaxSectors + 2) < Mod
  /\ \A n \in Nat : n * (MaxSectors + 2) + (MaxSectors + 2) = (n + 1) * (MaxSectors + 2)
<1>1. MaxRequests \in Nat \ {0} /\ MaxSectors \in Nat /\ MaxRequests * (MaxSectors + 2) < Mod
  BY BlockAssumption
<1>2. PICK k \in Nat : k = MaxSectors + 2
  BY <1>1
<1>3. ASSUME NEW n \in 0 .. MaxRequests PROVE n * k \in Nat /\ n * k < Mod
  <2>1. n * k <= MaxRequests * k /\ n * k \in Nat /\ MaxRequests * k \in Nat
    BY <1>1
  <2> QED
    BY <1>1, <1>2, <2>1, Sizes
<1>4. \A n \in Nat : n * k + k = (n + 1) * k
  BY SMT
<1> QED
  BY <1>1, <1>2, <1>3, <1>4 DEF Request

\* The ends of the requests.
LEMMA Ends ==
  ASSUME TypeOK, Counted
  PROVE  /\ Len(made) \in Nat /\ Len(made) \in 0 .. MaxRequests /\ DOMAIN made = 1 .. Len(made)
         /\ End(0) = 0 /\ \A r \in 0 .. Len(made) : End(r) \in Nat
         /\ q.avail = End(Len(made)) /\ q.avail < Mod /\ q.avail \in Nat
         /\ q.avail <= Len(made) * (MaxSectors + 2)
         /\ q.taken \in Nat /\ q.usedIdx \in Nat /\ Len(busy) \in Nat /\ q.seen \in Nat
         /\ q.desc \in [Slot -> Descriptor(Buffer)] /\ q.ring \in [Slot -> Slot]
         /\ q.next \in Slot
<1>1. made \in Seq(Nat) /\ Len(made) <= MaxRequests /\ busy \in Seq([head : Slot, req : 0 .. MaxRequests])
  BY DEF TypeOK
<1>2. Len(made) \in Nat /\ Len(made) \in 0 .. MaxRequests /\ DOMAIN made = 1 .. Len(made) /\ Len(busy) \in Nat
  BY <1>1, LenProperties
<1>3. \A r \in 0 .. Len(made) : End(r) \in Nat
  <2>1. \A r \in 1 .. Len(made) : made[r] \in Nat
    BY <1>1, ElementOfSeq
  <2> QED
    BY <1>2, <2>1 DEF End
<1>4. /\ q.taken \in Nat /\ q.usedIdx \in Nat /\ q.seen \in Nat /\ q.next \in Slot
      /\ q.desc \in [Slot -> Descriptor(Buffer)] /\ q.ring \in [Slot -> Slot]
  BY DEF TypeOK, Queue, Index
<1>5. q.avail = End(Len(made)) /\ q.avail <= Len(made) * (MaxSectors + 2)
  BY <1>2, Bounds DEF Counted
<1>6. q.avail \in Nat
  BY <1>2, <1>3, <1>5, Bounds
<1>7. q.avail < Mod
  <2>1. PICK e \in Nat : e = Len(made) * (MaxSectors + 2) /\ e < Mod
    BY <1>2, Bounds
  <2>2. Mod \in Nat
    BY Sizes
  <2> QED
    BY <1>5, <1>6, <2>1, <2>2
<1> QED
  BY <1>2, <1>3, <1>4, <1>5, <1>6, <1>7 DEF End

\* What a caller changes.
Asked(list) ==
  /\ q' \in Queue(Buffer) /\ \E s \in Slot : ~q'.desc[s].more
  /\ q'.avail = q.avail + Len(list) /\ q'.added = 0
  /\ q'.usedIdx = q.usedIdx /\ q'.taken = q.taken /\ q'.seen = q.seen
  /\ q'.next = (q.next + Len(list)) % Size
  /\ q'.ring = [q.ring EXCEPT ![q.avail % Size] = q.next]
  /\ q.next + Len(list) <= Size =>
       \A s \in Slot : q'.desc[s] =
         IF q.next <= s /\ s < q.next + Len(list)
           THEN [buf |-> list[s - q.next + 1], more |-> s + 1 < q.next + Len(list)]
           ELSE q.desc[s]
  /\ made' \in Seq(Nat) /\ Len(made') = Len(made) + 1 /\ Len(made') <= MaxRequests
  /\ \A r \in 0 .. Len(made) + 1 : End(r)' = IF r <= Len(made) THEN End(r) ELSE q.avail + Len(list)

LEMMA AskIs ==
  ASSUME TypeOK, Counted, NEW list \in Seq(Buffer), Len(list) \in 2 .. MaxSectors + 2, Ask(list)
  PROVE  Asked(list)
<1> DEFINE a == [q EXCEPT !.ring[q.avail % Size] = q.next]
           c == Chained(a, list)
<1>1. q \in Queue(Buffer) /\ q' = [c EXCEPT !.avail = (@ + c.added) % Mod, !.added = 0]
  BY DEF TypeOK, Ask, Kick, Enqueue
<1>2. q.next \in Slot /\ q.avail % Size \in Slot /\ q.ring \in [Slot -> Slot] /\ q.avail \in Nat
  <2>1. q.next \in Slot /\ q.ring \in [Slot -> Slot] /\ q.avail \in Nat /\ q.avail \in Int
    BY Ends
  <2> QED
    BY <2>1, Sizes
<1>3. /\ a \in Queue(Buffer) /\ a.next = q.next /\ a.avail = q.avail /\ a.added = 0 /\ a.desc = q.desc
      /\ a.ring = [q.ring EXCEPT ![q.avail % Size] = q.next]
      /\ a.usedIdx = q.usedIdx /\ a.taken = q.taken /\ a.seen = q.seen
  BY <1>1, <1>2 DEF Queue, Counted
<1>4. Len(list) >= 1 /\ Len(list) \in 0 .. MaxSectors + 2
  BY Bounds
<1> HIDE DEF a
<1>5. /\ c \in Queue(Buffer) /\ \E s \in Slot : ~c.desc[s].more
      /\ c.next = (a.next + Len(list)) % Size /\ c.added = (a.added + Len(list)) % Mod
      /\ c.ring = a.ring /\ c.avail = a.avail /\ c.used = a.used /\ c.usedIdx = a.usedIdx
      /\ c.seen = a.seen /\ c.taken = a.taken
      /\ a.next + Len(list) <= Size =>
           \A s \in Slot : c.desc[s] =
             IF a.next <= s /\ s < a.next + Len(list)
               THEN [buf |-> list[s - a.next + 1], more |-> s + 1 < a.next + Len(list)]
               ELSE a.desc[s]
  <2>1. IsChained(Buffer, c, a, list)
    BY <1>3, <1>4, ChainedIs
  <2> HIDE DEF c
  <2> QED
    BY <2>1 DEF IsChained
<1> HIDE DEF c
<1>6. Len(made) < MaxRequests /\ made' = Append(made, End(Len(made)) + Len(list))
  BY DEF Ask
<1>7. q.avail + Len(list) \in Index /\ Len(list) \in Index
  <2>1. q.avail <= Len(made) * (MaxSectors + 2) /\ Len(made) + 1 \in 0 .. MaxRequests /\ Len(made) \in Nat
    <3>1. MaxRequests \in Nat
      BY BlockAssumption
    <3>2. q.avail <= Len(made) * (MaxSectors + 2) /\ Len(made) \in Nat
      BY Ends
    <3> QED
      BY <1>6, <3>1, <3>2
  <2>2. PICK k \in Nat : k = MaxSectors + 2
    BY Bounds
  <2>3. PICK e \in Nat : e = Len(made) * k
    BY <2>1
  <2>4. e + k = (Len(made) + 1) * k /\ (Len(made) + 1) * k < Mod
    BY <2>1, <2>2, <2>3, Bounds
  <2>5. q.avail <= e /\ e + k < Mod /\ Mod \in Nat /\ Len(list) \in 0 .. k
    BY <1>4, <2>1, <2>2, <2>3, <2>4, Sizes
  <2> QED
    BY <1>2, <2>5 DEF Index
<1>8. (0 + Len(list)) % Mod = Len(list) /\ (q.avail + Len(list)) % Mod = q.avail + Len(list)
  <2>1. 0 + Len(list) = Len(list)
    BY <1>4
  <2> QED
    BY <1>7, <2>1, Sizes
<1>9. /\ q' \in Queue(Buffer) /\ q'.avail = q.avail + Len(list) /\ q'.added = 0
      /\ q'.usedIdx = c.usedIdx /\ q'.taken = c.taken /\ q'.seen = c.seen
      /\ q'.next = c.next /\ q'.ring = c.ring /\ q'.desc = c.desc
  <2>1. (c.avail + c.added) % Mod = q.avail + Len(list)
    BY <1>3, <1>5, <1>8
  <2>2. 0 \in Index /\ q.avail + Len(list) \in Index
    BY <1>7, Sizes DEF Index
  <2> QED
    BY <1>1, <1>5, <2>1, <2>2 DEF Queue
<1>10. /\ made' \in Seq(Nat) /\ Len(made') = Len(made) + 1 /\ Len(made') <= MaxRequests
       /\ \A r \in 1 .. Len(made) : made'[r] = made[r]
       /\ made'[Len(made) + 1] = q.avail + Len(list)
  <2>1. made \in Seq(Nat) /\ q.avail + Len(list) \in Nat /\ q.avail = End(Len(made)) /\ Len(made) \in Nat
    BY <1>2, <1>4, Ends DEF TypeOK
  <2>2. made' = Append(made, q.avail + Len(list))
    BY <1>6, <2>1
  <2> QED
    BY <1>6, <2>1, <2>2, AppendProperties, Bounds
<1>11. ASSUME NEW r \in 0 .. Len(made) + 1
       PROVE  End(r)' = IF r <= Len(made) THEN End(r) ELSE q.avail + Len(list)
  <2>1. PICK m \in Nat : m = Len(made)
    BY Ends
  <2>2. (IF r = 0 THEN 0 ELSE made'[r])
          = IF r <= m THEN (IF r = 0 THEN 0 ELSE made[r]) ELSE q.avail + Len(list)
    BY <1>10, <2>1
  <2> QED
    BY <2>1, <2>2 DEF End
<1> QED
  BY <1>3, <1>5, <1>9, <1>10, <1>11 DEF Asked

\* The list of a request: two descriptors and more, all of them the request's.
IsList(list) ==
  /\ list \in Seq(Buffer) /\ Len(list) \in 2 .. MaxSectors + 2
  /\ \A i \in 1 .. Len(list) : list[i].req = Len(made) + 1

LEMMA BindType ==
  ASSUME NEW r \in 0 .. MaxRequests, NEW part \in {"none", "header", "sector", "status"}, NEW in \in BOOLEAN
  PROVE  Bind(r, part, in) \in Buffer /\ Bind(r, part, in).req = r
  BY DEF Bind, Buffer

\* Header, sectors and status are a list.
LEMMA SectorList ==
  ASSUME TypeOK, Counted, Len(made) < MaxRequests, NEW n \in 1 .. MaxSectors, NEW in \in BOOLEAN
  PROVE  IsList(<< Bind(Len(made) + 1, "header", FALSE) >>
                  \o [i \in 1 .. n |-> Bind(Len(made) + 1, "sector", in)]
                  \o << Bind(Len(made) + 1, "status", TRUE) >>)
<1>1. PICK r \in 0 .. MaxRequests : r = Len(made) + 1
  BY Ends, BlockAssumption
<1> DEFINE h == Bind(r, "header", FALSE)
           s == Bind(r, "sector", in)
           t == Bind(r, "status", TRUE)
           mid == [i \in 1 .. n |-> s]
           all == << h >> \o mid \o << t >>
<1>2. h \in Buffer /\ s \in Buffer /\ t \in Buffer /\ h.req = r /\ s.req = r /\ t.req = r
  BY BindType
<1> HIDE DEF h, s, t
<1>3. /\ mid \in Seq(Buffer) /\ Len(mid) = n /\ << h >> \in Seq(Buffer) /\ << t >> \in Seq(Buffer)
      /\ Len(<< h >>) = 1 /\ Len(<< t >>) = 1 /\ << h >>[1] = h /\ << t >>[1] = t
      /\ \A i \in 1 .. n : mid[i] = s
  BY <1>2
<1> HIDE DEF mid
<1>4. /\ << h >> \o mid \in Seq(Buffer) /\ Len(<< h >> \o mid) = n + 1
      /\ \A i \in 1 .. n + 1 : (<< h >> \o mid)[i] \in {h, s}
  BY <1>3
<1>5. /\ all \in Seq(Buffer) /\ Len(all) = n + 2
      /\ \A i \in 1 .. n + 2 : all[i] \in {h, s, t}
  BY <1>3, <1>4
<1>6. n + 2 \in 2 .. MaxSectors + 2
  BY BlockAssumption
<1>7. IsList(all)
  <2> HIDE DEF all
  <2>1. \A i \in 1 .. Len(all) : all[i].req = Len(made) + 1
    BY <1>1, <1>2, <1>5
  <2> QED
    BY <1>5, <1>6, <2>1 DEF IsList
<1> QED
  BY <1>1, <1>7 DEF mid, h, s, t

LEMMA Asks ==
  ASSUME TypeOK, Counted, Flush \/ Read \/ Write
  PROVE  \E list : IsList(list) /\ Ask(list)
<1>0. Len(made) < MaxRequests
  BY DEF Flush, Read, Write, Ask
<1>1. CASE Flush
  <2>1. PICK r \in 0 .. MaxRequests : r = Len(made) + 1
    BY <1>0, Ends, BlockAssumption
  <2>2. /\ Bind(r, "header", FALSE) \in Buffer /\ Bind(r, "status", TRUE) \in Buffer
        /\ Bind(r, "header", FALSE).req = r /\ Bind(r, "status", TRUE).req = r
    BY BindType
  <2>3. PICK h, t : h = Bind(r, "header", FALSE) /\ t = Bind(r, "status", TRUE)
    OBVIOUS
  <2>a. h \in Buffer /\ t \in Buffer /\ h.req = r /\ t.req = r
    BY <2>2, <2>3
  <2>b. PICK l : l = << h, t >>
    OBVIOUS
  <2>c. l \in Seq(Buffer) /\ Len(l) = 2 /\ l[1] = h /\ l[2] = t
    BY <2>a, <2>b
  <2>d. 2 \in 2 .. MaxSectors + 2 /\ \A i \in 1 .. 2 : i = 1 \/ i = 2
    BY BlockAssumption
  <2>4. IsList(l)
    BY <2>1, <2>a, <2>c, <2>d DEF IsList
  <2>5. IsList(FlushList(Len(made) + 1))
    BY <2>1, <2>3, <2>4, <2>b DEF FlushList
  <2> QED
    BY <1>1, <2>5 DEF Flush
<1>2. CASE Read
  <2>1. PICK n \in 1 .. MaxSectors : Ask(ReadList(Len(made) + 1, n))
    BY <1>2 DEF Read
  <2>2. IsList(ReadList(Len(made) + 1, n))
    BY <1>0, SectorList DEF ReadList
  <2> QED
    BY <2>1, <2>2
<1>3. CASE Write
  <2>1. PICK n \in 1 .. MaxSectors : Ask(WriteList(Len(made) + 1, n))
    BY <1>3 DEF Write
  <2>2. IsList(WriteList(Len(made) + 1, n))
    BY <1>0, SectorList DEF WriteList
  <2> QED
    BY <2>1, <2>2
<1> QED
  BY <1>1, <1>2, <1>3

\* Types and indices after a request has been made.
LEMMA AskCounts ==
  ASSUME TypeOK, Counted, NEW list, IsList(list), Ask(list)
  PROVE  Asked(list) /\ TypeOK' /\ Counted'
<1>1. Asked(list)
  BY AskIs DEF IsList
<1>2. UNCHANGED << busy, isr, handler, done, taken, broken, reordered, shared >>
  BY DEF Ask
<1>3. TypeOK'
  BY <1>1, <1>2 DEF TypeOK, Asked
<1>4. PICK m \in Nat : m = Len(made)
  BY Ends
<1>5. PICK n \in Nat : n = q.avail
  BY Ends
<1>6. PICK l \in 2 .. MaxSectors + 2 : l = Len(list)
  BY DEF IsList
<1>7. /\ Len(made') = m + 1 /\ q'.avail = n + l /\ n = End(m)
      /\ \A r \in 0 .. m + 1 : End(r)' = IF r <= m THEN End(r) ELSE n + l
      /\ \A r \in 0 .. m : End(r) \in Nat
      /\ q'.added = 0 /\ q'.taken = q'.usedIdx + Len(busy') /\ q'.taken <= n /\ q'.taken \in Nat
  BY <1>1, <1>2, <1>4, <1>5, <1>6, Ends DEF Asked, Counted
<1>8. MaxSectors \in Nat
  BY BlockAssumption
<1>9. ASSUME NEW r \in 0 .. m + 1, NEW s \in 0 .. m + 1, r < s
      PROVE  End(r)' < End(s)'
  <2>1. CASE s <= m
    <3>1. End(r) < End(s)
      BY <1>4, <1>9, <2>1 DEF Counted
    <3> QED
      BY <1>7, <1>9, <2>1, <3>1
  <2>2. CASE s = m + 1
    <3>1. End(r) <= n
      <4>1. CASE r = m
        BY <1>7, <4>1
      <4>2. CASE r < m
        <5>1. End(r) < End(m)
          BY <1>4, <1>9, <4>2 DEF Counted
        <5> QED
          BY <1>7, <1>9, <4>2, <5>1
      <4> QED
        BY <1>9, <2>2, <4>1, <4>2
    <3> QED
      BY <1>7, <1>8, <1>9, <2>2, <3>1
  <2> QED
    BY <1>9, <2>1, <2>2
<1>10. ASSUME NEW r \in 0 .. m + 1
       PROVE  End(r)' <= r * (MaxSectors + 2)
  <2>1. CASE r <= m
    BY <1>4, <1>7, <2>1 DEF Counted
  <2>2. CASE r = m + 1
    <3>1. n <= m * (MaxSectors + 2)
      BY <1>4, <1>7 DEF Counted
    <3>2. PICK e \in Nat : e = m * (MaxSectors + 2)
      BY <1>8
    <3>3. e + (MaxSectors + 2) = (m + 1) * (MaxSectors + 2)
      BY <3>2, Bounds
    <3>4. n + l <= e + (MaxSectors + 2)
      BY <1>8, <3>1, <3>2
    <3>5. End(r)' = n + l
      BY <1>7, <2>2
    <3> QED
      BY <2>2, <3>3, <3>4, <3>5
  <2> QED
    BY <2>1, <2>2
<1>11. Counted'
  <2>1. \A k \in 0 .. m + 1 : k = Len(made') => q'.avail = End(k)'
    BY <1>7
  <2>2. q'.avail = End(Len(made))'
    BY <1>7, <2>1 DEF End
  <2> QED
    BY <1>7, <1>8, <1>9, <1>10, <2>2 DEF Counted
<1> QED
  BY <1>1, <1>3, <1>11

\* The requests follow each other.
LEMMA EndsGrow ==
  ASSUME TypeOK, Counted
  PROVE  /\ \A r, s \in 0 .. Len(made) : r <= s => End(r) <= End(s)
         /\ \A r, s \in 0 .. Len(made) : End(r) < End(s) => r < s
         /\ \A r, s \in 0 .. Len(made) : End(r) = End(s) => r = s
<1>1. PICK m \in Nat : m = Len(made)
  BY Ends
<1>2. \A r \in 0 .. m : End(r) \in Nat
  BY <1>1, Ends
<1>3. \A r, s \in 0 .. m : r < s => End(r) < End(s)
  BY <1>1 DEF Counted
<1>4. ASSUME NEW r \in 0 .. m, NEW s \in 0 .. m
      PROVE  /\ r <= s => End(r) <= End(s)
             /\ End(r) < End(s) => r < s
             /\ End(r) = End(s) => r = s
  <2>1. End(r) \in Nat /\ End(s) \in Nat /\ (r < s => End(r) < End(s)) /\ (s < r => End(s) < End(r))
    BY <1>2, <1>3
  <2> QED
    BY <2>1
<1> QED
  BY <1>1, <1>4

\* While nothing has been used a second time, a new request comes to lie behind the others.
LEMMA AskKeeps ==
  ASSUME TypeOK, Counted, Laid, Once, InOrder, NEW list, IsList(list), Ask(list), ~Wrapped'
  PROVE  Laid' /\ Once' /\ InOrder'
<1>1. Asked(list)
  BY AskCounts
<1>2. UNCHANGED << busy, done, taken, reordered >>
  BY DEF Ask
<1>3. PICK m \in Nat : m = Len(made)
  BY Ends
<1>4. PICK n \in Nat : n = q.avail
  BY Ends
<1>5. PICK l \in Nat : l = Len(list) /\ l >= 2
  BY BlockAssumption DEF IsList
<1>6. /\ Len(made') = m + 1 /\ q'.avail = n + l /\ End(m) = n
      /\ q.usedIdx \in Nat /\ q.taken \in Nat /\ Len(busy) \in Nat
      /\ q.taken = q.usedIdx + Len(busy) /\ q.taken <= n
      /\ q'.usedIdx = q.usedIdx /\ q'.taken = q.taken
  BY <1>1, <1>3, <1>4, <1>5, Ends DEF Asked, Counted
<1>7. Size \in Nat /\ n + l <= Size /\ n < Size /\ n \in Slot
  <2>1. Size \in Nat
    BY QueueAssumption
  <2>2. ~(n + l > Size)
    BY <1>6 DEF Wrapped
  <2> QED
    BY <1>5, <2>1, <2>2 DEF Slot
<1>8. q.next = n /\ n % Size = n
  <2>1. n % Size = n
    BY <1>7, Sizes
  <2>2. q.next = q.avail % Size
    BY DEF Laid
  <2> QED
    BY <1>4, <2>1, <2>2
<1>9. \A r \in 1 .. m + 1 : End(r - 1)' = End(r - 1) /\ End(r - 1) \in Nat
  <2>1. \A r \in 0 .. m + 1 : End(r)' = IF r <= m THEN End(r) ELSE n + l
    BY <1>1, <1>3, <1>4, <1>5 DEF Asked
  <2>2. \A r \in 1 .. m + 1 : r - 1 \in 0 .. m + 1 /\ r - 1 <= m /\ r - 1 \in 0 .. m
    OBVIOUS
  <2>3. ASSUME NEW r \in 1 .. m + 1 PROVE End(r - 1)' = End(r - 1) /\ End(r - 1) \in Nat
    <3>1. PICK s \in 0 .. m : s = r - 1
      BY <2>2
    <3>2. End(s)' = End(s) /\ End(s) \in Nat
      BY <2>1, <1>3, Ends
    <3> QED
      BY <3>1, <3>2 DEF End
  <2> QED
    BY <2>3
<1>10. /\ \A r \in 1 .. m : End(r)' = End(r) /\ End(r) \in Nat /\ End(r) <= n
       /\ End(m + 1)' = n + l
  <2>1. \A r \in 0 .. m + 1 : End(r)' = IF r <= m THEN End(r) ELSE n + l
    BY <1>1, <1>3, <1>4, <1>5 DEF Asked
  <2>2. \A r \in 0 .. m : End(r) \in Nat /\ End(r) <= End(m)
    BY <1>3, Ends, EndsGrow
  <2>3. ASSUME NEW r \in 1 .. m PROVE End(r)' = End(r) /\ End(r) \in Nat /\ End(r) <= n
    BY <2>1, <2>2, <1>6
  <2>4. PICK x \in 0 .. m + 1 : x = m + 1
    OBVIOUS
  <2>5. End(x)' = n + l
    BY <2>1, <2>4
  <2>6. End(m + 1)' = n + l
    BY <2>4, <2>5, <1>3 DEF End
  <2> QED
    BY <2>3, <2>6
<1>11. \A s \in Slot : q'.desc[s] =
         IF n <= s /\ s < n + l
           THEN [buf |-> list[s - n + 1], more |-> s + 1 < n + l]
           ELSE q.desc[s]
  BY <1>1, <1>4, <1>5, <1>7, <1>8 DEF Asked
<1>12. ASSUME NEW r \in 1 .. m + 1, NEW k \in Slot, End(r - 1)' <= k, k < End(r)'
       PROVE  q'.desc[k].buf.req = r /\ (q'.desc[k].more <=> k + 1 < End(r)')
  <2>0. k \in Nat
    BY <1>7 DEF Slot
  <2>1. CASE r <= m
    <3>1. r \in 1 .. m /\ End(r)' = End(r) /\ End(r) <= n /\ End(r - 1) <= k /\ End(r) \in Nat
      BY <1>9, <1>10, <1>12, <2>1
    <3>2. q'.desc[k] = q.desc[k]
      <4>1. ~(n <= k)
        BY <1>12, <2>0, <3>1
      <4> QED
        BY <1>11, <1>12, <4>1
    <3>3. q.desc[k].buf.req = r /\ (q.desc[k].more <=> k + 1 < End(r))
      BY <1>3, <1>12, <3>1 DEF Laid
    <3> QED
      BY <3>1, <3>2, <3>3
  <2>2. CASE r = m + 1
    <3>a. r - 1 = m
      BY <2>2
    <3>b. End(r - 1) = End(m)
      BY <3>a
    <3>1. End(r - 1) = n /\ End(r)' = n + l
      BY <1>6, <1>10, <2>2, <3>b
    <3>2. n <= k /\ k < n + l
      BY <1>9, <1>12, <3>1
    <3>3. q'.desc[k] = [buf |-> list[k - n + 1], more |-> k + 1 < n + l]
      BY <1>11, <3>2
    <3>4. list[k - n + 1].req = m + 1
      <4>1. PICK i \in 1 .. l : i = k - n + 1
        BY <2>0, <3>2
      <4> QED
        BY <1>3, <1>5, <4>1 DEF IsList
    <3>5. q'.desc[k].buf.req = m + 1 /\ q'.desc[k].more = (k + 1 < n + l)
      BY <3>3, <3>4
    <3> QED
      BY <2>2, <3>1, <3>5
  <2> QED
    BY <2>1, <2>2
<1>13. ASSUME NEW k \in Slot
       PROVE  q'.ring[k] = IF \E r \in 1 .. m + 1 : End(r - 1)' = k THEN k ELSE 0
  <2>1. q'.ring = [q.ring EXCEPT ![n] = n] /\ q.ring \in [Slot -> Slot]
    BY <1>1, <1>4, <1>8, Ends DEF Asked
  <2>2. CASE k = n
    <3>1. PICK r \in 1 .. m + 1 : r = m + 1
      OBVIOUS
    <3>a. r - 1 = m
      BY <3>1
    <3>b. End(r - 1) = End(m)
      BY <3>a
    <3>2. End(r - 1)' = k
      BY <1>6, <1>9, <2>2, <3>b
    <3>3. q'.ring[k] = k
      BY <1>7, <2>1, <2>2
    <3> QED
      BY <3>2, <3>3
  <2>3. CASE k # n
    <3>1. q'.ring[k] = q.ring[k]
      BY <2>1, <2>3
    <3>2. q.ring[k] = IF \E r \in 1 .. m : End(r - 1) = k THEN k ELSE 0
      BY <1>3 DEF Laid
    <3>3. ASSUME NEW r \in 1 .. m + 1, End(r - 1)' = k PROVE r \in 1 .. m
      <4>1. r # m + 1
        BY <1>6, <1>9, <2>3, <3>3
      <4> QED
        BY <4>1
    <3>4. (\E r \in 1 .. m + 1 : End(r - 1)' = k) <=> (\E r \in 1 .. m : End(r - 1) = k)
      BY <1>9, <3>3
    <3> QED
      BY <3>1, <3>2, <3>4
  <2> QED
    BY <2>2, <2>3
<1>14. Laid'
  <2>1. q'.next = q'.avail % Size
    BY <1>1, <1>4, <1>5, <1>6, <1>8 DEF Asked
  <2> QED
    BY <1>6, <1>12, <1>13, <2>1 DEF Laid
<1>15. Once'
  <2>1. \A i \in DOMAIN busy' : busy'[i].req \in 1 .. Len(made')
    BY <1>2, <1>3, <1>6 DEF Once
  <2>2. ASSUME NEW r \in Request \ {1}
        PROVE  Waits(r)' \/ (r <= m + 1 /\ (Proceeds(r)' \/ Finished(r)'))
    <3>0. r \in Nat /\ r >= 2 /\ InWork(r)' = InWork(r)
      BY <1>2 DEF Request, InWork
    <3>1. CASE Waits(r)
      <4>1. done[r] = 0 /\ InWork(r) = {} /\ (r > m \/ End(r - 1) >= q.taken)
        BY <1>3, <3>1 DEF Waits
      <4>2. r > m + 1 \/ End(r - 1)' >= q.taken
        BY <1>6, <1>9, <3>0, <4>1
      <4> QED
        BY <1>2, <1>6, <3>0, <4>1, <4>2 DEF Waits
    <3>2. CASE r <= m /\ (Proceeds(r) \/ Finished(r))
      <4>1. End(r - 1)' = End(r - 1)
        BY <1>9, <3>0, <3>2
      <4> QED
        BY <1>2, <1>6, <3>0, <3>2, <4>1 DEF Proceeds, Finished
    <3> QED
      BY <1>3, <3>1, <3>2 DEF Once
  <2>3. q'.usedIdx = done'[1] + Cardinality(Performed')
    BY <1>2, <1>6 DEF Once, Performed
  <2> QED
    BY <1>6, <2>1, <2>2, <2>3 DEF Once
<1>16. InOrder'
  <2> SUFFICES ASSUME ~reordered
               PROVE  /\ \A r \in 1 .. m + 1 : End(r - 1)' < q.usedIdx => done[r] > 0
                      /\ \A i \in DOMAIN busy : Names(q.usedIdx + i - 1, busy[i].req)'
    BY <1>2, <1>6 DEF InOrder
  <2>1. ASSUME NEW r \in 1 .. m + 1, End(r - 1)' < q.usedIdx PROVE done[r] > 0
    <3>1. r # m + 1
      BY <1>6, <1>9, <2>1
    <3> QED
      BY <1>3, <1>9, <2>1, <3>1 DEF InOrder
  <2>2. ASSUME NEW i \in DOMAIN busy PROVE Names(q.usedIdx + i - 1, busy[i].req)'
    <3>1. DOMAIN busy = 1 .. Len(busy)
      BY DEF TypeOK
    <3>a. PICK r : r = busy[i].req
      OBVIOUS
    <3>b. PICK k \in Nat : k = q.usedIdx + i - 1 /\ k < n
      BY <1>6, <3>1
    <3>2. k = q.usedIdx + i - 1 /\ r = busy[i].req /\ k < n
      BY <3>a, <3>b
    <3>3. Names(k, r)
      BY <3>2 DEF InOrder
    <3>4. r \in 1 .. m + 1 /\ (End(r - 1)' = k \/ (r = 1 /\ \A s \in 1 .. m + 1 : End(s - 1)' # k))
      <4>1. r \in 1 .. m /\ (End(r - 1) = k \/ (r = 1 /\ \A s \in 1 .. m : End(s - 1) # k))
        BY <1>3, <3>3 DEF Names
      <4>2. \A s \in 1 .. m + 1 : s = m + 1 => End(s - 1) # k
        BY <1>6, <3>2
      <4> QED
        BY <1>9, <4>1, <4>2
    <3>5. Names(k, r)'
      BY <1>6, <3>4 DEF Names
    <3> QED
      BY <1>2, <1>6, <3>2, <3>5 DEF Names
  <2> QED
    BY <2>1, <2>2
<1> QED
  BY <1>14, <1>15, <1>16

-----------------------------------------------------------------------------
(* The device *)

\* The first descriptor of a chain is the one the ring names.
LEMMA FirstOf ==
  ASSUME TypeOK, NEW h \in Slot
  PROVE  ChainAt(h)[1] = q.desc[h].buf /\ q.desc[h].buf \in Buffer /\ q.desc[h].buf.req \in 0 .. MaxRequests
<1> DEFINE Goes(n) == /\ n = Size \/ ~q.desc[(h + n - 1) % Size].more
                      /\ \A m \in 1 .. n - 1 : q.desc[(h + m - 1) % Size].more
           n0 == CHOOSE n \in 1 .. Size : Goes(n)
<1>1. h \in Nat /\ Size \in Nat \ {0} /\ h % Size = h
  BY Sizes DEF Slot
<1>2. PICK n \in 1 .. Size : ~q.desc[(h + n - 1) % Size].more /\ Runs(q.desc, h, n)
  <2>1. \E s \in Slot : ~q.desc[s].more
    BY DEF TypeOK
  <2> QED
    BY <1>1, <2>1, ChainEnds
<1>3. Goes(n)
  BY <1>2 DEF Runs
<1>4. n0 \in 1 .. Size
  <2> HIDE DEF Goes
  <2> QED
    BY <1>3
<1>5. ChainAt(h) = [i \in 1 .. n0 |-> q.desc[(h + i - 1) % Size].buf]
  BY DEF ChainAt
<1> HIDE DEF n0
<1>6. 1 \in 1 .. n0 /\ h + 1 - 1 = h
  BY <1>1, <1>4
<1>7. ChainAt(h)[1] = q.desc[h].buf
  BY <1>1, <1>5, <1>6
<1>8. q.desc[h] \in Descriptor(Buffer)
  BY DEF TypeOK, Queue
<1> QED
  BY <1>7, <1>8 DEF Descriptor, Buffer

\* What does not touch the descriptors and the available ring leaves them as they are.
LEMMA LaidStays ==
  ASSUME Laid, made' = made, q'.next = q.next, q'.avail = q.avail, q'.desc = q.desc, q'.ring = q.ring
  PROVE  Laid'
  BY DEF Laid, End

LEMMA NamesStay ==
  ASSUME made' = made, NEW k, NEW r
  PROVE  Names(k, r)' = Names(k, r)
  BY DEF Names, End

\* What the device takes.
LEMMA TakesWhat ==
  ASSUME TypeOK, Counted, Offered(q) > 0
  PROVE  /\ q.taken < q.avail /\ (q.taken + 1) % Mod = q.taken + 1 /\ q.taken + 1 \in Index
         /\ Offer(q, 0) \in Slot /\ Offer(q, 0) = q.ring[q.taken % Size]
<1>1. PICK n \in Nat, t \in Nat : n = q.avail /\ t = q.taken /\ n < Mod
  BY Ends
<1>2. Mod \in Nat /\ t <= n
  BY <1>1, Sizes DEF Counted
<1>3. n - t \in Index /\ n - t \in Nat
  BY <1>1, <1>2 DEF Index
<1>4. (n - t) % Mod = n - t
  BY <1>3, Sizes
<1>5. t < n
  BY <1>1, <1>3, <1>4 DEF Offered
<1>6. t + 1 \in Index
  BY <1>1, <1>2, <1>5 DEF Index
<1>7. (t + 1) % Mod = t + 1
  BY <1>6, Sizes
<1>8. t + 0 = t /\ t % Size \in Slot /\ q.ring \in [Slot -> Slot]
  <2>1. t \in Int /\ t + 0 = t
    BY <1>1
  <2> QED
    BY <2>1, Sizes, Ends
<1> QED
  BY <1>1, <1>5, <1>6, <1>7, <1>8 DEF Offer

\* Entry t of the ring makes the device perform the request that Names says, and another
\* than the first only if it starts there.
LEMMA TakesWhose ==
  ASSUME TypeOK, Counted, Laid, ~Wrapped, NEW t \in Nat, t < q.avail
  PROVE  /\ t % Size = t /\ t \in Slot
         /\ Names(t, q.desc[q.ring[t]].buf.req)
         /\ \A s \in 1 .. Len(made) : End(s - 1) = t => q.desc[q.ring[t]].buf.req = s
<1>1. PICK m \in Nat, n \in Nat : m = Len(made) /\ n = q.avail /\ n = End(m)
  BY Ends
<1>2. n <= Size /\ Size \in Nat
  <2>1. ~(n > Size) /\ Size \in Nat
    BY <1>1, Sizes DEF Wrapped
  <2> QED
    BY <2>1
<1>3. t \in Slot /\ t % Size = t
  <2>1. t \in Slot
    BY <1>1, <1>2 DEF Slot
  <2> QED
    BY <2>1, Sizes
<1>4. ASSUME NEW r \in 1 .. m, NEW k \in Slot, End(r - 1) = k
      PROVE  q.desc[k].buf.req = r
  <2>1. PICK p \in 0 .. m : p = r - 1 /\ r \in 0 .. m /\ p < r
    OBVIOUS
  <2>2. End(p) < End(r)
    BY <1>1, <2>1 DEF Counted
  <2>3. End(r - 1) <= k /\ k < End(r)
    BY <1>4, <2>1, <2>2, <1>1, Ends
  <2> QED
    BY <1>1, <2>3 DEF Laid
<1>5. q.ring[t] = IF \E r \in 1 .. m : End(r - 1) = t THEN t ELSE 0
  BY <1>1, <1>3 DEF Laid
<1>6. CASE \E r \in 1 .. m : End(r - 1) = t
  <2>1. q.ring[t] = t
    BY <1>5, <1>6
  <2>2. \A r \in 1 .. m : End(r - 1) = t => q.desc[q.ring[t]].buf.req = r
    BY <1>3, <1>4, <2>1
  <2> QED
    BY <1>1, <1>3, <1>6, <2>2 DEF Names
<1>7. CASE \A r \in 1 .. m : End(r - 1) # t
  <2>1. q.ring[t] = 0
    BY <1>5, <1>7
  <2>2. m # 0
    BY <1>1, Ends
  <2>3. PICK r \in 1 .. m : r = 1 /\ r - 1 = 0
    BY <2>2
  <2>4. End(r - 1) = 0 /\ 0 \in Slot
    <3>1. End(r - 1) = 0
      BY <2>3 DEF End
    <3> QED
      BY <3>1, Sizes DEF Slot
  <2>5. q.desc[0].buf.req = r
    BY <1>4, <2>4
  <2> QED
    BY <1>1, <1>3, <1>7, <2>1, <2>3, <2>5 DEF Names
<1> QED
  BY <1>6, <1>7

\* The device takes the entry of the available ring that is next, for the request that
\* Names says.
LEMMA Begins ==
  ASSUME IInv, DeviceTakes, ~broken'
  PROVE  IInv'
<1> DEFINE h == Offer(q, 0)
           r == q.desc[h].buf.req
<1>1. TypeOK /\ Counted
  BY DEF IInv
<1>2. /\ q.taken < q.avail /\ (q.taken + 1) % Mod = q.taken + 1 /\ q.taken + 1 \in Index
      /\ h \in Slot /\ h = q.ring[q.taken % Size]
  BY <1>1, TakesWhat DEF DeviceTakes
<1>3. r = ChainAt(h)[1].req /\ r \in 0 .. MaxRequests
  <2> HIDE DEF h
  <2> QED
    BY <1>1, <1>2, FirstOf
<1> HIDE DEF r, h
<1>4. /\ q' = [q EXCEPT !.taken = q.taken + 1] /\ busy' = Append(busy, [head |-> h, req |-> r])
      /\ UNCHANGED << isr, handler, made, done, taken, broken, reordered, shared >>
  BY <1>2, <1>3 DEF DeviceTakes, Take, h
<1>5. PICK m \in Nat, n \in Nat, t \in Nat, u \in Nat, b \in Nat :
         /\ m = Len(made) /\ n = q.avail /\ t = q.taken /\ u = q.usedIdx /\ b = Len(busy)
         /\ t < n /\ t = u + b
  BY <1>1, <1>2, Ends DEF Counted
<1>6. /\ q' \in Queue(Buffer) /\ q'.desc = q.desc /\ q'.ring = q.ring /\ q'.avail = q.avail
      /\ q'.next = q.next /\ q'.added = q.added /\ q'.usedIdx = u /\ q'.seen = q.seen
      /\ q'.taken = t + 1
  BY <1>1, <1>2, <1>4, <1>5 DEF TypeOK, Queue
<1>7. [head |-> h, req |-> r] \in [head : Slot, req : 0 .. MaxRequests]
  BY <1>2, <1>3
<1>8. /\ busy' \in Seq([head : Slot, req : 0 .. MaxRequests]) /\ Len(busy') = b + 1
      /\ DOMAIN busy = 1 .. b /\ DOMAIN busy' = 1 .. b + 1
      /\ \A i \in 1 .. b : busy'[i].req = busy[i].req
      /\ busy'[b + 1].req = r
  <2>1. busy \in Seq([head : Slot, req : 0 .. MaxRequests])
    BY <1>1 DEF TypeOK
  <2>e. PICK e : e = [head |-> h, req |-> r]
    OBVIOUS
  <2>2. e = [head |-> h, req |-> r] /\ e.req = r
    BY <2>e
  <2>3. /\ busy' \in Seq([head : Slot, req : 0 .. MaxRequests]) /\ Len(busy') = b + 1
        /\ \A i \in 1 .. b : busy'[i] = busy[i]
        /\ busy'[b + 1] = e
    BY <1>4, <1>5, <1>7, <2>1, <2>2, AppendProperties
  <2> QED
    BY <1>5, <2>1, <2>2, <2>3
<1>9. TypeOK'
  BY <1>1, <1>4, <1>6, <1>8 DEF TypeOK
<1>10. Counted'
  BY <1>1, <1>4, <1>5, <1>6, <1>8 DEF Counted, End
<1>11. Wrapped' = Wrapped
  BY <1>6 DEF Wrapped
<1>12. ASSUME ~Wrapped
       PROVE  Laid' /\ Once' /\ InOrder' /\ Cardinality(taken') <= Len(made')
  <2>1. Laid /\ Once /\ InOrder /\ Cardinality(taken) <= Len(made)
    BY <1>12 DEF IInv
  <2>2. Laid'
    BY <1>4, <1>6, <2>1, LaidStays
  <2>3. Names(t, r) /\ \A s \in 1 .. m : End(s - 1) = t => r = s
    <3>1. /\ t % Size = t /\ Names(t, q.desc[q.ring[t]].buf.req)
          /\ \A s \in 1 .. Len(made) : End(s - 1) = t => q.desc[q.ring[t]].buf.req = s
      BY <1>1, <1>5, <1>12, <2>1, TakesWhose
    <3>2. q.desc[q.ring[t]].buf.req = r
      BY <1>2, <1>5, <3>1 DEF r
    <3> QED
      BY <1>5, <3>1, <3>2
  <2>4. r \in 1 .. m /\ (r = 1 \/ End(r - 1) = t)
    BY <1>5, <2>3 DEF Names
  <2>5. \A s : r # s => InWork(s)' = InWork(s)
    BY <1>5, <1>8 DEF InWork
  <2>6. \A i \in DOMAIN busy' : busy'[i].req \in 1 .. m
    <3>1. \A i \in 1 .. b : busy[i].req \in 1 .. m
      BY <1>5, <1>8, <2>1 DEF Once
    <3>2. \A i \in 1 .. b : busy'[i].req \in 1 .. m
      BY <1>8, <3>1
    <3>3. busy'[b + 1].req \in 1 .. m
      BY <1>8, <2>4
    <3>4. \A i \in 1 .. b + 1 : i \in 1 .. b \/ i = b + 1
      OBVIOUS
    <3> QED
      BY <1>8, <3>2, <3>3, <3>4
  <2>7. \A s \in 1 .. m : End(s - 1)' = End(s - 1) /\ End(s - 1) \in Nat
    <3>1. ASSUME NEW s \in 1 .. m PROVE End(s - 1) \in Nat
      <4>1. PICK p \in 0 .. m : p = s - 1
        OBVIOUS
      <4> QED
        BY <1>1, <1>5, <4>1, Ends
    <3> QED
      BY <1>4, <3>1 DEF End
  <2>8. ASSUME NEW s \in Request \ {1}
        PROVE  Waits(s)' \/ (s <= m /\ (Proceeds(s)' \/ Finished(s)'))
    <3>0. s \in Nat /\ s >= 2 /\ Len(made') = m
      BY <1>4, <1>5 DEF Request
    <3>1. CASE Waits(s) /\ s # r
      <4>1. done[s] = 0 /\ InWork(s) = {} /\ (s > m \/ (s \in 1 .. m /\ End(s - 1) >= t))
        BY <1>5, <3>0, <3>1 DEF Waits
      <4>2. s > m \/ End(s - 1)' >= t + 1
        BY <1>5, <2>3, <2>7, <3>1, <4>1
      <4> QED
        BY <1>4, <1>6, <2>5, <3>0, <3>1, <4>1, <4>2 DEF Waits
    <3>2. CASE s <= m /\ (Proceeds(s) \/ Finished(s))
      <4>1. End(s - 1)' = End(s - 1) /\ End(s - 1) < t /\ End(s - 1) \in Nat
        BY <1>5, <2>7, <3>0, <3>2 DEF Proceeds, Finished
      <4>2. s # r
        BY <1>5, <2>4, <3>0, <4>1
      <4>3. InWork(s)' = InWork(s) /\ done'[s] = done[s] /\ End(s - 1)' < t + 1
        BY <1>4, <1>5, <2>5, <4>1, <4>2
      <4>4. ASSUME NEW i \in DOMAIN busy, InWork(s) = {i}
            PROVE  i \in DOMAIN busy' /\ InWork(s)' = {i}
        BY <1>8, <4>3, <4>4
      <4> QED
        BY <1>6, <3>2, <4>3, <4>4 DEF Proceeds, Finished
    <3>3. CASE Waits(s) /\ s = r
      <4>1. done'[s] = 0 /\ End(s - 1)' < t + 1
        BY <1>4, <1>5, <2>4, <2>7, <3>0, <3>3 DEF Waits
      <4>2. InWork(s)' = {b + 1}
        <5>1. \A i \in 1 .. b : busy[i].req # s
          BY <1>8, <3>3 DEF Waits, InWork
        <5>2. \A i \in 1 .. b + 1 : busy'[i].req = s <=> i = b + 1
          BY <1>5, <1>8, <3>3, <5>1
        <5> QED
          BY <1>5, <1>8, <5>2 DEF InWork
      <4>3. b + 1 \in DOMAIN busy'
        BY <1>5, <1>8
      <4> QED
        BY <1>6, <2>4, <3>3, <4>1, <4>2, <4>3 DEF Proceeds
    <3> QED
      BY <1>5, <2>1, <3>1, <3>2, <3>3 DEF Once
  <2>9. Once'
    <3>1. q'.usedIdx = done'[1] + Cardinality(Performed')
      BY <1>4, <1>5, <1>6, <2>1 DEF Once, Performed
    <3> QED
      BY <1>4, <1>5, <2>6, <2>8, <3>1 DEF Once
  <2>10. InOrder'
    <3> SUFFICES ASSUME ~reordered
                 PROVE  /\ \A s \in 1 .. m : End(s - 1)' < u => done'[s] > 0
                        /\ \A i \in 1 .. b + 1 : Names(q.usedIdx + i - 1, busy[i].req)'
      BY <1>4, <1>5, <1>6, <1>8 DEF InOrder
    <3>1. \A s \in 1 .. m : End(s - 1)' < u => done'[s] > 0
      BY <1>4, <1>5, <2>1, <2>7 DEF InOrder
    <3>2. ASSUME NEW i \in 1 .. b + 1 PROVE Names(q.usedIdx + i - 1, busy[i].req)'
      <4>0. PICK k, s : k = u + i - 1 /\ s = busy'[i].req
        OBVIOUS
      <4>1. CASE i <= b
        <5>1. i \in DOMAIN busy /\ s = busy[i].req
          BY <1>5, <1>8, <4>0, <4>1
        <5>2. Names(k, s)
          BY <1>5, <2>1, <4>0, <5>1 DEF InOrder
        <5>3. Names(k, s)'
          BY <1>4, <5>2, NamesStay
        <5> QED
          BY <1>6, <4>0, <5>3 DEF Names
      <4>2. CASE i = b + 1
        <5>1. k = t /\ s = r
          BY <1>5, <1>8, <4>0, <4>2
        <5>2. Names(k, s)'
          BY <1>4, <2>3, <5>1, NamesStay
        <5> QED
          BY <1>6, <4>0, <5>2 DEF Names
      <4> QED
        BY <4>1, <4>2
    <3> QED
      BY <3>1, <3>2
  <2> QED
    BY <1>4, <2>1, <2>2, <2>9, <2>10
<1>13. WholeRequests' /\ TakenIsDone'
  BY <1>4, <1>6, <1>11 DEF IInv, WholeRequests, TakenIsDone, End
<1> QED
  BY <1>9, <1>10, <1>11, <1>12, <1>13 DEF IInv

\* The invariant does not look at the interrupt's progress, nor at why the device stopped.
LEMMA Unmoved ==
  ASSUME IInv, UNCHANGED << q, busy, made, done, taken, reordered, shared >>,
         isr' \in BOOLEAN, handler' \in BOOLEAN, broken' \in BOOLEAN
  PROVE  IInv'
<1>1. TypeOK'
  BY DEF IInv, TypeOK
<1>2. Counted'
  BY DEF IInv, Counted, End
<1>3. Wrapped' = Wrapped
  BY DEF Wrapped
<1>4. Laid => Laid'
  BY DEF Laid, End
<1>5. Once => Once'
  BY DEF Once, Waits, Proceeds, Finished, InWork, Performed, End
<1>6. InOrder => InOrder'
  BY DEF InOrder, Names, End
<1>7. WholeRequests' /\ TakenIsDone'
  BY DEF IInv, WholeRequests, TakenIsDone, Wrapped, End
<1> QED
  BY <1>1, <1>2, <1>3, <1>4, <1>5, <1>6, <1>7 DEF IInv

LEMMA DeviceTakesKeeps ==
  ASSUME IInv, DeviceTakes
  PROVE  IInv'
<1>1. CASE ~broken'
  BY <1>1, Begins
<1>2. CASE broken'
  <2>1. ~broken
    BY DEF DeviceTakes
  <2>2. UNCHANGED << q, busy, isr, handler, made, done, taken, reordered, shared >>
    BY <1>2, <2>1 DEF DeviceTakes
  <2>3. isr' \in BOOLEAN /\ handler' \in BOOLEAN /\ broken' \in BOOLEAN
    BY <1>2, <2>2 DEF IInv, TypeOK
  <2> QED
    BY <2>2, <2>3, Unmoved
<1> QED
  BY <1>1, <1>2

LEMMA ReadIsrKeeps ==
  ASSUME IInv, ReadIsr
  PROVE  IInv'
<1>1. UNCHANGED << q, busy, made, done, taken, reordered, shared >>
  BY DEF ReadIsr
<1>2. isr' \in BOOLEAN /\ handler' \in BOOLEAN /\ broken' \in BOOLEAN
  BY DEF ReadIsr, IInv, TypeOK
<1> QED
  BY <1>1, <1>2, Unmoved

\* What is left when one member of a list is taken out.
LEMMA Removed ==
  ASSUME NEW S, NEW s \in Seq(S), NEW i \in 1 .. Len(s)
  PROVE  /\ RemoveAt(s, i) \in Seq(S) /\ Len(RemoveAt(s, i)) = Len(s) - 1
         /\ \A j \in 1 .. Len(s) - 1 : RemoveAt(s, i)[j] = IF j < i THEN s[j] ELSE s[j + 1]
<1>1. PICK a, z : a = SubSeq(s, 1, i - 1) /\ z = SubSeq(s, i + 1, Len(s))
  OBVIOUS
<1>2. PICK n \in Nat : n = Len(s)
  OBVIOUS
<1>3. a \in Seq(S) /\ Len(a) = i - 1 /\ \A j \in 1 .. i - 1 : a[j] = s[j]
  BY <1>1
<1>4. z \in Seq(S) /\ Len(z) = n - i /\ \A j \in 1 .. n - i : z[j] = s[i + j]
  BY <1>1, <1>2
<1>5. RemoveAt(s, i) = a \o z
  BY <1>1 DEF RemoveAt
<1>6. a \o z \in Seq(S) /\ Len(a \o z) = n - 1
  BY <1>2, <1>3, <1>4
<1>7. ASSUME NEW j \in 1 .. n - 1 PROVE (a \o z)[j] = IF j < i THEN s[j] ELSE s[j + 1]
  <2>1. CASE j < i
    BY <1>2, <1>3, <1>4, <2>1
  <2>2. CASE ~(j < i)
    <3>1. PICK k \in 1 .. n - i : k = j - (i - 1) /\ i + k = j + 1
      BY <1>2, <2>2
    <3>2. (a \o z)[j] = z[k]
      BY <1>2, <1>3, <1>4, <2>2, <3>1
    <3>3. z[k] = s[i + k]
      BY <1>4
    <3> QED
      BY <2>2, <3>1, <3>2, <3>3
  <2> QED
    BY <2>1, <2>2
<1> QED
  BY <1>2, <1>5, <1>6, <1>7

\* A chain is completed: the request is performed once more, and its turn is over.
LEMMA DeviceCompletesKeeps ==
  ASSUME IInv, DeviceCompletes
  PROVE  IInv'
<1>1. TypeOK /\ Counted
  BY DEF IInv
<1>2. PICK i \in DOMAIN busy :
         /\ q' = Complete(q, busy[i].head, 0)
         /\ done' = [done EXCEPT ![busy[i].req] = @ + 1]
         /\ busy' = RemoveAt(busy, i)
         /\ reordered' = (reordered \/ i > 1)
  BY DEF DeviceCompletes
<1>3. isr' = TRUE /\ UNCHANGED << handler, made, taken, broken, shared >>
  BY DEF DeviceCompletes
<1>4. PICK m \in Nat, n \in Nat, t \in Nat, u \in Nat, b \in Nat :
         /\ m = Len(made) /\ n = q.avail /\ t = q.taken /\ u = q.usedIdx /\ b = Len(busy)
         /\ t <= n /\ t = u + b /\ n < Mod
  BY <1>1, Ends DEF Counted
<1>5. /\ busy \in Seq([head : Slot, req : 0 .. MaxRequests]) /\ DOMAIN busy = 1 .. b
      /\ i \in 1 .. b /\ busy[i] \in [head : Slot, req : 0 .. MaxRequests]
  <2>1. busy \in Seq([head : Slot, req : 0 .. MaxRequests])
    BY <1>1 DEF TypeOK
  <2>2. DOMAIN busy = 1 .. b
    BY <1>4, <2>1
  <2>3. i \in 1 .. Len(busy)
    BY <1>2, <1>4, <2>2
  <2> QED
    BY <1>4, <2>1, <2>2, <2>3, ElementOfSeq
<1>i. i \in 1 .. b
  BY <1>5
<1>t. t = u + b /\ t <= n /\ n < Mod
  BY <1>4
<1>b. b >= 1 /\ b - 1 \in Nat /\ u + 1 <= t /\ u + 1 + (b - 1) = t
  BY <1>i, <1>t
<1>e. (\A s : End(s)' = End(s)) /\ Len(made') = m
  BY <1>3, <1>4 DEF End
<1>6. PICK r \in 0 .. MaxRequests : r = busy[i].req
  BY <1>5
<1>7. /\ busy' \in Seq([head : Slot, req : 0 .. MaxRequests]) /\ Len(busy') = b - 1
      /\ DOMAIN busy' = 1 .. b - 1
      /\ \A j \in 1 .. b - 1 : busy'[j] = IF j < i THEN busy[j] ELSE busy[j + 1]
  <2>1. /\ busy' \in Seq([head : Slot, req : 0 .. MaxRequests]) /\ Len(busy') = b - 1
        /\ \A j \in 1 .. b - 1 : busy'[j] = IF j < i THEN busy[j] ELSE busy[j + 1]
    BY <1>2, <1>4, <1>5, Removed
  <2> QED
    BY <1>4, <1>5, <2>1
<1>8. (u + 1) % Mod = u + 1 /\ u + 1 \in Index /\ u % Size \in Slot
  <2>1. Mod \in Nat
    BY Sizes
  <2>2. u + 1 \in Index /\ u \in Int
    BY <1>t, <1>b, <2>1 DEF Index
  <2> QED
    BY <2>2, Sizes
<1>9. /\ q' \in Queue(Buffer) /\ q'.desc = q.desc /\ q'.ring = q.ring /\ q'.avail = q.avail
      /\ q'.next = q.next /\ q'.added = q.added /\ q'.usedIdx = u + 1 /\ q'.seen = q.seen
      /\ q'.taken = q.taken
  <2>1. busy[i].head \in Slot
    BY <1>5
  <2>2. q' = [q EXCEPT !.used[u % Size] = [id |-> busy[i].head, len |-> 0], !.usedIdx = u + 1]
    BY <1>2, <1>4, <1>8 DEF Complete
  <2>3. q \in Queue(Buffer)
    BY <1>1 DEF TypeOK
  <2>4. PICK e : e = [id |-> busy[i].head, len |-> 0]
    OBVIOUS
  <2>5. e \in [id : Slot, len : Nat]
    BY <2>1, <2>4
  <2>6. q' = [q EXCEPT !.used[u % Size] = e, !.usedIdx = u + 1]
    BY <2>2, <2>4
  <2> QED
    BY <1>8, <2>3, <2>5, <2>6 DEF Queue
<1>10. /\ done \in [Request -> Nat] /\ done' \in [Request -> Nat]
       /\ \A s \in Request : done'[s] = IF s = r THEN done[s] + 1 ELSE done[s]
  <2>1. done \in [Request -> Nat]
    BY <1>1 DEF TypeOK
  <2>2. done' = [done EXCEPT ![r] = done[r] + 1]
    BY <1>2, <1>6
  <2>3. DOMAIN done' = Request /\ \A s \in Request : done'[s] = IF s = r THEN done[s] + 1 ELSE done[s]
    BY <2>1, <2>2
  <2>4. \A s \in Request : done'[s] \in Nat
    BY <2>1, <2>3
  <2>5. done' = [s \in Request |-> done'[s]]
    BY <2>1, <2>2
  <2> QED
    BY <2>1, <2>3, <2>4, <2>5
<1>11. TypeOK'
  <2>1. reordered' \in BOOLEAN
    BY <1>1, <1>2 DEF TypeOK
  <2>2. \E s \in Slot : ~q'.desc[s].more
    BY <1>1, <1>9 DEF TypeOK
  <2> QED
    BY <1>1, <1>3, <1>7, <1>9, <1>10, <2>1, <2>2 DEF TypeOK
<1>12. Counted'
  <2>1. q'.avail = End(Len(made))' /\ q'.added = 0
    BY <1>1, <1>3, <1>9 DEF Counted, End
  <2>2. q'.taken = q'.usedIdx + Len(busy') /\ q'.taken <= q'.avail
    BY <1>4, <1>b, <1>7, <1>9
  <2>3. /\ \A x, y \in 0 .. m : x < y => End(x)' < End(y)'
        /\ \A x \in 0 .. m : End(x)' <= x * (MaxSectors + 2)
    BY <1>1, <1>4, <1>e DEF Counted
  <2> QED
    BY <1>e, <2>1, <2>2, <2>3 DEF Counted
<1>13. Wrapped' = Wrapped
  BY <1>9 DEF Wrapped
<1>14. ASSUME ~Wrapped
       PROVE  Laid' /\ Once' /\ InOrder' /\ Cardinality(taken') <= Len(made')
  <2>1. Laid /\ Once /\ InOrder /\ Cardinality(taken) <= Len(made)
    BY <1>14 DEF IInv
  <2>2. Laid'
    BY <1>3, <1>9, <2>1, LaidStays
  <2>3. r \in 1 .. m /\ r \in Request
    BY <1>2, <1>4, <1>6, <2>1, Bounds DEF Once, Request
  <2>4. ASSUME NEW j \in 1 .. b - 1
        PROVE  \E k \in 1 .. b : k # i /\ busy'[j].req = busy[k].req /\ k = IF j < i THEN j ELSE j + 1
    <3>1. CASE j < i
      BY <1>5, <1>7, <3>1
    <3>2. CASE ~(j < i)
      <4>1. j + 1 \in 1 .. b /\ j + 1 # i
        BY <1>4, <1>5, <3>2
      <4> QED
        BY <1>7, <3>2, <4>1
    <3> QED
      BY <3>1, <3>2
  <2>5. \A j \in DOMAIN busy' : busy'[j].req \in 1 .. m
    <3>1. \A j \in 1 .. b : busy[j].req \in 1 .. m
      BY <1>4, <1>5, <2>1 DEF Once
    <3> QED
      BY <1>7, <2>4, <3>1
  <2>6. \A s : InWork(s) \subseteq {i} => InWork(s)' = {}
    <3>1. ASSUME NEW s, NEW j \in 1 .. b - 1, InWork(s) \subseteq {i} PROVE busy'[j].req # s
      <4>1. PICK k \in 1 .. b : k # i /\ busy'[j].req = busy[k].req
        BY <2>4
      <4>2. k \notin InWork(s)
        BY <3>1, <4>1
      <4> QED
        BY <1>5, <4>1, <4>2 DEF InWork
    <3> QED
      BY <1>7, <3>1 DEF InWork
  <2>7. ASSUME NEW s, NEW j \in DOMAIN busy, InWork(s) = {j}, j # i
        PROVE  \E k \in DOMAIN busy' : InWork(s)' = {k}
    <3>0. j \in 1 .. b
      BY <1>5
    <3>1. PICK p \in 1 .. b - 1 : j = IF p < i THEN p ELSE p + 1
      <4>1. CASE j < i
        BY <1>i, <3>0, <4>1
      <4>2. CASE j > i
        <5>1. j - 1 \in 1 .. b - 1 /\ ~(j - 1 < i) /\ j = (j - 1) + 1
          BY <1>i, <3>0, <4>2
        <5> QED
          BY <5>1
      <4> QED
        BY <1>i, <3>0, <2>7, <4>1, <4>2
    <3>2. ASSUME NEW k \in 1 .. b - 1 PROVE busy'[k].req = s <=> k = p
      <4>1. PICK l \in 1 .. b : busy'[k].req = busy[l].req /\ l = IF k < i THEN k ELSE k + 1
        BY <2>4
      <4>2. busy[l].req = s <=> l = j
        BY <1>5, <2>7 DEF InWork
      <4>3. l = j <=> k = p
        BY <1>i, <3>0, <3>1, <4>1
      <4> QED
        BY <4>1, <4>2, <4>3
    <3>3. InWork(s)' = {k \in DOMAIN busy' : busy'[k].req = s}
      BY DEF InWork
    <3>4. p \in DOMAIN busy' /\ InWork(s)' = {p}
      BY <1>7, <3>2, <3>3
    <3> QED
      BY <3>4
  <2>9. i \in InWork(r)
    BY <1>2, <1>6 DEF InWork
  <2>10. \A s : End(s - 1)' = End(s - 1)
    BY <1>3 DEF End
  <2>11. ASSUME NEW s \in Request \ {1}
         PROVE  Waits(s)' \/ (s <= m /\ (Proceeds(s)' \/ Finished(s)'))
    <3>0. Waits(s) \/ (s <= m /\ (Proceeds(s) \/ Finished(s)))
      BY <1>4, <2>1 DEF Once
    <3>1. CASE Waits(s)
      <4>1. s # r
        BY <2>9, <3>1 DEF Waits
      <4>2. done'[s] = done[s] /\ InWork(s)' = {}
        BY <1>10, <2>6, <3>1, <4>1 DEF Waits
      <4> QED
        BY <1>3, <1>9, <2>10, <3>1, <4>2 DEF Waits
    <3>2. CASE s <= m /\ Finished(s)
      <4>1. s # r
        BY <2>9, <3>2 DEF Finished
      <4>2. done'[s] = done[s] /\ InWork(s)' = {}
        BY <1>10, <2>6, <3>2, <4>1 DEF Finished
      <4> QED
        BY <1>9, <2>10, <3>2, <4>2 DEF Finished
    <3>3. CASE s <= m /\ Proceeds(s)
      <4>1. PICK j \in DOMAIN busy : InWork(s) = {j}
        BY <3>3 DEF Proceeds
      <4>2. CASE s # r
        <5>1. j # i
          BY <1>6, <4>1, <4>2 DEF InWork
        <5>2. \E k \in DOMAIN busy' : InWork(s)' = {k}
          BY <2>7, <4>1, <5>1
        <5>3. done'[s] = done[s]
          BY <1>10, <4>2
        <5> QED
          BY <1>9, <2>10, <3>3, <5>2, <5>3 DEF Proceeds
      <4>3. CASE s = r
        <5>1. InWork(s)' = {}
          <6>1. j = i
            BY <2>9, <4>1, <4>3
          <6> QED
            BY <2>6, <4>1, <4>3, <6>1
        <5>2. done'[s] = 1
          BY <1>10, <3>3, <4>3 DEF Proceeds
        <5> QED
          BY <1>9, <2>10, <3>3, <5>1, <5>2 DEF Proceeds, Finished
      <4> QED
        BY <4>2, <4>3
    <3> QED
      BY <3>0, <3>1, <3>2, <3>3
  <2>12. u + 1 = done'[1] + Cardinality(Performed')
    <3>1. IsFiniteSet(Performed) /\ Cardinality(Performed) \in Nat
      <4>1. Performed \subseteq 1 .. MaxRequests /\ MaxRequests \in Int /\ 1 \in Int
        BY Bounds DEF Performed, Request
      <4> QED
        BY <4>1, FS_Interval, FS_Subset, FS_CardinalityType
    <3>2. u = done[1] + Cardinality(Performed) /\ done[1] \in Nat
      BY <1>4, <1>10, <2>1, Bounds DEF Once
    <3>3. CASE r = 1
      <4>1. Performed' = Performed
        BY <1>10, <3>3 DEF Performed
      <4>2. done'[1] = done[1] + 1
        BY <1>10, <3>3, Bounds
      <4> QED
        BY <3>1, <3>2, <4>1, <4>2
    <3>4. CASE r # 1
      <4>1. r \in Request \ {1} /\ done[r] = 0
        <5>1. Proceeds(r)
          BY <2>1, <2>3, <2>9, <3>4 DEF Once, Waits, Finished
        <5> QED
          BY <2>3, <3>4, <5>1 DEF Proceeds
      <4>a. \A s \in Request \ {1} : done'[s] = 1 <=> (done[s] = 1 \/ s = r)
        BY <1>10, <4>1
      <4>b. Performed' = {s \in Request \ {1} : done'[s] = 1}
        BY DEF Performed
      <4>2. Performed' = Performed \cup {r} /\ r \notin Performed
        <5>1. \A s \in Request \ {1} : s \in Performed <=> done[s] = 1
          BY DEF Performed
        <5>2. \A s : s \in Performed' <=> (s \in Performed \/ s = r)
          BY <4>1, <4>a, <4>b DEF Performed
        <5>3. r \notin Performed
          BY <4>1, <5>1
        <5> QED
          BY <5>2, <5>3
      <4>3. Cardinality(Performed \cup {r}) = Cardinality(Performed) + 1
        BY <3>1, <4>2, FS_AddElement
      <4>4. done'[1] = done[1]
        BY <1>10, <3>4, Bounds
      <4> QED
        BY <3>1, <3>2, <4>2, <4>3, <4>4
    <3> QED
      BY <3>3, <3>4
  <2>13. Once'
    BY <1>3, <1>4, <1>9, <2>5, <2>11, <2>12 DEF Once
  <2>14. InOrder'
    <3> SUFFICES ASSUME ~reordered, i = 1
                 PROVE  /\ \A s \in 1 .. m : End(s - 1) < u + 1 => done'[s] > 0
                        /\ \A j \in 1 .. b - 1 : Names(q.usedIdx + j - 1, busy[j].req)'
      <4>1. ~reordered' => ~reordered /\ i = 1
        <5>1. ~reordered' => ~reordered /\ ~(i > 1)
          BY <1>2
        <5>2. ~(i > 1) => i = 1
          BY <1>i
        <5> QED
          BY <5>1, <5>2
      <4> QED
        BY <1>e, <1>7, <1>9, <2>10, <4>1 DEF InOrder
    <3>0. ~reordered /\ i = 1
      OBVIOUS
    <3>1. Names(u, r)
      <4>1. PICK k : k = u + i - 1 /\ k = u
        BY <3>0
      <4> QED
        BY <1>2, <1>4, <1>6, <2>1, <4>1 DEF InOrder
    <3>2. ASSUME NEW s \in 1 .. m, End(s - 1) < u + 1 PROVE done'[s] > 0
      <4>0. s \in Request /\ done[s] \in Nat /\ s - 1 \in 0 .. m
        <5>1. m <= MaxRequests /\ MaxRequests \in Nat
          BY <1>1, <1>4, BlockAssumption DEF TypeOK
        <5>2. s \in Request /\ s - 1 \in 0 .. m
          BY <5>1 DEF Request
        <5> QED
          BY <1>10, <5>2
      <4>1. End(s - 1) \in Nat
        BY <1>1, <1>4, <4>0, Ends
      <4>2. CASE End(s - 1) < u
        <5>1. done[s] > 0
          BY <1>4, <2>1, <4>2 DEF InOrder
        <5> QED
          BY <1>10, <4>0, <5>1
      <4>3. CASE End(s - 1) = u
        <5>1. End(r - 1) = u
          BY <1>4, <3>1, <4>3 DEF Names
        <5>2. r - 1 \in 0 .. m
          BY <2>3
        <5>3. s - 1 = r - 1
          BY <1>1, <1>4, <4>0, <4>3, <5>1, <5>2, EndsGrow
        <5>4. s = r
          BY <2>3, <5>3
        <5> QED
          BY <1>10, <4>0, <5>4
      <4> QED
        BY <1>4, <3>2, <4>1, <4>2, <4>3
    <3>3. ASSUME NEW j \in 1 .. b - 1 PROVE Names(q.usedIdx + j - 1, busy[j].req)'
      <4>a. PICK p \in 1 .. b : p = j + 1
        BY <1>4
      <4>b. PICK k, s : k = u + p - 1 /\ s = busy[p].req
        OBVIOUS
      <4>1. p = j + 1 /\ k = u + p - 1 /\ s = busy[p].req
        BY <4>a, <4>b
      <4>2. s = busy'[j].req /\ k = (u + 1) + j - 1
        <5>1. j + 1 = p /\ ~(j < i) /\ (u + 1) + j - 1 = k
          BY <1>4, <3>0, <4>1
        <5>2. busy'[j] = busy[p]
          BY <1>7, <5>1
        <5> QED
          BY <4>1, <5>1, <5>2
      <4>3. Names(k, s)
        BY <1>4, <1>5, <2>1, <4>1 DEF InOrder
      <4>4. Names(k, s)'
        BY <1>3, <4>3, NamesStay
      <4> QED
        BY <1>9, <4>2, <4>4 DEF Names
    <3> QED
      BY <3>2, <3>3
  <2> QED
    BY <1>3, <2>1, <2>2, <2>13, <2>14
<1>15. WholeRequests'
  BY <1>3, <1>9, <1>13 DEF IInv, WholeRequests, End
<1>16. TakenIsDone'
  <2> SUFFICES ASSUME ~reordered, ~Wrapped, NEW s \in taken
               PROVE  s \in Request /\ done'[s] > 0
    BY <1>2, <1>3, <1>13 DEF TakenIsDone
  <2>1. s \in Request /\ done[s] > 0
    BY DEF IInv, TakenIsDone
  <2> QED
    BY <1>10, <2>1
<1> QED
  BY <1>11, <1>12, <1>13, <1>14, <1>15, <1>16 DEF IInv

\* A request that is made disturbs nothing.
LEMMA AsksKeep ==
  ASSUME IInv, Flush \/ Read \/ Write
  PROVE  IInv'
<1>1. TypeOK /\ Counted
  BY DEF IInv
<1>2. PICK list : IsList(list) /\ Ask(list)
  BY <1>1, Asks
<1>3. Asked(list) /\ TypeOK' /\ Counted'
  BY <1>1, <1>2, AskCounts
<1>4. UNCHANGED << done, taken, reordered >>
  BY <1>2 DEF Ask
<1>5. PICK m \in Nat, n \in Nat, l \in Nat : m = Len(made) /\ n = q.avail /\ l = Len(list) /\ l >= 2
  <2>1. PICK l \in Nat : l = Len(list) /\ l >= 2
    BY <1>2, BlockAssumption DEF IsList
  <2> QED
    BY <1>1, <2>1, Ends
<1>6. q'.avail = n + l /\ q'.seen = q.seen /\ Len(made') = m + 1
  BY <1>3, <1>5 DEF Asked
<1>7. ASSUME ~Wrapped' PROVE ~Wrapped
  <2>1. Size \in Nat /\ ~(n + l > Size)
    BY <1>6, <1>7, Sizes DEF Wrapped
  <2>2. ~(n > Size)
    BY <1>5, <2>1
  <2> QED
    BY <1>5, <2>2 DEF Wrapped
<1>8. ASSUME ~Wrapped'
      PROVE  Laid' /\ Once' /\ InOrder' /\ Cardinality(taken') <= Len(made')
  <2>1. Laid /\ Once /\ InOrder /\ Cardinality(taken) <= m
    BY <1>5, <1>7, <1>8 DEF IInv
  <2>2. taken \subseteq 0 .. MaxRequests /\ 0 \in Int /\ MaxRequests \in Int
    BY <1>1, Bounds DEF TypeOK
  <2>3. Cardinality(taken) \in Nat
    BY <2>2, FS_Interval, FS_Subset, FS_CardinalityType
  <2>4. Cardinality(taken) <= m + 1
    BY <2>1, <2>3
  <2> QED
    BY <1>1, <1>2, <1>4, <1>6, <1>8, <2>1, <2>4, AskKeeps
<1>9. WholeRequests'
  <2> SUFFICES ASSUME ~Wrapped'
               PROVE  taken' = 1 .. Cardinality(taken') /\ q'.seen = End(Cardinality(taken))'
    BY DEF WholeRequests
  <2>0. taken = 1 .. Cardinality(taken) /\ q.seen = End(Cardinality(taken)) /\ Cardinality(taken) <= m
    BY <1>5, <1>7 DEF IInv, WholeRequests
  <2>1. taken \subseteq 0 .. MaxRequests /\ 0 \in Int /\ MaxRequests \in Int
    BY <1>1, Bounds DEF TypeOK
  <2>2. PICK c \in Nat : c = Cardinality(taken)
    BY <2>1, FS_Interval, FS_Subset, FS_CardinalityType
  <2>3. c \in 0 .. m + 1 /\ c <= m
    BY <2>0, <2>2
  <2>4. End(c)' = End(c)
    BY <1>3, <1>5, <2>3 DEF Asked
  <2> QED
    BY <1>4, <1>6, <2>0, <2>2, <2>4 DEF End
<1>10. TakenIsDone'
  BY <1>4, <1>7 DEF IInv, TakenIsDone
<1> QED
  BY <1>3, <1>8, <1>9, <1>10 DEF IInv

-----------------------------------------------------------------------------
(* The interrupt *)

\* The chain at the driver's place ends.
LEMMA ChainLengthType ==
  ASSUME TypeOK
  PROVE  /\ ChainLength(q) \in 1 .. Size
         /\ ~q.desc[(q.seen + ChainLength(q) - 1) % Size].more
         /\ Runs(q.desc, q.seen, ChainLength(q))
<1> DEFINE Goes(n) == /\ ~q.desc[(q.seen + n - 1) % Size].more
                      /\ \A m \in 1 .. n - 1 : q.desc[(q.seen + m - 1) % Size].more
<1>1. (\E s \in Slot : ~q.desc[s].more) /\ q.seen \in Nat
  BY DEF TypeOK, Queue, Index
<1>2. PICK n \in 1 .. Size : Goes(n)
  BY <1>1, ChainEnds DEF Runs
<1>3. ChainLength(q) = CHOOSE k \in 1 .. Size : Goes(k)
  BY DEF ChainLength
<1>4. ChainLength(q) \in 1 .. Size /\ Goes(ChainLength(q))
  <2> HIDE DEF Goes
  <2> QED
    BY <1>2, <1>3
<1> QED
  BY <1>4 DEF Runs

\* What is taken is the request after the last one taken, to its end.
LEMMA TakesWhole ==
  ASSUME IInv, ~Wrapped, NumHeads(q) > 0, NEW c, c = Cardinality(taken)
  PROVE  /\ c \in 0 .. Len(made) - 1 /\ q.seen = End(c) /\ q.seen < q.usedIdx
         /\ q.seen + ChainLength(q) = End(c + 1)
         /\ \A i \in 1 .. ChainLength(q) : q.desc[(q.seen + i - 1) % Size].buf.req = c + 1
<1>1. TypeOK /\ Counted /\ Laid /\ WholeRequests /\ Cardinality(taken) <= Len(made)
  BY DEF IInv
<1>2. PICK m \in Nat, n \in Nat, t \in Nat, u \in Nat, b \in Nat, x \in Nat :
         /\ m = Len(made) /\ n = q.avail /\ t = q.taken /\ u = q.usedIdx /\ b = Len(busy)
         /\ t <= n /\ t = u + b /\ n = End(m) /\ x = q.seen
  BY <1>1, Ends DEF Counted
<1>3. x < u
  BY <1>2 DEF NumHeads
<1>4. taken \subseteq 0 .. MaxRequests /\ 0 \in Int /\ MaxRequests \in Int
  BY <1>1, Bounds DEF TypeOK
<1>5. c \in Nat /\ c <= m /\ x = End(c)
  <2>1. Cardinality(taken) \in Nat
    BY <1>4, FS_Interval, FS_Subset, FS_CardinalityType
  <2>2. q.seen = End(Cardinality(taken))
    BY <1>1 DEF WholeRequests
  <2> QED
    BY <1>1, <1>2, <2>1, <2>2
<1>6. c # m
  BY <1>2, <1>3, <1>5
<1>7. c \in 0 .. m - 1 /\ c \in 0 .. m /\ c + 1 \in 1 .. m /\ c + 1 \in 0 .. m /\ m \in 0 .. m
  BY <1>5, <1>6
<1>8. PICK r \in 1 .. m : r = c + 1 /\ r - 1 = c
  BY <1>7
<1>9. PICK e \in Nat : e = End(r) /\ x < e /\ e <= n
  <2>1. r \in 0 .. m /\ c < r
    BY <1>7, <1>8
  <2>2. End(r) \in Nat /\ End(r) <= End(m)
    BY <1>1, <1>2, <1>7, <2>1, Ends, EndsGrow
  <2>3. End(c) < End(r)
    BY <1>1, <1>2, <1>7, <2>1 DEF Counted
  <2> QED
    BY <1>2, <1>5, <2>2, <2>3
<1>10. Size \in Nat /\ n <= Size
  <2>1. Size \in Nat /\ ~(n > Size)
    BY <1>2, Sizes DEF Wrapped
  <2> QED
    BY <2>1
<1>11. ASSUME NEW k \in Nat, x <= k, k < e
       PROVE  /\ k \in Slot /\ k % Size = k /\ q.desc[k].buf.req = r
              /\ q.desc[k].more <=> k + 1 < e
  <2>1. k \in Slot
    BY <1>9, <1>10, <1>11 DEF Slot
  <2>2. End(r - 1) <= k /\ k < End(r)
    BY <1>5, <1>8, <1>9, <1>11
  <2> QED
    BY <1>1, <1>2, <1>9, <2>1, <2>2, Sizes DEF Laid
<1>12. PICK l \in Nat : l = ChainLength(q) /\ l >= 1
  BY <1>1, <1>10, ChainLengthType
<1>13. /\ ~q.desc[(x + l - 1) % Size].more
       /\ \A i \in 1 .. l - 1 : q.desc[(x + i - 1) % Size].more
  BY <1>1, <1>2, <1>12, ChainLengthType DEF Runs
<1>14. ~(l < e - x)
  <2> SUFFICES ASSUME l < e - x PROVE FALSE
    OBVIOUS
  <2>1. PICK k \in Nat : k = x + l - 1 /\ x <= k /\ k < e /\ k + 1 < e
    BY <1>9, <1>12
  <2> QED
    BY <1>11, <1>13, <2>1
<1>15. ~(l > e - x)
  <2> SUFFICES ASSUME l > e - x PROVE FALSE
    OBVIOUS
  <2>1. PICK i \in 1 .. l - 1 : i = e - x
    BY <1>9, <1>12
  <2>2. PICK k \in Nat : k = x + i - 1 /\ x <= k /\ k < e /\ ~(k + 1 < e)
    BY <1>9, <2>1
  <2> QED
    BY <1>11, <1>13, <2>2
<1>16. x + l = e
  BY <1>9, <1>12, <1>14, <1>15
<1>17. ASSUME NEW i \in 1 .. l PROVE q.desc[(x + i - 1) % Size].buf.req = r
  <2>1. PICK k \in Nat : k = x + i - 1 /\ x <= k /\ k < e
    BY <1>16
  <2> QED
    BY <1>11, <2>1
<1> QED
  BY <1>2, <1>3, <1>5, <1>7, <1>8, <1>9, <1>12, <1>16, <1>17

LEMMA TakeChainKeeps ==
  ASSUME IInv, TakeChain
  PROVE  IInv'
<1>1. CASE ~(NumHeads(q) > 0)
  <2>1. UNCHANGED << q, busy, made, done, taken, reordered, shared >>
    BY <1>1 DEF TakeChain
  <2>2. isr' \in BOOLEAN /\ handler' \in BOOLEAN /\ broken' \in BOOLEAN
    BY DEF TakeChain, IInv, TypeOK
  <2> QED
    BY <2>1, <2>2, Unmoved
<1>2. CASE NumHeads(q) > 0
  <2>1. TypeOK /\ Counted
    BY DEF IInv
  <2>2. PICK l \in 1 .. Size : l = ChainLength(q)
    BY <2>1, ChainLengthType
  <2>3. /\ q' = Dequeue(q) /\ handler' = FALSE
        /\ taken' = taken \cup {b.buf.req : b \in ToSet(Dequeued(q))}
        /\ shared' = (shared \/ NumHeads(Dequeue(q)) > 0)
        /\ UNCHANGED << busy, isr, made, done, broken, reordered >>
    BY <1>2 DEF TakeChain
  <2>4. PICK x \in Nat : x = q.seen
    BY <2>1, Ends
  <2>5. (x + l) % Mod \in Index /\ x % Size \in Slot /\ \A i \in 1 .. l : (x + i - 1) % Size \in Slot
    <3>1. l \in Int /\ x + l \in Int /\ x \in Int /\ \A i \in 1 .. l : x + i - 1 \in Int
      BY Sizes
    <3> QED
      BY <3>1, Sizes
  <2>6. /\ q' \in Queue(Buffer) /\ q'.desc = q.desc /\ q'.ring = q.ring /\ q'.avail = q.avail
        /\ q'.next = q.next /\ q'.added = q.added /\ q'.usedIdx = q.usedIdx
        /\ q'.taken = q.taken /\ q'.seen = (x + l) % Mod
    <3>1. q \in Queue(Buffer)
      BY <2>1 DEF TypeOK
    <3>2. PICK e : e = [id |-> 0, len |-> 0]
      OBVIOUS
    <3>3. 0 \in Slot
      BY Sizes DEF Slot
    <3>4. e \in [id : Slot, len : Nat]
      BY <3>2, <3>3
    <3>5. q' = [q EXCEPT !.seen = (x + l) % Mod, !.used[x % Size] = e]
      BY <2>2, <2>3, <2>4, <3>2 DEF Dequeue
    <3> QED
      BY <2>5, <3>1, <3>4, <3>5 DEF Queue
  <2>7. {b.buf.req : b \in ToSet(Dequeued(q))} = {q.desc[(x + i - 1) % Size].buf.req : i \in 1 .. l}
    <3>1. Dequeued(q) = [i \in 1 .. l |-> [buf |-> q.desc[(x + i - 1) % Size].buf,
                                           len |-> q.used[(x + i - 1) % Size].len]]
      BY <2>2, <2>4 DEF Dequeued
    <3>2. \A i \in 1 .. l : Dequeued(q)[i].buf = q.desc[(x + i - 1) % Size].buf
      BY <3>1
    <3>3. DOMAIN Dequeued(q) = 1 .. l
      BY <3>1
    <3>4. ToSet(Dequeued(q)) = {Dequeued(q)[i] : i \in 1 .. l}
      BY <3>3 DEF ToSet
    <3>5. PICK D : D = Dequeued(q)
      OBVIOUS
    <3>6. {b.buf.req : b \in {D[i] : i \in 1 .. l}} = {D[i].buf.req : i \in 1 .. l}
      OBVIOUS
    <3>7. {D[i].buf.req : i \in 1 .. l} = {q.desc[(x + i - 1) % Size].buf.req : i \in 1 .. l}
      BY <3>2, <3>5
    <3> QED
      BY <3>4, <3>5, <3>6, <3>7
  <2>8. taken' \subseteq 0 .. MaxRequests
    <3>1. \A s \in Slot : q.desc[s].buf.req \in 0 .. MaxRequests
      <4>1. \A s \in Slot : q.desc[s] \in Descriptor(Buffer)
        BY <2>1, Ends
      <4>2. \A s \in Slot : q.desc[s].buf \in Buffer
        BY <4>1 DEF Descriptor
      <4> QED
        BY <4>2 DEF Buffer
    <3>2. \A i \in 1 .. l : q.desc[(x + i - 1) % Size].buf.req \in 0 .. MaxRequests
      BY <2>5, <3>1
    <3> QED
      BY <2>1, <2>3, <2>7, <3>2 DEF TypeOK
  <2>9. TypeOK'
    <3>1. handler' \in BOOLEAN /\ shared' \in BOOLEAN
      BY <2>1, <2>3 DEF TypeOK
    <3> QED
      BY <2>1, <2>3, <2>6, <2>8, <3>1 DEF TypeOK
  <2>10. Counted'
    BY <2>1, <2>3, <2>6 DEF Counted, End
  <2>11. Wrapped' = Wrapped
    BY <2>6 DEF Wrapped
  <2>12. ASSUME ~Wrapped
         PROVE  /\ Laid' /\ Once' /\ InOrder' /\ Cardinality(taken') <= Len(made')
                /\ taken' = 1 .. Cardinality(taken') /\ q'.seen = End(Cardinality(taken))'
                /\ ~reordered => \A r \in taken' : r \in Request /\ done[r] > 0
    <3>1. Laid /\ Once /\ InOrder /\ taken = 1 .. Cardinality(taken)
      BY <2>12 DEF IInv, WholeRequests
    <3>2. PICK c : c = Cardinality(taken)
      OBVIOUS
    <3>3. PICK m \in Nat : m = Len(made)
      BY <2>1, Ends
    <3>4. /\ c \in 0 .. m - 1 /\ x = End(c) /\ x < q.usedIdx /\ x + l = End(c + 1)
          /\ \A i \in 1 .. l : q.desc[(x + i - 1) % Size].buf.req = c + 1
      BY <1>2, <2>2, <2>4, <2>12, <3>2, <3>3, TakesWhole
    <3>5. PICK r \in 1 .. m : r = c + 1 /\ c = r - 1
      BY <3>4
    <3>6. taken' = 1 .. r
      <4>1. {q.desc[(x + i - 1) % Size].buf.req : i \in 1 .. l} = {r}
        <5>1. 1 \in 1 .. l
          BY <2>2, Sizes
        <5> QED
          BY <3>4, <3>5, <5>1
      <4>2. taken' = 1 .. c \cup {r}
        BY <2>3, <2>7, <3>1, <3>2, <4>1
      <4>3. 1 .. c \cup {r} = 1 .. r
        BY <3>4, <3>5
      <4> QED
        BY <4>2, <4>3
    <3>7. Cardinality(taken') = r
      <4>1. r \in Int /\ 1 \in Int /\ ~(1 > r) /\ r - 1 + 1 = r
        BY <3>5
      <4> QED
        BY <3>6, <4>1, FS_Interval
    <3>8. q'.seen = End(r)
      <4>1. End(r) \in Nat /\ End(r) <= End(m) /\ End(m) < Mod
        <5>1. r \in 0 .. m /\ m \in 0 .. m
          OBVIOUS
        <5> QED
          BY <2>1, <3>3, <5>1, Ends, EndsGrow
      <4>2. Mod \in Nat /\ End(m) \in Nat
        <5>1. m \in 0 .. m
          OBVIOUS
        <5> QED
          BY <2>1, <3>3, <5>1, Sizes, Ends
      <4>3. End(r) \in Index
        BY <4>1, <4>2 DEF Index
      <4>4. x + l = End(r)
        BY <3>4, <3>5
      <4> QED
        BY <2>6, <4>3, <4>4, Sizes
    <3>9. q'.seen = End(Cardinality(taken))'
      BY <2>3, <3>7, <3>8 DEF End
    <3>10. Cardinality(taken') <= Len(made')
      BY <2>3, <3>3, <3>5, <3>7
    <3>11. Laid'
      BY <2>3, <2>6, <3>1, LaidStays
    <3>12. Once'
      BY <2>3, <2>6, <3>1 DEF Once, Waits, Proceeds, Finished, InWork, Performed, End
    <3>13. InOrder'
      BY <2>3, <2>6, <3>1 DEF InOrder, Names, End
    <3>14. ASSUME ~reordered, NEW s \in taken' PROVE s \in Request /\ done[s] > 0
      <4>1. CASE s = r
        <5>1. r \in Request
          <6>1. m <= MaxRequests /\ MaxRequests \in Nat
            BY <2>1, <3>3, Bounds DEF TypeOK
          <6> QED
            BY <3>5, <6>1 DEF Request
        <5>2. End(r - 1) < q.usedIdx
          BY <3>4, <3>5
        <5>3. done[r] > 0
          BY <3>1, <3>3, <3>14, <5>2 DEF InOrder
        <5> QED
          BY <4>1, <5>1, <5>3
      <4>2. CASE s # r
        <5>1. s \in 1 .. c
          BY <3>4, <3>5, <3>6, <4>2
        <5>2. s \in taken
          BY <3>1, <3>2, <5>1
        <5> QED
          BY <2>12, <3>14, <5>2 DEF IInv, TakenIsDone
      <4> QED
        BY <4>1, <4>2
    <3>15. taken' = 1 .. Cardinality(taken')
      BY <3>6, <3>7
    <3> QED
      BY <3>9, <3>10, <3>11, <3>12, <3>13, <3>14, <3>15
  <2>13. WholeRequests' /\ TakenIsDone'
    BY <2>3, <2>11, <2>12 DEF WholeRequests, TakenIsDone
  <2> QED
    BY <2>9, <2>10, <2>11, <2>12, <2>13 DEF IInv
<1> QED
  BY <1>1, <1>2

-----------------------------------------------------------------------------
(* The invariant *)

LEMMA Starts ==
  ASSUME Init
  PROVE  IInv
<1>1. 0 \in Slot /\ 0 \in Index /\ Size \in Nat \ {0}
  BY Sizes DEF Slot, Index
<1>2. None \in Buffer
  <2>1. 0 \in 0 .. MaxRequests /\ FALSE \in BOOLEAN
    BY Bounds
  <2> QED
    BY <2>1, BindType DEF None
<1>3. PICK e, d : e = [id |-> 0, len |-> 0] /\ d = [buf |-> None, more |-> FALSE]
  OBVIOUS
<1>4. e \in [id : Slot, len : Nat] /\ d \in Descriptor(Buffer) /\ ~d.more
  BY <1>1, <1>2, <1>3 DEF Descriptor
<1>5. q = [desc |-> [i \in Slot |-> d], ring |-> [i \in Slot |-> 0], avail |-> 0,
           used |-> [i \in Slot |-> e], usedIdx |-> 0,
           next |-> 0, added |-> 0, seen |-> 0, taken |-> 0]
  BY <1>3 DEF Init, NewQueue
<1>6. q \in Queue(Buffer)
  BY <1>1, <1>4, <1>5 DEF Queue
<1>7. /\ q.desc = [i \in Slot |-> d] /\ q.ring = [i \in Slot |-> 0] /\ q.avail = 0 /\ q.usedIdx = 0
      /\ q.next = 0 /\ q.added = 0 /\ q.seen = 0 /\ q.taken = 0
  BY <1>5
<1>8. /\ busy = << >> /\ made = << >> /\ Len(busy) = 0 /\ Len(made) = 0 /\ DOMAIN busy = {}
      /\ taken = {} /\ reordered = FALSE
      /\ done \in [Request -> Nat] /\ \A r \in Request : done[r] = 0
  BY DEF Init
<1>9. TypeOK
  <2>1. \E s \in Slot : ~q.desc[s].more
    BY <1>1, <1>4, <1>7
  <2>2. /\ busy \in Seq([head : Slot, req : 0 .. MaxRequests]) /\ made \in Seq(Nat)
        /\ Len(made) <= MaxRequests /\ taken \subseteq 0 .. MaxRequests
    BY <1>8, Bounds
  <2>3. /\ isr \in BOOLEAN /\ handler \in BOOLEAN
        /\ broken \in BOOLEAN /\ reordered \in BOOLEAN /\ shared \in BOOLEAN
    BY DEF Init
  <2> QED
    BY <1>6, <1>8, <2>1, <2>2, <2>3 DEF TypeOK
<1>10. End(0) = 0 /\ 0 * (MaxSectors + 2) = 0
  BY Bounds DEF End
<1>11. Counted
  BY <1>7, <1>8, <1>10 DEF Counted
<1>12. Laid
  BY <1>1, <1>7, <1>8, Sizes DEF Laid
<1>13. Once
  <2>1. \A r : InWork(r) = {}
    BY <1>8 DEF InWork
  <2>2. Performed = {}
    BY <1>8 DEF Performed
  <2>3. Cardinality(Performed) = 0
    BY <2>2, FS_EmptySet
  <2>4. ASSUME NEW r \in Request \ {1} PROVE Waits(r)
    <3>1. r > Len(made)
      BY <1>8 DEF Request
    <3> QED
      BY <1>8, <2>1, <3>1 DEF Waits
  <2> QED
    BY <1>7, <1>8, <2>3, <2>4, Bounds DEF Once
<1>14. InOrder
  BY <1>7, <1>8 DEF InOrder
<1>15. Cardinality(taken) = 0
  BY <1>8, FS_EmptySet
<1>16. WholeRequests /\ TakenIsDone
  <2>1. taken = 1 .. Cardinality(taken)
    BY <1>8, <1>15
  <2> QED
    BY <1>7, <1>8, <1>10, <1>15, <2>1 DEF WholeRequests, TakenIsDone
<1> QED
  BY <1>8, <1>9, <1>11, <1>12, <1>13, <1>14, <1>15, <1>16 DEF IInv

LEMMA StepKeeps ==
  ASSUME IInv, [Next]_vars
  PROVE  IInv'
<1>1. CASE Flush \/ Read \/ Write
  BY <1>1, AsksKeep
<1>2. CASE DeviceTakes
  BY <1>2, DeviceTakesKeeps
<1>3. CASE DeviceCompletes
  BY <1>3, DeviceCompletesKeeps
<1>4. CASE ReadIsr
  BY <1>4, ReadIsrKeeps
<1>5. CASE TakeChain
  BY <1>5, TakeChainKeeps
<1>6. CASE UNCHANGED vars
  <2>1. UNCHANGED << q, busy, made, done, taken, reordered, shared >>
    BY <1>6 DEF vars
  <2>2. isr' \in BOOLEAN /\ handler' \in BOOLEAN /\ broken' \in BOOLEAN
    BY <1>6 DEF vars, IInv, TypeOK
  <2> QED
    BY <2>1, <2>2, Unmoved
<1> QED
  BY <1>1, <1>2, <1>3, <1>4, <1>5, <1>6 DEF Next

\* The invariant of the block driver's queue, its requests and the chains in the device's
\* hands holds in every reachable state: the steps of virtio_queue_enqueue, kick and
\* dequeue and of bdev_interrupt, in any order the device allows, all keep it.
THEOREM BlockInvariance == Spec => []IInv
<1>1. Init => IInv
  BY Starts
<1>2. IInv /\ [Next]_vars => IInv'
  BY StepKeeps
<1> QED
  BY <1>1, <1>2, PTL DEF Spec

\* What bdev_interrupt takes from the queue has been performed.
THEOREM TakenWasDone == Spec => []TakenIsDone
<1>1. IInv => TakenIsDone
  BY DEF IInv
<1> QED
  BY <1>1, BlockInvariance, PTL

\* bdev_interrupt takes whole requests, in the order in which they were made.
THEOREM TakesWholeRequests == Spec => []WholeRequests
<1>1. IInv => WholeRequests
  BY DEF IInv
<1> QED
  BY <1>1, BlockInvariance, PTL

\* As long as nothing has been used twice, every request but the first is performed once
\* at the most, and the first no more often than there are entries that are nobody's: the
\* requests that are not yet performed have as many entries of the ring ahead of them.
LEMMA EachOnce ==
  ASSUME IInv
  PROVE  OnceEach
<1> SUFFICES ASSUME ~Wrapped
             PROVE  /\ \A r \in Request \ {1} : done[r] <= 1
                    /\ done[1] <= q.avail - (Len(made) - 1)
  BY DEF OnceEach
<1>1. TypeOK /\ Counted /\ Once
  BY DEF IInv
<1>2. PICK m \in Nat, n \in Nat, t \in Nat, u \in Nat, b \in Nat :
         /\ m = Len(made) /\ n = q.avail /\ t = q.taken /\ u = q.usedIdx /\ b = Len(busy)
         /\ t <= n /\ t = u + b /\ n = End(m) /\ m <= MaxRequests
  BY <1>1, Ends, Bounds DEF Counted
<1>3. done \in [Request -> Nat] /\ DOMAIN busy = 1 .. b
  BY <1>1, <1>2 DEF TypeOK
<1>4. ASSUME NEW r \in Request \ {1}
      PROVE  done[r] \in {0, 1} /\ (r > m => done[r] = 0)
  <2>1. Waits(r) \/ (r <= m /\ (Proceeds(r) \/ Finished(r)))
    BY <1>1, <1>2, <1>4 DEF Once
  <2>2. r \in Nat
    BY <1>4 DEF Request
  <2> QED
    BY <1>2, <2>1, <2>2 DEF Waits, Proceeds, Finished
<1>5. \A r \in Request \ {1} : done[r] <= 1
  BY <1>4
<1> DEFINE N == {r \in 2 .. m : done[r] = 0}
           T == u .. n - 1
           at(r) == CHOOSE i \in DOMAIN busy : InWork(r) = {i}
           f == [r \in N |-> IF InWork(r) = {} THEN End(r - 1) ELSE u + at(r) - 1]
<1>6. \A r \in 2 .. m : r \in Request \ {1} /\ r - 1 \in 0 .. m /\ r \in 0 .. m
  BY <1>2, Bounds DEF Request
<1>7. ASSUME NEW r \in N
      PROVE  \/ InWork(r) = {} /\ f[r] = End(r - 1) /\ End(r - 1) \in t .. n - 1
             \/ \E i \in 1 .. b : InWork(r) = {i} /\ f[r] = u + i - 1 /\ i = at(r)
  <2>0. r \in 2 .. m /\ done[r] = 0 /\ r \in Request \ {1}
    BY <1>6
  <2>1. Waits(r) \/ Proceeds(r)
    BY <1>1, <2>0 DEF Once, Finished
  <2>2. CASE Waits(r)
    <3>1. InWork(r) = {} /\ End(r - 1) >= t
      BY <1>2, <2>0, <2>2 DEF Waits
    <3>2. PICK p \in 0 .. m : p = r - 1 /\ p < m /\ m \in 0 .. m
      BY <2>0
    <3>3. End(p) < End(m) /\ End(p) \in Nat
      BY <1>1, <1>2, <3>2, Ends DEF Counted
    <3> QED
      BY <1>2, <3>1, <3>2, <3>3
  <2>3. CASE Proceeds(r)
    <3>1. \E i \in DOMAIN busy : InWork(r) = {i}
      BY <2>3 DEF Proceeds
    <3>2. at(r) \in DOMAIN busy /\ InWork(r) = {at(r)}
      BY <3>1
    <3> QED
      BY <1>3, <3>2
  <2> QED
    BY <2>1, <2>2, <2>3
<1> HIDE DEF f, at
<1>8. ASSUME NEW r \in N PROVE f[r] \in T
  <2>1. CASE f[r] \in t .. n - 1
    BY <1>2, <2>1
  <2>2. ASSUME NEW i \in 1 .. b, f[r] = u + i - 1 PROVE f[r] \in T
    BY <1>2, <2>2
  <2> QED
    BY <1>7, <2>1, <2>2
<1>9. f \in [N -> T]
  BY <1>8 DEF f
<1>10. ASSUME NEW r \in N, NEW s \in N, f[r] = f[s]
       PROVE  r = s
  <2>1. CASE InWork(r) = {} /\ InWork(s) = {}
    <3>1. End(r - 1) = End(s - 1)
      BY <1>7, <1>10, <2>1
    <3>2. r - 1 \in 0 .. m /\ s - 1 \in 0 .. m
      BY <1>6
    <3>3. r - 1 = s - 1
      BY <1>1, <1>2, <3>1, <3>2, EndsGrow
    <3> QED
      BY <3>3
  <2>2. CASE InWork(r) # {} /\ InWork(s) # {}
    <3>1. PICK i \in 1 .. b : InWork(r) = {i} /\ f[r] = u + i - 1
      BY <1>7, <2>2
    <3>2. PICK j \in 1 .. b : InWork(s) = {j} /\ f[s] = u + j - 1
      BY <1>7, <2>2
    <3>3. i = j
      <4>1. u + i - 1 = u + j - 1 /\ u \in Nat
        BY <1>10, <3>1, <3>2
      <4> QED
        BY <4>1
    <3>4. i \in InWork(r) /\ i \in InWork(s)
      BY <3>1, <3>2, <3>3
    <3> QED
      BY <3>4 DEF InWork
  <2>3. ASSUME NEW x \in N, NEW y \in N, InWork(x) = {}, InWork(y) # {}
        PROVE  f[x] # f[y]
    <3>1. f[x] \in t .. n - 1
      BY <1>7, <2>3
    <3>2. PICK j \in 1 .. b : f[y] = u + j - 1
      BY <1>7, <2>3
    <3>3. t = u + b
      BY <1>2
    <3> QED
      BY <3>1, <3>2, <3>3
  <2> QED
    BY <1>10, <2>1, <2>2, <2>3
<1> HIDE DEF N, T
<1>11. Cardinality(N) <= n - u /\ IsFiniteSet(N) /\ Cardinality(N) \in Nat
  <2>1. IsFiniteSet(N)
    <3>1. N \subseteq 2 .. m /\ 2 \in Int /\ m \in Int
      BY DEF N
    <3> QED
      BY <3>1, FS_Interval, FS_Subset
  <2>2. IsFiniteSet(T) /\ Cardinality(T) = n - u
    <3>1. u \in Int /\ n - 1 \in Int /\ u <= n
      BY <1>2
    <3>2. IsFiniteSet(u .. n - 1) /\ Cardinality(u .. n - 1) = IF u > n - 1 THEN 0 ELSE n - 1 - u + 1
      BY <3>1, FS_Interval
    <3> QED
      BY <3>1, <3>2 DEF T
  <2>3. Cardinality(N) \in Nat /\ Cardinality(T) \in Nat
    BY <2>1, <2>2, FS_CardinalityType
  <2>4. ~(Cardinality(T) < Cardinality(N))
    BY <1>9, <1>10, <2>1, <2>2, FS_PigeonHole
  <2> QED
    BY <2>1, <2>2, <2>3, <2>4
<1>12. /\ IsFiniteSet(Performed) /\ Cardinality(Performed) \in Nat
       /\ Cardinality(Performed) + Cardinality(N) = IF m >= 1 THEN m - 1 ELSE 0
  <2>1. Performed \cup N = 2 .. m /\ Performed \cap N = {}
    <3>1. \A r \in Performed : r \in Request \ {1} /\ done[r] = 1 /\ r \in 2 .. m
      <4>1. ASSUME NEW r \in Performed PROVE r \in 2 .. m
        <5>1. r \in Request \ {1} /\ done[r] = 1
          BY DEF Performed
        <5>2. ~(r > m) /\ r \in Nat /\ r >= 2
          BY <1>4, <5>1 DEF Request
        <5> QED
          BY <5>2
      <4> QED
        BY <4>1 DEF Performed
    <3>2. \A r \in 2 .. m : r \in Performed \/ r \in N
      BY <1>4, <1>6 DEF Performed, N
    <3>3. \A r \in N : r \in 2 .. m /\ done[r] = 0
      BY DEF N
    <3> QED
      BY <3>1, <3>2, <3>3
  <2>2. IsFiniteSet(Performed)
    <3>1. Performed \subseteq 2 .. m /\ 2 \in Int /\ m \in Int
      BY <2>1
    <3> QED
      BY <3>1, FS_Interval, FS_Subset
  <2>3. Cardinality(2 .. m) = IF 2 > m THEN 0 ELSE m - 2 + 1
    BY FS_Interval
  <2>4. Cardinality(2 .. m) = Cardinality(Performed) + Cardinality(N) - Cardinality({})
    BY <1>11, <2>1, <2>2, FS_Union
  <2>5. Cardinality({}) = 0 /\ Cardinality(Performed) \in Nat
    BY <2>2, FS_EmptySet, FS_CardinalityType
  <2> QED
    BY <1>11, <2>2, <2>3, <2>4, <2>5
<1>13. u = done[1] + Cardinality(Performed) /\ done[1] \in Nat
  BY <1>1, <1>2, <1>3, Bounds DEF Once
<1>14. done[1] <= n - (m - 1)
  <2>1. PICK x \in Nat, y \in Nat, d \in Nat :
           x = Cardinality(N) /\ y = Cardinality(Performed) /\ d = done[1]
    BY <1>11, <1>12, <1>13
  <2>2. x <= n - u /\ u = d + y /\ x + y = IF m >= 1 THEN m - 1 ELSE 0
    BY <1>11, <1>12, <1>13, <2>1
  <2>3. m = 0 => n = 0
    BY <1>2 DEF End
  <2>4. d <= n - (m - 1)
    BY <2>2, <2>3
  <2> QED
    BY <2>1, <2>4
<1> QED
  BY <1>2, <1>5, <1>14

\* The device performs no request twice, but for the first, which it performs once for
\* every entry of the ring that is nobody's.
THEOREM PerformedOnce == Spec => []OnceEach
<1>1. IInv => OnceEach
  BY EachOnce
<1> QED
  BY <1>1, BlockInvariance, PTL

=============================================================================
