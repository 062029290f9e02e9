----------------------------- MODULE PciProofs -----------------------------
(***************************************************************************)
(* Proofs about Pci, for a bus of any size, any number of interrupt lines  *)
(* that is enough for its virtio devices, and any machines at all.         *)
(***************************************************************************)
EXTENDS Pci, NaturalSets, SequenceTheorems

-----------------------------------------------------------------------------
(* Machines and functions *)

\* The numbers of a function.
LEMMA Functions ==
  /\ Slots \in Nat \ {0} /\ Fns \in Nat \ {0}
  /\ NoFunction \notin Function /\ << 0, 0 >> \in Function
  /\ \A p \in Function : p = << p[1], p[2] >> /\ p[1] \in 0 .. Slots - 1 /\ p[2] \in 0 .. Fns - 1
  BY PciAssumption DEF Function, NoFunction

\* What is known of a machine.
LEMMA Machine ==
  ASSUME TypeOK
  PROVE  /\ machine \in [Function -> Config]
         /\ machine[<< 0, 0 >>].vendor # "none"
         /\ 2 * Cardinality({p \in Function : machine[p].vendor = "virtio"}) <= Cardinality(Lines)
  BY PciAssumption DEF TypeOK

\* There are finitely many functions.
LEMMA FunctionsFinite == IsFiniteSet(Function)
<1>1. IsFiniteSet(0 .. Slots - 1) /\ IsFiniteSet(0 .. Fns - 1)
  BY Functions, FS_Interval
<1> QED
  BY <1>1, FS_Product DEF Function

\* The lines and virtio devices that are counted are finite in number.
LEMMA CountsFinite ==
  /\ IsFiniteSet(Lines) /\ Cardinality(Lines) \in Nat
  /\ IsFiniteSet(UsedLines) /\ Cardinality(UsedLines) \in Nat /\ UsedLines \subseteq Lines
  /\ IsFiniteSet(VirtioBefore) /\ Cardinality(VirtioBefore) \in Nat
<1>1. UsedLines \in SUBSET Lines /\ VirtioBefore \in SUBSET Function
  BY DEF UsedLines, VirtioBefore
<1>2. IsFiniteSet(Lines)
  BY PciAssumption
<1>3. IsFiniteSet(UsedLines) /\ IsFiniteSet(VirtioBefore)
  BY <1>1, <1>2, FunctionsFinite, FS_Subset
<1> QED
  BY <1>1, <1>2, <1>3, FS_CardinalityType

\* While a driver asks for a line there is one that no function has, and get_next_irq
\* finds it.
LEMMA LineIsFree ==
  ASSUME TypeOK, AtRight, Counted, DevRight, At("lines"), entry < dev.entries
  PROVE  GetNextIrq \in Lines /\ handler[GetNextIrq] = NoFunction
<1> DEFINE All == {p \in Function : machine[p].vendor = "virtio"}
           Free == {l \in Lines : handler[l] = NoFunction}
<1>1. at \in Function /\ at \notin VirtioBefore /\ machine[at].vendor = "virtio"
  BY Functions DEF At, AtRight, Probing, HasDriver, Here, VirtioBefore, Before
<1>2. Cardinality(UsedLines) <= 2 * Cardinality(VirtioBefore) + 1
  <2>1. Cardinality(UsedLines) <= 2 * Cardinality(VirtioBefore) + entry
    BY DEF Counted, At
  <2>2. entry <= 1 /\ entry \in Nat
    BY DEF TypeOK
  <2> QED
    BY <2>1, <2>2, CountsFinite
<1>3. Cardinality(VirtioBefore) + 1 <= Cardinality(All) /\ Cardinality(All) \in Nat
  <2>1. Cardinality(VirtioBefore \cup {at}) = Cardinality(VirtioBefore) + 1
    BY <1>1, CountsFinite, FS_AddElement
  <2>2. VirtioBefore \cup {at} \in SUBSET All /\ All \in SUBSET Function
    BY <1>1 DEF VirtioBefore
  <2>3. IsFiniteSet(All)
    BY <2>2, FunctionsFinite, FS_Subset
  <2>4. Cardinality(VirtioBefore \cup {at}) <= Cardinality(All)
    BY <2>2, <2>3, FS_Subset
  <2> QED
    BY <2>1, <2>3, <2>4, FS_CardinalityType
<1>4. UsedLines # Lines
  <2>1. 2 * Cardinality(All) <= Cardinality(Lines)
    BY Machine
  <2> HIDE DEF All
  <2> QED
    BY <1>2, <1>3, <2>1, CountsFinite
<1>5. Free # {} /\ Free \in SUBSET Nat
  BY <1>4, PciAssumption DEF UsedLines
<1>6. \E m \in Free : \A k \in Free : m <= k
  BY <1>5, LeastNatural
<1>7. PICK m \in Lines : handler[m] = NoFunction /\ \A k \in Lines : k < m => handler[k] # NoFunction
  <2>1. PICK m \in Free : \A k \in Free : m <= k
    BY <1>6
  <2>2. \A k \in Lines : k < m => handler[k] # NoFunction
    <3>1. \A k \in Lines : k \in Nat
      BY PciAssumption
    <3>2. m \in Nat
      BY <3>1
    <3> QED
      BY <2>1, <3>1, <3>2
  <2> QED
    BY <2>1, <2>2
<1> QED
  BY <1>7, Zenon DEF GetNextIrq

-----------------------------------------------------------------------------
(* Types, and where the kernel is *)


LEMMA TypeNext ==
  ASSUME TypeOK, AtRight, Counted, DevRight, [Next]_vars
  PROVE  TypeOK'
<1>0. /\ machine \in [Function -> Config]
      /\ at[1] \in 0 .. Slots /\ at[2] \in 0 .. Fns /\ Slots \in Nat \ {0} /\ Fns \in Nat \ {0}
      /\ at = << at[1], at[2] >>
  BY Machine, Functions DEF TypeOK
<1>a. ASSUME at[1] < Slots, NextSlot
      PROVE  at' \in (0 .. Slots) \X (0 .. Fns) /\ pc' \in Places
  BY <1>0, <1>a DEF NextSlot, Places
<1>b. ASSUME at \in Function, AfterFunction
      PROVE  at' \in (0 .. Slots) \X (0 .. Fns) /\ pc' \in Places
  <2>1. at[1] < Slots /\ at[2] < Fns
    BY <1>0, <1>b, Functions
  <2>2. CASE at' = << at[1], at[2] + 1 >> /\ pc' = "functions"
    BY <1>0, <2>1, <2>2 DEF Places
  <2> QED
    BY <1>a, <1>b, <2>1, <2>2 DEF AfterFunction
<1>1. CASE UNCHANGED vars
  BY <1>1 DEF TypeOK, vars, space, walk
<1>2. CASE NoDevice
  BY <1>0, <1>2, <1>a DEF NoDevice, TypeOK, space, walk
<1>3. CASE CheckDevice
  BY <1>3 DEF CheckDevice, NewDevice, TypeOK, Places, space, walk
<1>4. CASE Finish \/ OneMoreFunction \/ Tick \/ LinesDone
  BY <1>4 DEF Finish, OneMoreFunction, Tick, LinesDone, TypeOK, Places, space, walk
<1>5. CASE LastFunction
  <2>1. at[1] < Slots
    BY <1>5 DEF LastFunction, At, AtRight
  <2> QED
    BY <2>1, <1>5, <1>a DEF LastFunction, TypeOK, space, walk
<1>6. CASE CheckFunction
  <2>1. at \in Function
    BY <1>6 DEF CheckFunction, At, AtRight
  <2>2. Here.first \in Positions \cup {0}
    BY <1>0, <2>1 DEF Here, Config
  <2>3. cache' \subseteq Function
    BY <2>1, <1>6 DEF CheckFunction, TypeOK
  <2>4. control' \in [Function -> SUBSET {"enable", "mask"}]
    BY <2>1, <1>6 DEF CheckFunction, TypeOK
  <2>5. TTL \in 0 .. TTL
    BY PciAssumption
  <2> QED
    BY <1>6, <2>2, <2>3, <2>4, <2>5 DEF CheckFunction, TypeOK, Places
<1>7. CASE NextCapability
  <2>1. at \in Function /\ pos \in Positions
    BY <1>7 DEF NextCapability, At, AtRight, TypeOK
  <2>2. Here.caps[pos].next \in Positions \cup {0}
    BY <1>0, <2>1 DEF Here, Config
  <2>3. ttl - 1 \in 0 .. TTL
    BY <1>7, PciAssumption DEF NextCapability, TypeOK
  <2> QED
    BY <1>7, <2>2, <2>3 DEF NextCapability, TypeOK, space
<1>8. CASE NoMsix
  BY <1>8 DEF NoMsix, TypeOK, Places, space, walk
<1>9. CASE SetupMsix
  <2>1. at \in Function /\ Here \in Config
    BY <1>0, <1>9 DEF SetupMsix, At, AtRight, Here
  <2>2. Here.window \in 0 .. LastWindow
    BY <2>1 DEF Config
  <2>3. mapped' \subseteq 0 .. LastWindow
    <3>1. mapped' \in Mmap(Here.window)
      BY <1>9 DEF SetupMsix
    <3>2. mapped' \subseteq mapped \cup {Here.window}
      BY <3>1 DEF Mmap
    <3> QED
      BY <2>2, <3>2 DEF TypeOK
  <2>4. control' \in [Function -> SUBSET {"enable", "mask"}]
    BY <2>1, <1>9 DEF SetupMsix, TypeOK
  <2>5. MaxEntries \in 0 .. 2
    BY DEF MaxEntries
  <2> QED
    BY <1>9, <2>3, <2>4, <2>5 DEF SetupMsix, TypeOK, Places, walk
<1>10. CASE RegisterPlain \/ RegisterDriven
  <2>1. at \in Function
    BY <1>10 DEF RegisterPlain, RegisterDriven, At, AtRight, Probing
  <2>2. \E driven \in BOOLEAN : Register(driven)
    BY <1>10 DEF RegisterPlain, RegisterDriven
  <2>3. at' \in (0 .. Slots) \X (0 .. Fns) /\ pc' \in Places
    BY <1>b, <2>1, <2>2 DEF Register
  <2>4. devices' \in Seq(Device)
    <3>1. PICK driven \in BOOLEAN : Register(driven)
      BY <2>2
    <3>2. [fn |-> at, msix |-> dev.msix, enabled |-> dev.enabled, driven |-> driven] \in Device
      BY <2>1 DEF TypeOK, Device
    <3> QED
      BY <3>1, <3>2, AppendProperties DEF Register, TypeOK
  <2>5. status' \in [Function -> SUBSET {"ACK", "DRIVER", "DRIVER_OK", "FAILED"}]
    <3>1. status[at] \cup {"DRIVER_OK"} \in SUBSET {"ACK", "DRIVER", "DRIVER_OK", "FAILED"}
      BY <2>1 DEF TypeOK
    <3> QED
      BY <1>10, <2>1, <3>1 DEF RegisterPlain, RegisterDriven, TypeOK, space
  <2> QED
    BY <1>10, <2>3, <2>4, <2>5 DEF RegisterPlain, RegisterDriven, TypeOK, space, walk
<1>11. CASE Accept \/ Refuse
  <2>1. at \in Function /\ stopped' \in BOOLEAN /\ pc' \in Places /\ entry' \in 0 .. 2
    <3>1. at \in Function
      BY <1>11 DEF Accept, Refuse, At, AtRight, Probing
    <3>2. CASE Accept
      BY <3>1, <3>2 DEF Accept, TypeOK, Places
    <3>3. CASE Refuse
      BY <3>1, <3>3 DEF Refuse, TypeOK, Places, walk
    <3> QED
      BY <1>11, <3>2, <3>3
  <2>2. \A new \in {{"ACK", "DRIVER"}, {"ACK", "DRIVER", "FAILED"}} :
          status[at] \cup new \in SUBSET {"ACK", "DRIVER", "DRIVER_OK", "FAILED"}
    BY <2>1 DEF TypeOK
  <2>3. status' \in [Function -> SUBSET {"ACK", "DRIVER", "DRIVER_OK", "FAILED"}]
    BY <1>11, <2>1, <2>2 DEF Accept, Refuse, TypeOK
  <2> QED
    BY <1>11, <2>1, <2>3 DEF Accept, Refuse, TypeOK, walk
<1>12. CASE SetupLine
  <2> DEFINE l == GetNextIrq
  <2>1. l \in Lines
    BY <1>12, LineIsFree DEF SetupLine
  <2>2. at \in Function
    BY <1>12 DEF SetupLine, At, AtRight, Probing
  <2>3. handler' \in [Lines -> Function \cup {NoFunction}]
    BY <1>12, <2>2 DEF SetupLine, TypeOK
  <2>4. SetVector(table[at], l) \in [0 .. 1 -> Lines \cup {0}]
    <3>1. table[at] \in [0 .. 1 -> Lines \cup {0}]
      BY <2>2 DEF TypeOK
    <3> HIDE DEF l
    <3> QED
      BY <2>1, <3>1 DEF SetVector
  <2>5. table' \in [Function -> [0 .. 1 -> Lines \cup {0}]]
    BY <1>12, <2>2, <2>4 DEF SetupLine, TypeOK
  <2>6. entry' \in 0 .. 2
    BY <1>12 DEF SetupLine, TypeOK
  <2> QED
    BY <1>12, <2>3, <2>5, <2>6 DEF SetupLine, TypeOK
<1>13. CASE TableFaults
  <2>1. at \in Function
    BY <1>13 DEF TableFaults, At, AtRight, Probing
  <2> QED
    BY <1>13, <2>1 DEF TableFaults, TypeOK, walk
<1>14. CASE SetupQueue
  <2>1. Wanted[Cardinality(queues[at]) + 1] \in {"control", "port", "request"}
    <3>1. at \in Function /\ Cardinality(queues[at]) < Len(Wanted)
      BY <1>14 DEF SetupQueue, At, AtRight, Probing
    <3>2. Cardinality(queues[at]) \in Nat
      <4>1. queues[at] \in SUBSET {"control", "port", "request"}
        BY <3>1 DEF TypeOK
      <4>2. IsFiniteSet({"control"} \cup {"port"} \cup {"request"})
        BY FS_Singleton, FS_Union
      <4>3. {"control"} \cup {"port"} \cup {"request"} = {"control", "port", "request"}
        OBVIOUS
      <4>4. IsFiniteSet(queues[at])
        BY <4>1, <4>2, <4>3, FS_Subset
      <4> QED
        BY <4>4, FS_CardinalityType
    <3> QED
      BY <3>1, <3>2 DEF Wanted
  <2> QED
    BY <1>14, <2>1 DEF SetupQueue, TypeOK, walk
<1>15. CASE Interrupt
  BY <1>15 DEF Interrupt, TypeOK, Places, space, walk
<1> QED
  BY <1>1, <1>2, <1>3, <1>4, <1>5, <1>6, <1>7, <1>8, <1>9, <1>10, <1>11, <1>12, <1>13, <1>14, <1>15
     DEF Next, Enumerate

\* The kernel stays with its function, or it has dealt with it and goes on.
Onward ==
  /\ pc' \in {"device", "functions"}
  /\ \A p \in Function : Before(p) \/ p = at => Before(p)'

\* A step stays or goes on.
LEMMA OnwardRegister ==
  ASSUME TypeOK, NEW driven, Register(driven)
  PROVE  Onward
<1>0. /\ at[1] \in 0 .. Slots /\ at[2] \in 0 .. Fns /\ at = << at[1], at[2] >>
      /\ \A p \in Function : p = << p[1], p[2] >> /\ p[1] \in 0 .. Slots - 1 /\ p[2] \in 0 .. Fns - 1
      /\ Slots \in Nat /\ Fns \in Nat
  BY Functions DEF TypeOK
<1>1. CASE NextSlot
  BY <1>0, <1>1 DEF NextSlot, Onward, Before
<1>2. CASE at' = << at[1], at[2] + 1 >> /\ pc' = "functions"
  BY <1>0, <1>2 DEF Onward, Before
<1> QED
  BY <1>1, <1>2 DEF Register, AfterFunction

LEMMA Moves ==
  ASSUME TypeOK, [Next]_vars
  PROVE  machine' = machine /\ (at' = at \/ Onward)
<1>0. /\ at[1] \in 0 .. Slots /\ at[2] \in 0 .. Fns /\ at = << at[1], at[2] >>
      /\ \A p \in Function : p = << p[1], p[2] >> /\ p[1] \in 0 .. Slots - 1 /\ p[2] \in 0 .. Fns - 1
      /\ Slots \in Nat /\ Fns \in Nat
  BY Functions DEF TypeOK
<1>1. ASSUME NextSlot PROVE Onward
  BY <1>0, <1>1 DEF NextSlot, Onward, Before
<1> QED
  BY <1>1, OnwardRegister DEF Next, Enumerate, NoDevice, CheckDevice, Finish, OneMoreFunction,
     LastFunction, CheckFunction, NextCapability, NoMsix, SetupMsix, RegisterPlain, Accept, Refuse,
     SetupLine, TableFaults, LinesDone, SetupQueue, RegisterDriven, Tick, Interrupt, vars

\* The part of the kernel's place that depends on its driver.
LEMMA AtRightNext ==
  ASSUME TypeOK, AtRight, [Next]_vars
  PROVE  AtRight'
<1>0. /\ at[1] \in 0 .. Slots /\ at[2] \in 0 .. Fns /\ at = << at[1], at[2] >>
      /\ Slots \in Nat \ {0} /\ Fns \in Nat \ {0}
  BY Functions DEF TypeOK
<1>m. machine' = machine
  BY Moves
<1>1. ASSUME NextSlot PROVE AtRight'
  BY <1>1 DEF NextSlot, AtRight, Probing
<1>2. ASSUME at \in Function, AfterFunction PROVE AtRight'
  <2>1. CASE at' = << at[1], at[2] + 1 >> /\ pc' = "functions"
    BY <1>0, <1>2, <2>1, Functions DEF AtRight, Probing
  <2> QED
    BY <1>1, <1>2, <2>1 DEF AfterFunction
<1>3. CASE NoDevice \/ LastFunction
  BY <1>1, <1>3 DEF NoDevice, LastFunction
<1>4. CASE RegisterPlain \/ RegisterDriven
  BY <1>2, <1>4 DEF RegisterPlain, RegisterDriven, Register, At, AtRight, Probing
<1>5. CASE CheckDevice
  <2>1. at = << at[1], 0 >> /\ at[1] \in 0 .. Slots - 1 /\ 0 \in 0 .. Fns - 1
    BY <1>0, <1>5 DEF CheckDevice, At, AtRight
  <2>2. at \in Function
    BY <2>1 DEF Function
  <2> QED
    BY <1>5, <2>2 DEF CheckDevice, AtRight, Probing
<1>6. CASE OneMoreFunction
  BY <1>6 DEF OneMoreFunction, At, AtRight, Probing
<1>7. ASSUME pc = "halt", pc' = "function", at' = at
      PROVE  AtRight'
  <2>1. at[1] \in 0 .. Slots - 1 /\ at[2] \in 0 .. Fns - 1
    BY <1>0, <1>7 DEF AtRight
  <2>2. at \in Function
    BY <1>0, <2>1 DEF Function
  <2> QED
    BY <1>7, <2>2 DEF AtRight, Probing
<1>8. CASE Tick \/ Interrupt
  BY <1>7, <1>8, <1>m DEF Tick, Interrupt, At, AtRight, HasDriver, Here
<1>9. CASE Finish
  BY <1>9 DEF Finish, At, AtRight, Probing
<1>10. CASE CheckFunction \/ NextCapability \/ NoMsix \/ SetupMsix
  BY <1>10 DEF CheckFunction, NextCapability, NoMsix, SetupMsix, At, AtRight, Probing
<1>11. CASE Accept
  BY <1>11 DEF Accept, At, AtRight, Probing, HasDriver, Here
<1>12. CASE Refuse \/ SetupLine \/ TableFaults \/ LinesDone \/ SetupQueue \/ UNCHANGED vars
  <2>1. at' = at /\ (pc' = pc \/ (pc = "lines" /\ pc' = "setup"))
    BY <1>12 DEF Refuse, SetupLine, TableFaults, LinesDone, SetupQueue, vars, At
  <2> QED
    BY <1>m, <2>1 DEF AtRight, HasDriver, Here, Probing
<1> QED
  BY <1>3, <1>4, <1>5, <1>6, <1>8, <1>9, <1>10, <1>11, <1>12 DEF Next, Enumerate

-----------------------------------------------------------------------------
(* Queues *)

\* The size of what a device has been told.
LEMMA Told ==
  /\ Cardinality({}) = 0
  /\ Cardinality({"control"}) = 1 /\ Cardinality({"request"}) = 1
  /\ Cardinality({"control", "port"}) = 2
<1>1. Cardinality({"control"} \cup {"port"}) = Cardinality({"control"}) + 1
  <2>1. "port" \notin {"control"} /\ IsFiniteSet({"control"})
    BY FS_Singleton
  <2> QED
    BY <2>1, FS_AddElement
<1>2. {"control"} \cup {"port"} = {"control", "port"}
  OBVIOUS
<1>3. Cardinality({"control"}) = 1 /\ Cardinality({"request"}) = 1
  BY FS_Singleton
<1> QED
  BY <1>1, <1>2, <1>3, FS_EmptySet

LEMMA QueuesNext ==
  ASSUME TypeOK, AtRight, QueuesRight, [Next]_vars
  PROVE  QueuesRight'
<1>m. machine' = machine
  BY Moves
<1>1. CASE UNCHANGED << queues, status >>
  BY <1>1, <1>m DEF QueuesRight
<1>2. CASE Accept \/ Refuse
  <2>1. /\ queues' = queues
        /\ \A p \in Function : "DRIVER_OK" \in status'[p] => "DRIVER_OK" \in status[p]
    <3>1. at \in Function /\ \A p \in Function : p # at => status'[p] = status[p]
      BY <1>2 DEF Accept, Refuse, At, AtRight, Probing, TypeOK
    <3>2. "DRIVER_OK" \in status'[at] => "DRIVER_OK" \in status[at]
      BY <1>2, <3>1 DEF Accept, Refuse, TypeOK
    <3> QED
      BY <1>2, <3>1, <3>2 DEF Accept, Refuse
  <2> QED
    BY <1>m, <2>1 DEF QueuesRight
<1>3. CASE SetupQueue
  <2> DEFINE w == Wanted[Cardinality(queues[at]) + 1]
  <2>1. at \in Function /\ status' = status /\ queues' = [queues EXCEPT ![at] = @ \cup {w}]
    BY <1>3 DEF SetupQueue, At, AtRight, Probing
  <2>2. queues[at] \cup {w} \in
          IF Here.subsystem = "console" THEN {{"control"}, {"control", "port"}} ELSE {{"request"}}
    <3>1. Cardinality(queues[at]) < Len(Wanted)
      BY <1>3 DEF SetupQueue
    <3>2. CASE Here.subsystem = "console"
      <4>1. Wanted = << "control", "port" >>
        BY <3>2 DEF Wanted
      <4>2. queues[at] \in {{}, {"control"}, {"control", "port"}}
        BY <2>1, <3>2 DEF QueuesRight, Here
      <4> QED
        BY <3>1, <3>2, <4>1, <4>2, Told
    <3>3. CASE Here.subsystem # "console"
      <4>1. Wanted = << "request" >>
        BY <3>3 DEF Wanted
      <4>2. queues[at] \in {{}, {"request"}}
        BY <2>1, <3>3 DEF QueuesRight, Here
      <4> QED
        BY <3>1, <3>3, <4>1, <4>2, Told
    <3> QED
      BY <3>2, <3>3
  <2>3. queues'[at] = queues[at] \cup {w} /\ \A p \in Function : p # at => queues'[p] = queues[p]
    BY <2>1 DEF TypeOK
  <2> HIDE DEF w
  <2> QED
    BY <1>m, <2>1, <2>2, <2>3 DEF QueuesRight, Here
<1>4. CASE RegisterDriven
  <2>1. /\ at \in Function /\ queues' = queues /\ Cardinality(queues[at]) = Len(Wanted)
        /\ \A p \in Function : p # at => status'[p] = status[p]
    BY <1>4 DEF RegisterDriven, At, AtRight, Probing, TypeOK
  <2>2. queues[at] \cap {"port", "request"} # {}
    <3>1. queues[at] \in IF Here.subsystem = "console"
                         THEN {{}, {"control"}, {"control", "port"}} ELSE {{}, {"request"}}
      BY <2>1 DEF QueuesRight, Here
    <3>2. Len(Wanted) = IF Here.subsystem = "console" THEN 2 ELSE 1
      BY DEF Wanted
    <3>3. CASE Here.subsystem = "console"
      <4>1. queues[at] = {"control", "port"}
        BY <2>1, <3>1, <3>2, <3>3, Told
      <4> QED
        BY <4>1
    <3>4. CASE Here.subsystem # "console"
      <4>1. queues[at] = {"request"}
        BY <2>1, <3>1, <3>2, <3>4, Told
      <4> QED
        BY <4>1
    <3> QED
      BY <3>3, <3>4
  <2> QED
    BY <1>m, <2>1, <2>2 DEF QueuesRight
<1> QED
  BY <1>1, <1>2, <1>3, <1>4 DEF Next, Enumerate, NoDevice, CheckDevice, Finish, OneMoreFunction,
     LastFunction, CheckFunction, NextCapability, NoMsix, SetupMsix, RegisterPlain, SetupLine,
     TableFaults, LinesDone, Tick, Interrupt, vars, space

-----------------------------------------------------------------------------
(* Lines *)

\* Only two steps touch the lines and the tables.
LEMMA LinesKept ==
  ASSUME [Next]_vars, ~SetupLine, ~TableFaults
  PROVE  handler' = handler /\ table' = table
  BY DEF Next, Enumerate, NoDevice, CheckDevice, Finish, OneMoreFunction,
     LastFunction, CheckFunction, NextCapability, NoMsix, SetupMsix, RegisterPlain, Accept, Refuse,
     LinesDone, SetupQueue, RegisterDriven, Tick, Interrupt, vars, space

\* Once round the loop of pci_setup_msix: a line that was free goes to the next entry, if
\* the table has that many.
LineGiven(l) ==
  /\ l \in Lines /\ handler[l] = NoFunction /\ handler'[l] = at
  /\ \A k \in Lines : k # l => handler'[k] = handler[k]
  /\ \A p \in Function : p # at => table'[p] = table[p]
  /\ \A e \in 0 .. 1 :
       table'[at][e] = IF e = entry /\ e < Here.entries THEN l ELSE table[at][e]

LEMMA LineStep ==
  ASSUME TypeOK, AtRight, Counted, DevRight, TableRight, SetupLine
  PROVE  LineGiven(GetNextIrq)
<1>1. PICK l \in Lines : l = GetNextIrq /\ handler[l] = NoFunction
  BY LineIsFree DEF SetupLine
<1>2. /\ at \in Function /\ pc = "lines" /\ entry < dev.entries
      /\ handler' = [handler EXCEPT ![l] = at]
      /\ table' = [table EXCEPT ![at] = SetVector(@, l)]
  BY <1>1 DEF SetupLine, At, AtRight, Probing
<1>3. table[at] \in [0 .. 1 -> Lines \cup {0}] /\ entry \in 0 .. 2 /\ dev.entries \in 0 .. 2
  BY <1>2 DEF TypeOK
<1>4. Here.entries \in 1 .. 2
  BY <1>2, Machine DEF Here, Config
<1>5. \A e \in 0 .. 1 : table[at][e] = 0 <=> ~(e < entry /\ e < Here.entries)
  BY <1>2 DEF TableRight
<1>6. ASSUME NEW e \in 0 .. 1
      PROVE  SetVector(table[at], l)[e]
               = IF e = entry /\ e < Here.entries THEN l ELSE table[at][e]
  <2> DEFINE free == {f \in 0 .. dev.entries - 1 : f < Here.entries /\ table[at][f] = 0}
  <2>1. SetVector(table[at], l)[e]
          = IF e \in free /\ \A f \in free : e <= f THEN l ELSE table[at][e]
    BY <1>3 DEF SetVector
  <2>2. \A f \in free : f >= entry /\ f < Here.entries
    BY <1>3, <1>4, <1>5
  <2>3. entry < Here.entries => entry \in free
    BY <1>2, <1>3, <1>4, <1>5
  <2>4. (e \in free /\ \A f \in free : e <= f) <=> (e = entry /\ e < Here.entries)
    <3>1. free \subseteq Int /\ e \in Int /\ entry \in Int
      BY <1>3
    <3>2. e \in free => entry \in free
      BY <1>3, <1>4, <2>2, <2>3
    <3> HIDE DEF free
    <3> QED
      BY <1>4, <2>2, <2>3, <3>1, <3>2
  <2> HIDE DEF free
  <2> QED
    BY <2>1, <2>4
<1>7. \A e \in 0 .. 1 : table'[at][e] = IF e = entry /\ e < Here.entries THEN l ELSE table[at][e]
  BY <1>2, <1>6 DEF TypeOK
<1>8. /\ handler'[l] = at
      /\ \A k \in Lines : k # l => handler'[k] = handler[k]
      /\ \A p \in Function : p # at => table'[p] = table[p]
  BY <1>2 DEF TypeOK
<1> QED
  BY <1>1, <1>7, <1>8 DEF LineGiven

\* The line that TableFaults has taken is no entry's.
LEMMA FaultStep ==
  ASSUME TypeOK, AtRight, Counted, DevRight, TableFaults
  PROVE  /\ table' = table
         /\ \A k \in Lines : handler[k] # NoFunction => handler'[k] = handler[k]
<1>1. GetNextIrq \in Lines /\ handler[GetNextIrq] = NoFunction
  BY LineIsFree DEF TableFaults
<1> QED
  BY <1>1 DEF TableFaults, TypeOK

LEMMA LinesNext ==
  ASSUME TypeOK, AtRight, Counted, DevRight, TableRight, LinesRight, [Next]_vars
  PROVE  LinesRight'
<1>0. table \in [Function -> [0 .. 1 -> Lines \cup {0}]] /\ NoFunction \notin Function
      /\ entry \in 0 .. 2
  BY Functions DEF TypeOK
<1>1. CASE table' = table /\ \A k \in Lines : handler[k] # NoFunction => handler'[k] = handler[k]
  <2>1. ASSUME NEW p \in Function, NEW e \in 0 .. 1, table[p][e] # 0
        PROVE  handler'[table[p][e]] = p
    <3>1. table[p][e] \in Lines /\ handler[table[p][e]] = p
      BY <1>0, <2>1 DEF LinesRight
    <3> QED
      BY <1>0, <1>1, <3>1
  <2> QED
    BY <1>1, <2>1 DEF LinesRight
<1>2. CASE SetupLine
  <2>1. PICK l : LineGiven(l)
    BY <1>2, LineStep
  <2>2. at \in Function
    BY <1>2 DEF SetupLine, At, AtRight, Probing
  <2>3. l \in Lines /\ l # 0
    BY <2>1, PciAssumption DEF LineGiven
  <2>4. \A p \in Function, e \in 0 .. 1 :
          table'[p][e] = IF p = at /\ e = entry /\ e < Here.entries THEN l ELSE table[p][e]
    BY <2>1, <2>2 DEF LineGiven
  <2>5. \A p \in Function, e \in 0 .. 1 : table[p][e] # 0 =>
           table[p][e] \in Lines /\ table[p][e] # l
    BY <1>0, <2>1 DEF LineGiven, LinesRight
  <2>6. ASSUME NEW p \in Function, NEW e \in 0 .. 1, table'[p][e] # 0
        PROVE  handler'[table'[p][e]] = p
    BY <2>1, <2>4, <2>5, <2>6 DEF LineGiven, LinesRight
  <2>7. ASSUME NEW p \in Function, NEW e \in 0 .. 1, table'[p][e] # 0,
               NEW q \in Function, NEW f \in 0 .. 1, table'[q][f] = table'[p][e]
        PROVE  q = p /\ f = e
    <3>1. CASE table'[p][e] = l
      <4>1. p = at /\ e = entry
        BY <2>4, <2>5, <2>7, <3>1
      <4>2. q = at /\ f = entry
        BY <2>3, <2>4, <2>5, <2>7, <3>1
      <4> QED
        BY <4>1, <4>2
    <3>2. CASE table'[p][e] # l
      <4>1. table'[p][e] = table[p][e] /\ table'[q][f] = table[q][f]
        BY <2>4, <2>7, <3>2
      <4> QED
        BY <2>7, <4>1 DEF LinesRight
    <3> QED
      BY <3>1, <3>2
  <2> QED
    BY <2>6, <2>7 DEF LinesRight
<1>3. CASE TableFaults
  BY <1>1, <1>3, FaultStep
<1> QED
  BY <1>1, <1>2, <1>3, LinesKept

\* Two lines for each virtio device the kernel has come to are enough.
LEMMA CountedNext ==
  ASSUME TypeOK, AtRight, Counted, DevRight, TableRight, [Next]_vars
  PROVE  Counted'
<1> SUFFICES ASSUME ~stopped' PROVE Counted'
  BY DEF Counted
<1> DEFINE more  == CASE pc = "lines" -> entry [] pc = "setup" -> 2 [] OTHER -> 0
           more1 == CASE pc' = "lines" -> entry' [] pc' = "setup" -> 2 [] OTHER -> 0
           used  == Cardinality(UsedLines)
           used1 == Cardinality(UsedLines')
           seen  == Cardinality(VirtioBefore)
           seen1 == Cardinality(VirtioBefore')
<1>0. /\ {used, used1, seen, seen1} \subseteq Nat
      /\ IsFiniteSet(UsedLines) /\ IsFiniteSet(VirtioBefore)
  <2>1. /\ UsedLines' \in SUBSET Lines /\ VirtioBefore' \in SUBSET Function
    BY DEF UsedLines, VirtioBefore
  <2>2. IsFiniteSet(UsedLines') /\ IsFiniteSet(VirtioBefore')
    BY <2>1, CountsFinite, FunctionsFinite, FS_Subset
  <2> QED
    BY <2>2, CountsFinite, FS_CardinalityType
<1>1. ~stopped => used <= 2 * seen + more
  BY DEF Counted
<1>2. machine' = machine /\ (at' = at \/ Onward)
  BY Moves
<1>3. seen <= seen1
  <2>1. VirtioBefore \in SUBSET VirtioBefore'
    BY <1>2 DEF VirtioBefore, Onward, Before
  <2>2. IsFiniteSet(VirtioBefore')
    <3>1. VirtioBefore' \in SUBSET Function
      BY DEF VirtioBefore
    <3> QED
      BY <3>1, FunctionsFinite, FS_Subset
  <2> QED
    BY <2>1, <2>2, FS_Subset
<1>4. entry \in 0 .. 2 /\ dev.entries \in 0 .. 2
  BY DEF TypeOK
<1>5. ASSUME ~stopped, handler' = handler, more1 >= more, more \in Nat, more1 \in Nat
      PROVE  Counted'
  <2>1. used1 = used
    BY <1>5 DEF UsedLines
  <2>2. used1 <= 2 * seen1 + more1
    <3> HIDE DEF used, used1, seen, seen1, more, more1
    <3> QED
      BY <1>0, <1>1, <1>3, <1>5, <2>1
  <2> QED
    BY <2>2 DEF Counted
<1>6. CASE SetupLine
  <2>1. PICK l : LineGiven(l)
    BY <1>6, LineStep
  <2>2. UsedLines' \subseteq UsedLines \cup {l}
    BY <2>1 DEF LineGiven, UsedLines
  <2>3. used1 <= used + 1
    <3>1. /\ IsFiniteSet(UsedLines \cup {l})
          /\ Cardinality(UsedLines \cup {l}) = IF l \in UsedLines THEN used ELSE used + 1
      BY <1>0, FS_AddElement
    <3>2. used1 <= Cardinality(UsedLines \cup {l})
      BY <2>2, <3>1, FS_Subset
    <3> HIDE DEF used, used1
    <3> QED
      BY <1>0, <3>1, <3>2
  <2>4. ~stopped /\ more = entry /\ more1 = entry + 1
    BY <1>6 DEF SetupLine, At
  <2>5. used1 <= 2 * seen1 + more1
    <3> HIDE DEF used, used1, seen, seen1, more, more1
    <3> QED
      BY <1>0, <1>1, <1>3, <1>4, <2>3, <2>4
  <2> QED
    BY <2>5 DEF Counted
<1>7. CASE RegisterDriven
  <2>1. at \in Function /\ at \notin VirtioBefore /\ machine[at].vendor = "virtio" /\ pc = "setup"
    BY <1>7, Functions DEF RegisterDriven, At, AtRight, Probing, HasDriver, Here, VirtioBefore, Before
  <2>2. Onward
    BY <1>7, OnwardRegister DEF RegisterDriven
  <2>3. VirtioBefore \cup {at} \in SUBSET VirtioBefore'
    BY <1>2, <2>1, <2>2 DEF Onward, VirtioBefore
  <2>4. seen + 1 <= seen1
    <3>1. VirtioBefore' \in SUBSET Function
      BY DEF VirtioBefore
    <3>2. IsFiniteSet(VirtioBefore')
      BY <3>1, FunctionsFinite, FS_Subset
    <3>3. Cardinality(VirtioBefore \cup {at}) = seen + 1
      BY <1>0, <2>1, FS_AddElement
    <3>4. Cardinality(VirtioBefore \cup {at}) <= seen1
      BY <2>3, <3>2, FS_Subset
    <3> HIDE DEF seen, seen1
    <3> QED
      BY <1>0, <3>3, <3>4
  <2>5. used1 = used /\ ~stopped /\ more = 2 /\ more1 = 0
    BY <1>7, <2>1, <2>2 DEF RegisterDriven, UsedLines, At, Onward
  <2>6. used1 <= 2 * seen1 + more1
    <3> HIDE DEF used, used1, seen, seen1, more, more1
    <3> QED
      BY <1>0, <1>1, <2>4, <2>5
  <2> QED
    BY <2>6 DEF Counted
<1>8. CASE Accept
  BY <1>5, <1>8 DEF Accept, At
<1>9. CASE LinesDone
  BY <1>4, <1>5, <1>9 DEF LinesDone, At, space
<1>10. CASE UNCHANGED << pc, entry, stopped, handler >> /\ pc \in Places
  BY <1>4, <1>5, <1>10
<1>11. CASE Interrupt
  BY <1>4, <1>5, <1>11 DEF Interrupt, space, walk
<1>12. CASE ~stopped /\ pc \notin {"lines", "setup"} /\ pc' \notin {"lines", "setup"} /\ handler' = handler
  BY <1>5, <1>12
<1>13. CASE TableFaults \/ Refuse
  BY <1>13 DEF TableFaults, Refuse
<1>14. CASE NoDevice \/ CheckDevice \/ Finish \/ OneMoreFunction \/ LastFunction \/ CheckFunction
            \/ NextCapability \/ NoMsix \/ SetupMsix \/ RegisterPlain \/ Tick
  BY <1>12, <1>14 DEF NoDevice, CheckDevice, Finish, OneMoreFunction, LastFunction, CheckFunction,
     NextCapability, NoMsix, SetupMsix, RegisterPlain, Register, AfterFunction, NextSlot, Tick, At, space
<1>15. CASE SetupQueue \/ UNCHANGED vars
  BY <1>10, <1>15 DEF SetupQueue, vars, walk, space, TypeOK
<1> QED
  BY <1>6, <1>7, <1>8, <1>9, <1>11, <1>13, <1>14, <1>15 DEF Next, Enumerate

-----------------------------------------------------------------------------
(* The walk of the capabilities *)

\* Whether a function has MSI-X is for the machine alone to say.
LEMMA MsixKept ==
  ASSUME machine' = machine, at' = at
  PROVE  /\ \A p : HasMsix(p)' = HasMsix(p)
         /\ HasMsix(at)' = HasMsix(at)
         /\ \A S : Closed(at, S)' = Closed(at, S)
  BY DEF HasMsix, Closed

\* The positions that have been passed.
Passed(W) ==
  /\ \A x \in W : ~Here.caps[x].msix
  /\ \A x \in Positions : (x = Here.first \/ \E y \in W : x = Here.caps[y].next) => x \in W \cup {pos}
  /\ pos \in W \cup {0} \/ Cardinality(W) = TTL - ttl

Inevitable == \A S \in SUBSET Positions : Closed(at, S) => pos \in S \cup {0}

LEMMA WalksNext ==
  ASSUME TypeOK, AtRight, Walks, [Next]_vars
  PROVE  Walks'
<1> SUFFICES ASSUME pc' = "capability"
             PROVE  (\E W \in SUBSET Positions : Passed(W)') /\ Inevitable'
  BY DEF Walks, Passed, Inevitable, Here
<1>m. machine' = machine
  BY Moves
<1>1. CASE CheckFunction
  <2>1. /\ at' = at /\ pos' = Here.first /\ ttl' = TTL /\ Here' = Here
        /\ at \in Function
    BY <1>1, <1>m DEF CheckFunction, Here, At, AtRight
  <2>2. Here.first \in Positions \cup {0}
    BY <2>1, Machine DEF Here, Config
  <2>3. Passed({})'
    <3>1. Cardinality({}) = TTL - TTL
      BY FS_EmptySet, PciAssumption
    <3> QED
      BY <2>1, <3>1 DEF Passed
  <2>4. Inevitable'
    BY <1>m, <2>1, <2>2 DEF Inevitable, Closed, Here
  <2> QED
    BY <2>3, <2>4
<1>2. CASE NextCapability
  <2>1. /\ pc = "capability" /\ ttl > 0 /\ pos # 0 /\ ~Here.caps[pos].msix
        /\ pos' = Here.caps[pos].next /\ ttl' = ttl - 1
        /\ at' = at /\ Here' = Here
    BY <1>2, <1>m DEF NextCapability, Here, At
  <2>2. PICK W \in SUBSET Positions : Passed(W)
    BY <2>1 DEF Walks, Passed
  <2>3. Inevitable
    BY <2>1 DEF Walks, Inevitable
  <2>4. pos \in Positions /\ at \in Function /\ ttl \in 0 .. TTL /\ TTL \in Nat
    BY <2>1, PciAssumption DEF TypeOK, AtRight
  <2>5. pos' \in Positions \cup {0}
    <3>1. Here \in Config
      BY <2>4, Machine DEF Here
    <3>2. Here.caps \in [Positions -> [msix : BOOLEAN, next : Positions \cup {0}]]
      BY <3>1 DEF Config
    <3> QED
      BY <2>1, <2>4, <3>2
  <2>6. PICK V \in SUBSET Positions : V = W \cup {pos}
    BY <2>4
  <2>7. \A x \in Positions : (x = Here.first \/ \E y \in W : x = Here.caps[y].next) => x \in V
    BY <2>2, <2>6 DEF Passed
  <2>8. pos' \in V \cup {0} \/ Cardinality(V) = TTL - ttl'
    <3>1. CASE pos \in W
      <4>1. pos' \in Positions => pos' \in V
        BY <2>1, <2>6, <2>7, <3>1
      <4> QED
        BY <2>5, <4>1
    <3>2. CASE pos \notin W
      <4>1. Cardinality(W) = TTL - ttl
        BY <2>1, <2>2, <3>2 DEF Passed
      <4>2. IsFiniteSet(W)
        BY PciAssumption, FS_Subset
      <4>3. Cardinality(V) = Cardinality(W) + 1
        BY <2>6, <3>2, <4>2, FS_AddElement
      <4> QED
        BY <2>1, <2>4, <4>1, <4>3
    <3> QED
      BY <3>1, <3>2
  <2>9. \A x \in V : ~Here.caps[x].msix
    BY <2>1, <2>2, <2>6 DEF Passed
  <2>10. \A x \in Positions : (x = Here.first \/ \E y \in V : x = Here.caps[y].next) => x \in V \cup {pos'}
    BY <2>1, <2>6, <2>7
  <2>11. Passed(V)'
    BY <2>1, <2>8, <2>9, <2>10 DEF Passed
  <2>12. Inevitable'
    <3>1. ASSUME NEW S \in SUBSET Positions, Closed(at, S) PROVE pos' \in S \cup {0}
      BY <2>1, <2>3, <2>5, <3>1 DEF Inevitable, Closed, Here
    <3> QED
      BY <1>m, <2>1, <3>1, MsixKept DEF Inevitable
  <2> QED
    BY <2>11, <2>12
<1>3. CASE pc = "capability" /\ UNCHANGED << at, pos, ttl >>
  <2>1. Here' = Here
    BY <1>m, <1>3 DEF Here
  <2>2. PICK W \in SUBSET Positions : Passed(W)
    BY <1>3 DEF Walks, Passed
  <2>3. Inevitable
    BY <1>3 DEF Walks, Inevitable
  <2> QED
    BY <1>m, <1>3, <2>1, <2>2, <2>3, MsixKept DEF Passed, Inevitable
<1>4. CASE Interrupt \/ UNCHANGED vars
  BY <1>3, <1>4 DEF Interrupt, vars, walk
<1> QED
  BY <1>1, <1>2, <1>4 DEF Next, Enumerate, NoDevice, CheckDevice, Finish, OneMoreFunction,
     LastFunction, NoMsix, SetupMsix, RegisterPlain, Accept, Refuse, SetupLine, TableFaults,
     LinesDone, SetupQueue, RegisterDriven, Register, AfterFunction, NextSlot, Tick, At

\* A walk that ends has seen all of the list.
LEMMA WalkEnds ==
  ASSUME TypeOK, Walks, pc = "capability", ttl = 0 \/ pos = 0
  PROVE  ~HasMsix(at)
<1>1. PICK W \in SUBSET Positions : Passed(W)
  BY DEF Walks, Passed
<1>2. pos \in Positions \cup {0}
  BY DEF TypeOK
<1>3. pos \in W \cup {0}
  <2>1. CASE Cardinality(W) = TTL - ttl /\ ttl = 0
    <3>1. IsFiniteSet(Positions) /\ TTL \in Nat /\ TTL >= Cardinality(Positions)
      BY PciAssumption
    <3>2. Cardinality(W) <= Cardinality(Positions) /\ Cardinality(Positions) \in Nat
      BY <3>1, FS_Subset, FS_CardinalityType
    <3>3. Cardinality(W) = Cardinality(Positions)
      BY <2>1, <3>1, <3>2
    <3>4. W = Positions
      BY <3>1, <3>3, FS_Subset
    <3> QED
      BY <1>2, <3>4
  <2> QED
    BY <1>1, <2>1 DEF Passed
<1>4. Closed(at, W)
  <2>1. \A x \in Positions : (x = Here.first \/ \E y \in W : x = Here.caps[y].next) => x \in W
    BY <1>1, <1>3, PciAssumption DEF Passed
  <2> QED
    BY <2>1 DEF Closed, Here
<1> QED
  BY <1>1, <1>4 DEF HasMsix, Passed, Here

\* A walk that finds MSI-X has found it in the list.
LEMMA WalkFinds ==
  ASSUME Walks, pc = "capability", pos # 0, Here.caps[pos].msix
  PROVE  HasMsix(at)
  BY DEF Walks, HasMsix, Here

-----------------------------------------------------------------------------
(* The device in hand, its table, and the list *)

LEMMA DevNext ==
  ASSUME TypeOK, AtRight, Walks, DevRight, [Next]_vars
  PROVE  DevRight'
<1>m. machine' = machine /\ (at' = at \/ Onward)
  BY Moves
<1>1. CASE CheckDevice
  BY <1>1 DEF CheckDevice, NewDevice, DevRight, Probing
<1>2. CASE CheckFunction \/ NextCapability
  BY <1>2 DEF CheckFunction, NextCapability, DevRight, Probing, At
<1>3. CASE NoMsix
  <2>1. /\ dev' = [dev EXCEPT !.msix = FALSE] /\ pc' = "match" /\ at' = at /\ pc = "capability"
        /\ ttl = 0 \/ pos = 0
    BY <1>3 DEF NoMsix, At
  <2>2. dev'.msix = FALSE /\ dev'.enabled = dev.enabled
    BY <2>1 DEF TypeOK
  <2>3. ~HasMsix(at)'
    BY <1>m, <2>1, WalkEnds, MsixKept
  <2>4. at[2] = 0 => ~dev.enabled
    BY <2>1 DEF DevRight
  <2>5. dev'.enabled \in BOOLEAN /\ HasMsix(at)' \in BOOLEAN
    BY <2>2 DEF TypeOK, HasMsix
  <2> QED
    BY <2>1, <2>2, <2>3, <2>4, <2>5 DEF DevRight, Probing
<1>4. CASE SetupMsix
  <2>1. /\ at' = at /\ pc = "capability" /\ pos # 0 /\ Here.caps[pos].msix /\ pc' = "match"
        /\ dev' = [msix |-> TRUE, enabled |-> TRUE, entries |-> MaxEntries]
        /\ control' = [control EXCEPT ![at] = {"enable"}]
        /\ mapped' \in Mmap(Here.window)
    BY <1>4 DEF SetupMsix, At
  <2>2. HasMsix(at)' /\ HasMsix(at)' \in BOOLEAN
    BY <1>m, <2>1, WalkFinds, MsixKept DEF HasMsix
  <2>3. at \in Function /\ Here' = Here
    BY <1>m, <2>1 DEF AtRight, Here
  <2>4. Here.entries = 2 => MaxEntries = 2
    BY DEF MaxEntries
  <2>5. control'[at] = {"enable"}
    BY <2>1, <2>3 DEF TypeOK
  <2>6. \/ Here.window \in mapped' \cup {LastWindow}
        \/ \E w \in mapped' : Here.window = w - 1
    <3>1. Here.window \in 0 .. LastWindow
      BY <2>3, Machine DEF Here, Config
    <3>2. CASE Here.window = LastWindow
      BY <3>2
    <3>3. CASE Here.window # LastWindow /\ Here.window + 1 \in mapped
      <4>1. mapped' = mapped
        BY <2>1, <3>3 DEF Mmap
      <4> QED
        BY <3>1, <3>3, <4>1
    <3>4. CASE Here.window # LastWindow /\ Here.window + 1 \notin mapped
      BY <2>1, <3>4 DEF Mmap
    <3> QED
      BY <3>2, <3>3, <3>4
  <2> QED
    BY <2>1, <2>2, <2>3, <2>4, <2>5, <2>6 DEF DevRight, Probing
<1>5. CASE Accept
  <2>1. /\ pc = "match" /\ pc' = IF dev.msix /\ dev.enabled THEN "lines" ELSE "setup"
        /\ entry' = 0 /\ UNCHANGED << control, mapped, dev, at >>
    BY <1>5 DEF Accept, At
  <2>2. dev.entries >= 0 /\ Here' = Here /\ HasMsix(at)' = HasMsix(at)
    BY <1>m, <2>1, MsixKept DEF TypeOK, Here
  <2> QED
    BY <2>1, <2>2 DEF DevRight, Probing
<1>6. CASE SetupLine
  <2>1. /\ pc = "lines" /\ entry < dev.entries /\ entry' = entry + 1
        /\ UNCHANGED << control, mapped, dev, at, pc >>
    BY <1>6 DEF SetupLine, At
  <2>2. Here' = Here /\ HasMsix(at)' = HasMsix(at) /\ entry + 1 <= dev.entries
    BY <1>m, <2>1, MsixKept DEF TypeOK, Here
  <2> QED
    BY <2>1, <2>2 DEF DevRight, Probing
<1>7. CASE LinesDone
  <2>1. /\ pc = "lines" /\ pc' = "setup" /\ UNCHANGED << control, mapped, dev, at >>
    BY <1>7 DEF LinesDone, At, space
  <2>2. Here' = Here /\ HasMsix(at)' = HasMsix(at)
    BY <1>m, <2>1, MsixKept DEF Here
  <2> QED
    BY <2>1, <2>2 DEF DevRight, Probing
<1>8. CASE UNCHANGED << control, mapped, dev, at, entry, pc >>
  <2>1. Here' = Here /\ HasMsix(at)' = HasMsix(at)
    BY <1>m, <1>8, MsixKept DEF Here
  <2> QED
    BY <1>8, <2>1 DEF DevRight
<1>9. CASE pc = "halt" /\ pc' = "function" /\ at' = at
  <2>1. at[2] # 0
    BY <1>9 DEF AtRight, TypeOK
  <2> QED
    BY <1>9, <2>1 DEF DevRight, Probing
<1>10. CASE pc' \in {"device", "functions", "halt", "done"}
  BY <1>10 DEF DevRight, Probing
<1>11. CASE NoDevice \/ Finish \/ OneMoreFunction \/ LastFunction
  BY <1>10, <1>11 DEF NoDevice, Finish, OneMoreFunction, LastFunction, NextSlot
<1>12. CASE RegisterPlain \/ RegisterDriven
  <2>1. Onward
    BY <1>12, OnwardRegister DEF RegisterPlain, RegisterDriven
  <2> QED
    BY <1>10, <2>1 DEF Onward
<1>13. CASE Tick \/ Interrupt
  BY <1>8, <1>9, <1>13 DEF Tick, Interrupt, At, space, walk
<1>14. CASE Refuse \/ TableFaults \/ SetupQueue \/ UNCHANGED vars
  BY <1>8, <1>14 DEF Refuse, TableFaults, SetupQueue, vars, space, walk
<1> QED
  BY <1>1, <1>2, <1>3, <1>4, <1>5, <1>6, <1>7, <1>11, <1>12, <1>13, <1>14 DEF Next, Enumerate

\* Lines go to a function from the first to the last step of pci_setup_msix.
LEMMA TableNext ==
  ASSUME TypeOK, AtRight, Counted, DevRight, TableRight, [Next]_vars
  PROVE  TableRight'
<1>m. machine' = machine /\ (at' = at \/ Onward)
  BY Moves
<1>n. \A p \in Function : ~Before(p)' => ~Before(p) /\ (p = at => at' = at)
  BY <1>m DEF Onward, Before
<1>b. ~Before(at)
  BY Functions DEF Before, TypeOK
<1>1. CASE SetupLine
  <2>1. PICK l : LineGiven(l)
    BY <1>1, LineStep
  <2>2. /\ pc = "lines" /\ pc' = "lines" /\ at' = at /\ entry' = entry + 1 /\ Here' = Here
        /\ at \in Function /\ entry \in 0 .. 2 /\ l # 0
    BY <1>m, <1>1, <2>1, PciAssumption DEF SetupLine, At, AtRight, Probing, Here, TypeOK, LineGiven
  <2>3. ASSUME NEW p \in Function, NEW e \in 0 .. 1, ~Before(p)', p # at
        PROVE  table'[p][e] = 0
    BY <1>n, <2>1, <2>3 DEF LineGiven, TableRight
  <2>4. ASSUME NEW e \in 0 .. 1
        PROVE  table'[at][e] = 0 <=> ~(e < entry + 1 /\ e < Here.entries)
    <3>1. table[at][e] = 0 <=> ~(e < entry /\ e < Here.entries)
      BY <2>2 DEF TableRight
    <3>2. table'[at][e] = IF e = entry /\ e < Here.entries THEN l ELSE table[at][e]
      BY <2>1 DEF LineGiven
    <3> QED
      BY <2>2, <3>1, <3>2
  <2> QED
    BY <2>2, <2>3, <2>4 DEF TableRight
<1>2. CASE ~SetupLine
  <2>1. table' = table
    BY <1>2, LinesKept, FaultStep
  <2>2. pc \in {"lines", "setup"} /\ at' = at => pc' \in {"lines", "setup"}
    <3>1. ASSUME Register(TRUE) PROVE at' # at
      <4>1. at[1] \in Nat /\ at[2] \in Nat
        BY DEF TypeOK
      <4> QED
        BY <3>1, <4>1 DEF Register, AfterFunction, NextSlot
    <3> QED
      BY <3>1 DEF Next, Enumerate, NoDevice, CheckDevice, Finish, OneMoreFunction,
         LastFunction, CheckFunction, NextCapability, NoMsix, SetupMsix, RegisterPlain, Accept, Refuse,
         SetupLine, TableFaults, LinesDone, SetupQueue, RegisterDriven, Tick, Interrupt, At, vars
  <2>3. ASSUME NEW p \in Function, NEW e \in 0 .. 1, ~Before(p)', p # at' \/ pc' \notin {"lines", "setup"}
        PROVE  table'[p][e] = 0
    BY <1>n, <2>1, <2>2, <2>3 DEF TableRight
  <2>4. CASE Accept
    <3>1. /\ pc = "match" /\ pc' \in {"lines", "setup"} /\ entry' = 0 /\ at' = at /\ dev' = dev
          /\ pc' = "setup" => ~(dev.msix /\ dev.enabled)
      BY <2>4 DEF Accept, At
    <3>2. at \in Function /\ dev.msix => dev.enabled
      BY <3>1 DEF AtRight, Probing, DevRight
    <3>3. at \in Function
      BY <3>1 DEF AtRight, Probing
    <3>4. \A e \in 0 .. 1 : table[at][e] = 0 /\ ~(e < 0)
      BY <1>b, <3>1, <3>3 DEF TableRight
    <3> QED
      BY <2>1, <2>3, <3>1, <3>2, <3>3, <3>4 DEF TableRight
  <2>5. CASE LinesDone
    <3>1. pc = "lines" /\ pc' = "setup" /\ entry = dev.entries /\ at' = at /\ dev' = dev /\ Here' = Here
      BY <1>m, <2>5 DEF LinesDone, At, Here
    <3>2. dev.msix /\ (Here.entries = 2 => dev.entries = 2)
      BY <3>1 DEF DevRight, Probing
    <3>3. Here.entries = 2 => table[at][1] # 0
      BY <3>1, <3>2 DEF TableRight
    <3> QED
      BY <2>1, <2>3, <3>1, <3>3 DEF TableRight
  <2>6. CASE pc' = pc /\ at' = at /\ dev' = dev /\ entry' = entry
    <3>1. Here' = Here
      BY <1>m, <2>6 DEF Here
    <3> QED
      BY <2>1, <2>3, <2>6, <3>1 DEF TableRight
  <2>7. CASE pc' \notin {"lines", "setup"}
    BY <2>3, <2>7 DEF TableRight
  <2>8. CASE NoDevice \/ CheckDevice \/ Finish \/ OneMoreFunction \/ LastFunction \/ CheckFunction
             \/ NextCapability \/ NoMsix \/ SetupMsix \/ Tick
    BY <2>7, <2>8 DEF NoDevice, CheckDevice, Finish, OneMoreFunction, LastFunction, NextSlot,
       CheckFunction, NextCapability, NoMsix, SetupMsix, Tick, At
  <2>9. CASE RegisterPlain \/ RegisterDriven
    <3>1. Onward
      BY <2>9, OnwardRegister DEF RegisterPlain, RegisterDriven
    <3> QED
      BY <2>7, <3>1 DEF Onward
  <2>10. CASE Refuse \/ TableFaults \/ SetupQueue \/ Interrupt \/ UNCHANGED vars
    BY <2>6, <2>7, <2>10 DEF Refuse, TableFaults, SetupQueue, Interrupt, vars, walk
  <2> QED
    BY <1>2, <2>4, <2>5, <2>8, <2>9, <2>10 DEF Next, Enumerate
<1> QED
  BY <1>1, <1>2

\* What is registered in a step is the function in hand, as it has been found.
LEMMA Registers ==
  ASSUME TypeOK, AtRight, [Next]_vars
  PROVE  \/ devices' = devices
         \/ /\ Onward /\ at \in Function /\ ~stopped /\ pc \in Probing
            /\ \E driven \in BOOLEAN :
                 /\ driven => pc = "setup"
                 /\ Registered' = Registered \cup {[fn |-> at, msix |-> dev.msix,
                                                    enabled |-> dev.enabled, driven |-> driven]}
<1>1. CASE RegisterPlain \/ RegisterDriven
  <2>1. PICK driven \in BOOLEAN : Register(driven) /\ (driven => pc = "setup")
    BY <1>1 DEF RegisterPlain, RegisterDriven, At
  <2>2. at \in Function /\ ~stopped /\ pc \in Probing
    BY <1>1 DEF RegisterPlain, RegisterDriven, At, AtRight, Probing
  <2> DEFINE new == [fn |-> at, msix |-> dev.msix, enabled |-> dev.enabled, driven |-> driven]
  <2>3. new \in Device
    BY <2>2 DEF TypeOK, Device
  <2>4. devices \in Seq(Device) /\ devices' = Append(devices, new)
    BY <2>1 DEF TypeOK, Register
  <2>5. Registered' = Registered \cup {new}
    <3> HIDE DEF new
    <3>1. Len(devices') = Len(devices) + 1 /\ Len(devices) \in Nat
      BY <2>3, <2>4, AppendProperties
    <3>2. \A i \in 1 .. Len(devices) + 1 :
            devices'[i] = IF i <= Len(devices) THEN devices[i] ELSE new
      BY <2>3, <2>4, AppendProperties
    <3>3. Registered' \subseteq Registered \cup {new}
      BY <3>1, <3>2 DEF Registered
    <3>4. devices'[Len(devices) + 1] = new /\ Len(devices) + 1 \in 1 .. Len(devices')
      BY <3>1, <3>2
    <3>5. \A i \in 1 .. Len(devices) : devices'[i] = devices[i] /\ i \in 1 .. Len(devices')
      BY <3>1, <3>2
    <3> QED
      BY <3>3, <3>4, <3>5 DEF Registered
  <2> QED
    BY <2>1, <2>2, <2>5, OnwardRegister
<1> QED
  BY <1>1 DEF Next, Enumerate, NoDevice, CheckDevice, Finish, OneMoreFunction, LastFunction,
     CheckFunction, NextCapability, NoMsix, SetupMsix, Accept, Refuse, SetupLine, TableFaults,
     LinesDone, SetupQueue, Tick, Interrupt, vars

\* What is registered is a record of a function.
LEMMA RegisteredType ==
  ASSUME TypeOK
  PROVE  Registered \subseteq Device
  BY DEF TypeOK, Registered

LEMMA RegisteredNext ==
  ASSUME TypeOK, AtRight, RegisteredBefore, [Next]_vars
  PROVE  RegisteredBefore'
<1>1. machine' = machine /\ (at' = at \/ Onward)
  BY Moves
<1>2. \A d \in Registered : d.fn \in Function
  BY RegisteredType DEF Device
<1>3. \A d \in Registered : Before(d.fn)'
  BY <1>1, <1>2 DEF RegisteredBefore, Onward, Before
<1>4. CASE devices' = devices
  BY <1>3, <1>4 DEF RegisteredBefore, Registered, Before
<1>5. CASE /\ Onward /\ at \in Function
           /\ \E driven \in BOOLEAN :
                Registered' = Registered \cup {[fn |-> at, msix |-> dev.msix,
                                                enabled |-> dev.enabled, driven |-> driven]}
  <2>1. PICK a \in Function : a = at
    BY <1>5
  <2>2. Before(a)'
    BY <1>5, <2>1 DEF Onward
  <2>3. ASSUME NEW d \in Registered' PROVE Before(d.fn)'
    <3>1. d \in Registered \/ d.fn = a
      BY <1>5, <2>1, <2>3
    <3> QED
      BY <1>3, <2>2, <3>1
  <2> QED
    BY <2>3 DEF RegisteredBefore
<1> QED
  BY <1>4, <1>5, Registers

-----------------------------------------------------------------------------
(* The properties *)

LEMMA DescribedNext ==
  ASSUME TypeOK, AtRight, DevRight, Described, [Next]_vars
  PROVE  Described'
<1>1. machine' = machine
  BY Moves
<1>2. \A p : HasMsix(p)' = HasMsix(p)
  BY <1>1 DEF HasMsix, Closed
<1>3. CASE devices' = devices
  BY <1>2, <1>3 DEF Described, Registered
<1>4. CASE /\ pc \in Probing
           /\ \E driven \in BOOLEAN :
                Registered' = Registered \cup {[fn |-> at, msix |-> dev.msix,
                                                enabled |-> dev.enabled, driven |-> driven]}
  <2>1. PICK a : a = at /\ dev.msix = HasMsix(a) /\ (a[2] = 0 => dev.enabled = dev.msix)
    BY <1>4 DEF DevRight
  <2>2. ASSUME NEW d \in Registered'
        PROVE  d.msix = HasMsix(d.fn)' /\ (d.fn[2] = 0 => d.enabled = d.msix)
    <3>1. CASE d \in Registered
      BY <1>2, <3>1 DEF Described
    <3>2. CASE d \notin Registered
      <4>1. d.fn = a /\ d.msix = dev.msix /\ d.enabled = dev.enabled
        BY <1>4, <2>1, <3>2
      <4> QED
        BY <1>2, <2>1, <4>1
    <3> QED
      BY <3>1, <3>2
  <2> QED
    BY <2>2 DEF Described
<1> QED
  BY <1>3, <1>4, Registers

\* What a registered device needs for its interrupts.
Ready(d) ==
  d.driven /\ d.msix /\ machine[d.fn].entries = 2 => table[d.fn][1] # 0 /\ control[d.fn] = {"enable"}

LEMMA HomeNext ==
  ASSUME TypeOK, AtRight, Counted, DevRight, TableRight, LinesRight, RegisteredBefore, LinesLeadHome,
         [Next]_vars
  PROVE  LinesLeadHome'
<1>1. machine' = machine
  BY Moves
<1>2. LinesRight'
  BY LinesNext
<1>3. ASSUME NEW d \in Registered
      PROVE  Ready(d)'
  <2>1. d.fn \in Function /\ d.fn # at
    <3>1. ~Before(at)
      BY Functions DEF Before, TypeOK
    <3> QED
      BY <3>1, RegisteredType DEF RegisteredBefore, Device
  <2>2. Ready(d)
    BY DEF LinesLeadHome, Ready
  <2>3. table'[d.fn] = table[d.fn]
    <3>1. CASE SetupLine
      BY <2>1, <3>1, LineStep DEF LineGiven
    <3> QED
      BY <3>1, LinesKept, FaultStep
  <2>4. control'[d.fn] = control[d.fn]
    <3>1. CASE CheckFunction \/ SetupMsix
      BY <2>1, <3>1 DEF CheckFunction, SetupMsix, TypeOK
    <3> QED
      BY <3>1 DEF Next, Enumerate, NoDevice, CheckDevice, Finish, OneMoreFunction, LastFunction,
         NextCapability, NoMsix, RegisterPlain, Accept, Refuse, SetupLine, TableFaults,
         LinesDone, SetupQueue, RegisterDriven, Tick, Interrupt, vars, space
  <2> QED
    BY <1>1, <2>2, <2>3, <2>4 DEF Ready
<1>4. CASE devices' = devices
  BY <1>2, <1>3, <1>4 DEF LinesLeadHome, LinesRight, Registered, Ready
<1>5. CASE devices' # devices
  <2>1. PICK driven \in BOOLEAN :
          /\ driven => pc = "setup"
          /\ Registered' = Registered \cup {[fn |-> at, msix |-> dev.msix,
                                             enabled |-> dev.enabled, driven |-> driven]}
    BY <1>5, Registers
  <2>2. pc \in Probing
    BY <1>5, Registers
  <2>3. PICK a : a = at
    OBVIOUS
  <2>4. driven /\ dev.msix /\ machine[a].entries = 2 => table[a][1] # 0 /\ control[a] = {"enable"}
    BY <2>1, <2>2, <2>3 DEF TableRight, DevRight, Here
  <2>5. table' = table /\ control' = control
    <3>1. RegisterPlain \/ RegisterDriven
      BY <1>5 DEF Next, Enumerate, NoDevice, CheckDevice, Finish, OneMoreFunction, LastFunction,
         CheckFunction, NextCapability, NoMsix, SetupMsix, Accept, Refuse, SetupLine, TableFaults,
         LinesDone, SetupQueue, Tick, Interrupt, vars
    <3> QED
      BY <3>1 DEF RegisterPlain, RegisterDriven, space
  <2>6. ASSUME NEW d \in Registered' PROVE Ready(d)'
    <3>1. CASE d \in Registered
      BY <1>3, <3>1
    <3>2. CASE d \notin Registered
      <4>1. d.fn = a /\ d.msix = dev.msix /\ d.driven = driven
        BY <2>1, <2>3, <3>2
      <4> QED
        BY <1>1, <2>4, <2>5, <4>1 DEF Ready
    <3> QED
      BY <3>1, <3>2
  <2> QED
    BY <1>2, <2>6 DEF LinesLeadHome, LinesRight, Ready
<1> QED
  BY <1>4, <1>5

LEMMA StopsNext ==
  ASSUME TypeOK, AtRight, QueuesRight, DevRight, LinesRight, StopsForCause, [Next]_vars
  PROVE  StopsForCause'
<1>m. machine' = machine
  BY Moves
<1>1. CASE stopped
  <2>1. UNCHANGED vars
    BY <1>1 DEF Next, Enumerate, NoDevice, CheckDevice, Finish, OneMoreFunction, LastFunction,
       CheckFunction, NextCapability, NoMsix, SetupMsix, RegisterPlain, Accept, Refuse, SetupLine,
       TableFaults, LinesDone, SetupQueue, RegisterDriven, Tick, Interrupt, At
  <2> QED
    BY <2>1 DEF vars, space, StopsForCause
<1>2. CASE stopped' = stopped
  BY <1>1, <1>2 DEF StopsForCause
<1>3. CASE Refuse
  <2>1. at \in Function /\ status' = [status EXCEPT ![at] = @ \cup {"ACK", "DRIVER", "FAILED"}]
    BY <1>3 DEF Refuse, At, AtRight, Probing
  <2>2. "FAILED" \in status'[at]
    BY <2>1 DEF TypeOK
  <2> QED
    BY <2>1, <2>2 DEF StopsForCause
<1>4. CASE TableFaults
  <2>1. /\ at \in Function /\ pc = "lines" /\ Here.window \notin mapped
        /\ at' = at /\ mapped' = mapped
    BY <1>4 DEF TableFaults, At, AtRight, Probing
  <2>2. Here.window \in {LastWindow} \cup {w - 1 : w \in mapped}
    BY <2>1 DEF DevRight, Probing
  <2>3. PICK p \in Function : p = at
    BY <2>1
  <2> QED
    BY <1>m, <2>1, <2>2, <2>3 DEF StopsForCause, Here
<1>5. CASE Interrupt /\ stopped'
  <2>1. PICK p \in Function : /\ Signals(p)
                              /\ queues[handler[table[p][1]]] \cap {"port", "request"} = {}
                              /\ eager' = (eager \/ "DRIVER_OK" \notin status[p])
    BY <1>5 DEF Interrupt
  <2>2. handler[table[p][1]] = p
    BY <2>1 DEF Signals, LinesRight
  <2>3. "DRIVER_OK" \notin status[p]
    BY <2>1, <2>2 DEF QueuesRight
  <2> QED
    BY <2>1, <2>3 DEF StopsForCause
<1>6. CASE Interrupt /\ ~stopped'
  BY <1>6 DEF StopsForCause
<1> QED
  BY <1>2, <1>3, <1>4, <1>5, <1>6
     DEF Next, Enumerate, NoDevice, CheckDevice, Finish, OneMoreFunction, LastFunction,
     CheckFunction, NextCapability, NoMsix, SetupMsix, RegisterPlain, Accept, SetupLine,
     LinesDone, SetupQueue, RegisterDriven, Tick, vars

-----------------------------------------------------------------------------
(* The theorems *)

LEMMA PciInit == Init => IInv
<1> SUFFICES ASSUME Init PROVE IInv
  OBVIOUS
<1>0. /\ << 0, 0 >> \in (0 .. Slots) \X (0 .. Fns) /\ << 0, 0 >> \in Function
      /\ TTL \in Nat /\ Slots \in Nat
  BY Functions, PciAssumption
<1>1. TypeOK
  <2>1. devices \in Seq(Device) /\ dev \in [msix : BOOLEAN, enabled : BOOLEAN, entries : 0 .. 2]
    BY DEF Init, NewDevice
  <2>2. /\ control \in [Function -> SUBSET {"enable", "mask"}]
        /\ status \in [Function -> SUBSET {"ACK", "DRIVER", "DRIVER_OK", "FAILED"}]
        /\ queues \in [Function -> SUBSET {"control", "port", "request"}]
    BY DEF Init
  <2>3. /\ table \in [Function -> [0 .. 1 -> Lines \cup {0}]]
        /\ handler \in [Lines -> Function \cup {NoFunction}]
    BY DEF Init
  <2>4. /\ machine \in Machines /\ cache \subseteq Function /\ mapped \subseteq 0 .. LastWindow
        /\ pc \in Places
    BY <1>0 DEF Init, Places
  <2>5. /\ at \in (0 .. Slots) \X (0 .. Fns)
        /\ pos \in Positions \cup {0} /\ ttl \in 0 .. TTL /\ entry \in 0 .. 2
        /\ stopped \in BOOLEAN /\ eager \in BOOLEAN
    <3>1. at = << 0, 0 >> /\ pos = 0 /\ ttl = 0 /\ entry = 0 /\ stopped = FALSE /\ eager = FALSE
      BY DEF Init
    <3>2. at \in (0 .. Slots) \X (0 .. Fns)
      BY <1>0, <3>1, Zenon
    <3>3. 0 \in 0 .. TTL /\ 0 \in 0 .. 2
      BY <1>0
    <3> QED
      BY <3>1, <3>2, <3>3, Zenon
  <2> QED
    BY <2>1, <2>2, <2>3, <2>4, <2>5 DEF TypeOK
<1>2. AtRight /\ Walks /\ DevRight /\ TableRight
  BY DEF Init, AtRight, Probing, Walks, DevRight, TableRight, NewDevice
<1>3. QueuesRight /\ LinesRight /\ StopsForCause
  BY DEF Init, QueuesRight, LinesRight, StopsForCause
<1>4. Registered = {}
  BY DEF Init, Registered
<1>5. Counted
  <2>1. UsedLines = {}
    BY DEF Init, UsedLines
  <2>2. Cardinality(UsedLines) = 0 /\ pc = "device"
    BY <2>1, FS_EmptySet DEF Init
  <2>3. PICK n \in Nat : n = Cardinality(VirtioBefore)
    BY CountsFinite
  <2> QED
    BY <2>2, <2>3 DEF Counted
<1>6. RegisteredBefore /\ Described /\ LinesLeadHome
  BY <1>3, <1>4 DEF RegisteredBefore, Described, LinesLeadHome, LinesRight
<1> QED
  BY <1>1, <1>2, <1>3, <1>5, <1>6 DEF IInv

LEMMA PciNext == IInv /\ [Next]_vars => IInv'
<1> SUFFICES ASSUME IInv, [Next]_vars PROVE IInv'
  OBVIOUS
<1> USE DEF IInv
<1>1. TypeOK' /\ AtRight' /\ QueuesRight'
  BY TypeNext, AtRightNext, QueuesNext
<1>2. LinesRight' /\ Counted' /\ TableRight'
  BY LinesNext, CountedNext, TableNext
<1>3. Walks' /\ DevRight' /\ RegisteredBefore'
  BY WalksNext, DevNext, RegisteredNext
<1>4. Described' /\ LinesLeadHome' /\ StopsForCause'
  BY DescribedNext, HomeNext, StopsNext
<1> QED
  BY <1>1, <1>2, <1>3, <1>4

\* The inductive invariant of the enumeration (pci.c:131-360): where the kernel is, what
\* it knows of the device in hand, and who has which interrupts.
THEOREM PciInvariance == Spec => []IInv
  BY PciInit, PciNext, PTL DEF Spec

\* Whatever the capabilities look like, and however many functions share one ldevice,
\* what a registered device says of MSI-X is true (pci.c:137, 635-661).
THEOREM DevicesDescribed == Spec => []Described
<1>1. IInv => Described
  BY DEF IInv
<1> QED
  BY <1>1, PciInvariance, PTL

\* Every interrupt has one driver, the one of the device that sends it, and devices
\* with MSI-X can interrupt (pci.c:320-330, pci_msi.c:81-95, idt.c:97-107).
THEOREM InterruptsLeadHome == Spec => []LinesLeadHome
<1>1. IInv => LinesLeadHome
  BY DEF IInv
<1> QED
  BY <1>1, PciInvariance, PTL

\* Enumeration stops for one of three causes and no other: a device without a feature,
\* one that interrupts too early, or a window that mmap leaves out.
THEOREM EnumerationStopsForCause == Spec => []StopsForCause
<1>1. IInv => StopsForCause
  BY DEF IInv
<1> QED
  BY <1>1, PciInvariance, PTL

=============================================================================
