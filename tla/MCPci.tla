------------------------------- MODULE MCPci -------------------------------
(***************************************************************************)
(* Machines for Pci: a host bridge and two slots with a device of any of   *)
(* the kinds below, or none, and now and then a second function.  The      *)
(* firmware has given their windows out from below or from above.          *)
(***************************************************************************)
EXTENDS Pci

Caps(first, links, msix) ==
  [first |-> first,
   caps  |-> [x \in Positions |-> [msix |-> x \in msix, next |-> links[x]]]]

Make(vendor, sub, offers, bars, c, entries) ==
  [vendor |-> vendor, subsystem |-> sub, offers |-> offers, bars |-> bars,
   first |-> c.first, caps |-> c.caps, entries |-> entries, window |-> 0]

None   == Caps(0, << 0, 0, 0 >>, {})
Short  == Caps(1, << 0, 0, 0 >>, {1})
Long   == Caps(2, << 3, 1, 0 >>, {3})       \* 2, 1, 3: all positions there are
Astray == Caps(1, << 0, 3, 0 >>, {3})       \* MSI-X is there, but not in the list
Round  == Caps(1, << 2, 1, 0 >>, {3})

Absent == Make("none", "other", FALSE, {}, None, 1)
Bridge == Make("other", "other", FALSE, {}, None, 1)
Plain  == Make("virtio", "console", TRUE, {}, Short, 2)
Silent == Make("virtio", "console", TRUE, {}, Round, 2)

Kinds ==
  {Absent, Plain, Silent,
   Make("other", "other", FALSE, {"cache line"}, Short, 2),
   Make("virtio", "console", TRUE, {"cache line"}, Long, 2),
   Make("virtio", "console", TRUE, {"message control"}, Short, 1),
   Make("virtio", "console", TRUE, {}, Short, 1),
   Make("virtio", "console", FALSE, {}, Short, 2),
   Make("virtio", "block", TRUE, {}, Long, 2),
   Make("virtio", "block", TRUE, {"cache line"}, Astray, 2),
   Make("virtio", "other", TRUE, {}, Short, 2)}

\* The windows of the functions behind slot 0, in the order of their numbers or against it.
Windows ==
  LET number(p) == (p[1] - 1) * Fns + p[2] + 1
  IN  {[p \in Function |-> IF p[1] = 0 THEN 0 ELSE number(p)],
       [p \in Function |-> IF p[1] = 0 THEN 0 ELSE LastWindow + 1 - number(p)]}

MCMachines ==
  {[p \in Function |->
      LET kind == IF p[1] = 0 THEN IF p[2] = 0 THEN Bridge ELSE Absent
                  ELSE IF p[2] = 0 THEN first[p[1]] ELSE second[p[1]]
      IN  [kind EXCEPT !.window = windows[p]]]
    : first \in [1 .. Slots - 1 -> Kinds], second \in [1 .. Slots - 1 -> {Absent, Plain, Silent}],
      windows \in Windows}

=============================================================================
