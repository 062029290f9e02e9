---------------------------- MODULE TimerService ----------------------------
(***************************************************************************)
(* What new_timer promises, with no word about the queue that keeps it: a  *)
(* timer that was asked for runs its callback once, and not before its     *)
(* time, give or take the rounding of the hardware count to microseconds.  *)
(***************************************************************************)
EXTENDS Integers

CONSTANTS
  Entry,     \* names for the timers that are waiting
  Span,      \* the waiting times one may ask for, in ticks of the hardware
  Rounding   \* ticks that one rounding of the hardware count may lose

VARIABLES
  due        \* timer that waits |-> ticks for which it has still to wait

Less(n, k) == IF n > k THEN n - k ELSE 0

Only(S) == [e \in S |-> due[e]]

TypeOK == DOMAIN due \subseteq Entry /\ \A e \in DOMAIN due : due[e] \in Nat

Init == due = [e \in {} |-> 0]

Ask(e, n) ==
  /\ e \notin DOMAIN due
  /\ due' = [d \in DOMAIN due \cup {e} |-> IF d = e THEN n ELSE due[d]]

\* A tick of the hardware.
Pass == due' = [e \in DOMAIN due |-> Less(due[e], 1)]

\* The hardware is programmed anew, and its count rounded on the way.
Round(S) ==
  /\ S \subseteq DOMAIN due
  /\ due' = [e \in DOMAIN due |-> IF e \in S THEN Less(due[e], Rounding) ELSE due[e]]

\* The callbacks of S run, each of them once, none before its time.
Fire(S) ==
  /\ S \subseteq DOMAIN due
  /\ \A e \in S : due[e] = 0
  /\ due' = Only(DOMAIN due \ S)

Next ==
  \/ \E e \in Entry, n \in Span : Ask(e, n)
  \/ Pass
  \/ \E S \in SUBSET Entry : Round(S) \/ Fire(S)

Spec == Init /\ [][Next]_due

=============================================================================
