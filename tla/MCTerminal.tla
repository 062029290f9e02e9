----------------------------- MODULE MCTerminal -----------------------------
(***************************************************************************)
(* What is printed and typed on a small Terminal.                          *)
(***************************************************************************)
EXTENDS Terminal

Item(conv, digits, arg) == [conv |-> conv, digits |-> digits, arg |-> arg]

MCItems ==
  {Item("text", << >>, << "newline" >>),
   Item("d", << 0, 3 >>, -7),
   Item("text", << >>, << "x" >>)}

MCRemarks == {<< "newline" >>, << "backspace", "y" >>}

MCKeys ==
  {"PageUp", "PageDown", "ArrowUp", "ArrowLeft", "ArrowRight", "ArrowDown", "Backspace", "A", "Shift"}

-----------------------------------------------------------------------------

\* The value of a string of digits.
ValueOf(chars, base, alphabet) ==
  LET digit(c) == CHOOSE d \in 0 .. 15 : alphabet[d + 1] = c
      upto[n \in 0 .. Len(chars)] == IF n = 0 THEN 0 ELSE upto[n - 1] * base + digit(chars[n])
  IN  upto[Len(chars)]

\* uitoa and itoa, against what a numeral means: read back, the number is the one that
\* was given, as u32 unless it is a decimal with its sign, and it has no leading zero.
ASSUME NumbersReadBack ==
  \A n \in -(Word \div 2) .. Word - 1, alphabet \in {Lower, Upper}, base \in {2, 10, 16} :
    LET chars == Itoa(n, base, alphabet)
        signed == base = 10 /\ n < 0
    IN  /\ signed <=> chars[1] = "-"
        /\ signed => ValueOf(Tail(chars), 10, alphabet) = -n
        /\ ~signed => /\ ValueOf(chars, base, alphabet) = n % Word
                      /\ Len(chars) > 1 => chars[1] # "0"

\* printk: a number takes the width that is asked for, or what it needs, behind the 0X
\* of a pointer; zeros come before the sign of a negative number.
ASSUME WidthsAreKept ==
  \A conv \in {"d", "i", "u", "x", "X", "p", "P", "b"}, n \in {-100, -1, 0, 9, 255},
     digits \in {<< >>, << 0 >>, << 4 >>, << 0, 4 >>, << 1, 0 >>} :
    LET chars  == Printed(Item(conv, digits, n))
        prefix == IF conv \in {"p", "P"} THEN 2 ELSE 0
        needed == Len(Number(conv, n))
    IN  /\ Len(chars) - prefix = IF GetWidth(digits) > needed THEN GetWidth(digits) ELSE needed
        /\ SubSeq(chars, Len(chars) - needed + 1, Len(chars)) = Number(conv, n)

=============================================================================
