------------------------------ MODULE Terminal ------------------------------
(***************************************************************************)
(* The text terminal of arch/x86/framebuffer.c, printk on top of it, and   *)
(* the keyboard handler of keyboard.c, on the one terminal of the kernel:  *)
(* `state', which current_state points to from terminal_init on.           *)
(*                                                                         *)
(* The terminal writes to the screen and keeps what has scrolled off it in *)
(* a list of pages.  Page Up shows a page instead: the screen is saved to  *)
(* the page at the head of the list, and the next character printed brings *)
(* it back.                                                                *)
(*                                                                         *)
(* Nothing is locked.  The kernel prints with interrupts enabled, and an   *)
(* interrupt handler prints too, or scrolls, or moves the cursor: a step   *)
(* of the kernel is an access to the shared state, and a handler, which    *)
(* runs with interrupts disabled, is one step between two of them.  The    *)
(* loops that copy or clear cells are single steps.                        *)
(***************************************************************************)
EXTENDS Integers, Sequences

CONSTANTS
  Width, Height,   \* VGA_WIDTH, VGA_HEIGHT
  Pages,           \* bound: pages kalloc has for the list
  Items,           \* what the kernel prints: conversions of a format
  Remarks,         \* what handlers print: strings
  Keys,            \* keys that are pressed
  Word,            \* 2^32: numbers are printed as u32
  MaxPrints,       \* bound: items the kernel prints
  MaxInterrupts    \* bound: interrupts taken

ASSUME TerminalAssumption ==
  /\ Width \in Nat /\ Width > 2          \* the prompt fits a line
  /\ Height \in Nat \ {0}
  /\ {Pages, MaxPrints, MaxInterrupts} \subseteq Nat
  /\ Word \in Nat \ {0}

VARIABLES
  t,       \* the terminal, the screen and the pages
  k,       \* the kernel: where it is in terminal_put_char, and its locals
  shift,   \* shift_make
  shadow,  \* history: the text of the live screen when Page Up replaced it
  mixed,   \* history: a handler used the terminal in the middle of terminal_put_char
  rewound, \* history: the cursor went back over what the head page already keeps
  behind,  \* history: Page Up from a page that is not the head any more
  prints, interrupts

vars == << t, k, shift, shadow, mixed, rewound, behind, prints, interrupts >>

-----------------------------------------------------------------------------
(* Cells *)

Length == Width * Height    \* VGA_LENGTH
Cell   == 0 .. Length - 1
Page   == 1 .. Pages

Blank  == "nul"      \* VGA_CHAR_COLOR(0, color)
Cursor == "cursor"   \* CURSOR_CHAR

Screen == 0    \* terminal_buffer = vga_buffer; else the number of a page
NULL   == 0

\* kalloc does not clear a page.  A pointer in it that nobody has set may be NULL, or lead to
\* memory that reads as a page with as many cells as it happens to say, or to none at all.
Wild     == -1
Unmapped == -2

\* Among the cells written to: those behind the screen, as many as Wild memory says.
Anywhere == -2

Empty == [i \in Cell |-> Blank]

Pos(s) == s.row * Width + s.column

\* vga_get_char: the frame buffer goes on behind the screen, and is blank there.
VgaAt(s, i) == IF i \in Cell THEN s.vga[i] ELSE Blank

\* vga_set_char: behind the screen nobody sees it.
SetVga(s, i, ch) ==
  IF i \in Cell THEN [s EXCEPT !.vga[i] = ch] ELSE [s EXCEPT !.strayed = @ \cup {i}]

\* What follows a write to somebody else's memory is not looked at.
Corrupt(s, cells) == [s EXCEPT !.strayed = @ \cup cells, !.stopped = TRUE]

\* terminal_set_char: outside of a page it is somebody else's memory.
SetChar(s, i, ch) ==
  IF s.buffer = Screen THEN SetVga(s, i, ch)
  ELSE IF i \in Cell THEN [s EXCEPT !.page[s.buffer][i] = ch]
  ELSE Corrupt(s, {i})

\* terminal_clear_row.
ClearRow(s) ==
  LET row == {s.row * Width + i : i \in 0 .. Width - 1}
      cleared(cells) == [i \in Cell |-> IF i \in row THEN Blank ELSE cells[i]]
  IN  IF row \subseteq Cell
        THEN IF s.buffer = Screen THEN [s EXCEPT !.vga = cleared(@)]
                                  ELSE [s EXCEPT !.page[s.buffer] = cleared(@)]
        ELSE IF s.buffer = Screen THEN [s EXCEPT !.strayed = @ \cup (row \ Cell),
                                                 !.vga = cleared(@)]
                                  ELSE Corrupt(s, row \ Cell)

-----------------------------------------------------------------------------
(* terminal_move_ *)

\* Mutant: what was under the cursor is not put back.
DrawOnly(s, last) ==
  IF s.buffer # Screen THEN s
  ELSE SetVga([s EXCEPT !.under = VgaAt(s, Pos(s))], Pos(s), Cursor)

\* The end of the function: the cursor goes from the cell `last' to where it is now.
DrawCursor(s, last) ==
  IF s.buffer # Screen THEN s
  ELSE LET back == SetVga(s, last, s.under)
       IN  SetVga([back EXCEPT !.under = VgaAt(back, Pos(back))], Pos(back), Cursor)

\* Mutant: the end of the line comes a column late.
RightLate(s) ==
  IF s.column < Width THEN [to |-> [s EXCEPT !.column = @ + 1], res |-> 0]
  ELSE IF s.row + 1 < Height
    THEN [to |-> [s EXCEPT !.column = 0, !.row = @ + 1], res |-> 1]
    ELSE [to |-> [s EXCEPT !.column = 0, !.row = 0], res |-> 2]

\* The four directions: where the cursor is then, and what the function returns.
Right(s) ==
  IF s.column + 1 < Width THEN [to |-> [s EXCEPT !.column = @ + 1], res |-> 0]
  ELSE IF s.row + 1 < Height
    THEN [to |-> [s EXCEPT !.column = 0, !.row = @ + 1], res |-> 1]
    ELSE [to |-> [s EXCEPT !.column = 0, !.row = 0], res |-> 2]

Left(s) ==
  IF s.column > 0 THEN [to |-> [s EXCEPT !.column = @ - 1], res |-> 0]
  ELSE IF s.row > 0
    THEN [to |-> [s EXCEPT !.column = Width - 1, !.row = @ - 1], res |-> 1]
    ELSE [to |-> [s EXCEPT !.column = Width - 1, !.row = Height - 1], res |-> 2]

Up(s) ==
  [to |-> [s EXCEPT !.row = IF @ > 0 THEN @ - 1 ELSE Height - 1], res |-> IF s.row > 0 THEN 0 ELSE 1]

Down(s) ==
  [to |-> [s EXCEPT !.row = IF @ + 1 < Height THEN @ + 1 ELSE 0],
   res |-> IF s.row + 1 < Height THEN 0 ELSE 1]

\* A whole call: dir is one of the four above.
Move(s, moved) == DrawCursor(moved.to, Pos(s))

-----------------------------------------------------------------------------
(* The pages *)

\* dlist_insert_head: `next' of the first node is left as it is.
InsertHead(s, p) ==
  [s EXCEPT !.prev = [q \in Page |-> IF q = p THEN NULL ELSE IF q = s.head THEN p ELSE @[q]],
            !.next[p] = IF s.head # NULL THEN s.head ELSE @,
            !.head = p]

\* terminal_save_state, first half: the head page if it has room, else a new one.
\* terminal_flags stay 0, so that the list is never limited.
ChoosePage(s) ==
  IF s.head # NULL /\ s.left[s.head] > 0 THEN s
  ELSE IF s.pages = Pages THEN [s EXCEPT !.stopped = TRUE]   \* kalloc: out of memory
  ELSE LET p == s.pages + 1
       IN  InsertHead([s EXCEPT !.pages = p, !.left[p] = Length], p)

\* Second half: the live text that the page p does not have yet is copied to it,
\* and what the terminal writes to is cleared.
SavePage(s, p) ==
  LET from  == Length - s.left[p]
      count == Pos(s) - from
  IN  IF s.buffer # Screen
        THEN [s EXCEPT !.buffer = p, !.page[p] = Empty, !.head = p]
      ELSE IF count > s.left[p]
        THEN Corrupt(s, {Pos(s) - 1})
      ELSE IF count > 0
        THEN [s EXCEPT !.page[p] = [i \in Cell |-> IF i \in from .. Pos(s) - 1
                                                     THEN s.vga[i] ELSE @[i]],
                       !.left[p] = @ - count, !.vga = Empty, !.head = p]
      ELSE [s EXCEPT !.vga = Empty, !.head = p]

Save(s) == LET c == ChoosePage(s) IN IF c.stopped THEN c ELSE SavePage(c, c.head)

Used(s, p) == Length - s.left[p]

\* The first cells of a page, on the screen; what follows them is `rest'.
Show(s, p, rest) ==
  IF Used(s, p) \in 0 .. Length
    THEN [s EXCEPT !.vga = [i \in Cell |-> IF i < Used(s, p) THEN s.page[p][i] ELSE rest[i]]]
    ELSE Corrupt(s, {Used(s, p)})

\* terminal_load_head.
LoadHead(s) ==
  IF s.buffer = Screen THEN s
  ELSE [Show(s, s.head, Empty) EXCEPT !.cur = s.head, !.buffer = Screen]

\* Mutant: the screen is saved only when pages are looked at for the first time.
LoadPrevUnsaved(s) ==
  LET prev  == IF s.cur # NULL THEN s.next[s.cur] ELSE s.head
      left  == IF prev = s.head THEN [Save(s) EXCEPT !.buffer = s.head] ELSE s
  IN  IF prev = NULL THEN s
      ELSE IF left.stopped THEN left
      ELSE IF prev = Unmapped THEN [left EXCEPT !.stopped = TRUE]
      ELSE IF prev = Wild THEN Corrupt(left, {Anywhere})
      ELSE [Show(left, prev, left.vga) EXCEPT !.cur = prev]

\* terminal_load_prev.  The buffer is that of the page that was the head before.  Of the
\* first page's `next', which nobody has written, the worst is taken: up to 2^15 cells are
\* copied from there, over the screen and what is behind it.
LoadPrev(s) ==
  LET prev  == IF s.cur # NULL THEN s.next[s.cur] ELSE s.head
      leave == prev = s.head \/ (s.cur = s.head /\ s.buffer = Screen)
      left  == IF leave THEN [Save(s) EXCEPT !.buffer = s.head] ELSE s
  IN  IF prev = NULL THEN s
      ELSE IF left.stopped THEN left
      ELSE IF prev = Unmapped THEN [left EXCEPT !.stopped = TRUE]
      ELSE IF prev = Wild THEN Corrupt(left, {Anywhere})
      ELSE [Show(left, prev, left.vga) EXCEPT !.cur = prev]

\* terminal_load_next.
LoadNext(s) ==
  LET next == IF s.cur # NULL THEN s.prev[s.cur] ELSE NULL
  IN  IF next = NULL THEN s
      ELSE [Show(s, next, Empty) EXCEPT !.cur = next,
                                        !.buffer = IF next = s.head THEN Screen ELSE @]

-----------------------------------------------------------------------------
(* terminal_put_char, as a handler calls it *)

\* Writing while a page is shown uses up the head page (or gives it back).
Spend(s, n) == IF s.buffer # Screen THEN [s EXCEPT !.left[s.head] = @ - n] ELSE s

\* terminal_advance_one, and the character.
PutChar(s, ch) ==
  LET at   == Spend(LoadHead(s), 1)
      move == Right(at)
      to   == DrawCursor(move.to, Pos(at))
      new  == IF move.res = 2 THEN Save(to) ELSE to
      row  == IF move.res > 0 THEN ClearRow(new) ELSE new
  IN  IF new.stopped THEN new ELSE SetChar(row, Pos(at), ch)

\* terminal_delete_one: at the first cell it writes to the one before it.
DeleteOne(s) ==
  LET at == Spend(LoadHead(s), -1)
      to == SetChar(at, Pos(at) - 1, Blank)
  IN  Move(to, Left(to))

Prompt(s) == [SetVga(s, Pos(s), Cursor) EXCEPT !.under = Blank]

\* terminal_next_line.
NextLine(s) ==
  LET at   == LoadHead(s)
      off  == SetVga(at, Pos(at), at.under)
      down == [off EXCEPT !.column = 0, !.row = @ + 1]
      line == IF down.row >= Height THEN [Save(down) EXCEPT !.row = 0] ELSE down
  IN  IF line.stopped THEN line
      ELSE Prompt(PutChar(PutChar(ClearRow(line), ">"), ">"))

Put(s, ch) ==
  IF s.stopped THEN s
  ELSE CASE ch = "newline" -> NextLine(s)
         [] ch = "backspace" -> DeleteOne(s)
         [] OTHER     -> PutChar(s, ch)

\* terminal_put_string: the terminal after each of the characters.
PutString(s, chars) ==
  LET after[n \in 0 .. Len(chars)] == IF n = 0 THEN s ELSE Put(after[n - 1], chars[n])
  IN  after

-----------------------------------------------------------------------------
(* printk *)

Lower == << "0", "1", "2", "3", "4", "5", "6", "7", "8", "9", "a", "b", "c", "d", "e", "f" >>
Upper == << "0", "1", "2", "3", "4", "5", "6", "7", "8", "9", "A", "B", "C", "D", "E", "F" >>

\* uitoa, with the characters that to_upper makes of its own.
Uitoa(value, base, chars) ==
  LET of[n \in Nat] == IF n < base THEN << chars[n + 1] >>
                       ELSE Append(of[n \div base], chars[(n % base) + 1])
  IN  of[value]

\* itoa: only decimals have a sign.
Itoa(value, base, chars) ==
  IF value < 0 /\ base = 10 THEN << "-" >> \o Uitoa(-value, base, chars)
                            ELSE Uitoa(value % Word, base, chars)

\* get_width.
GetWidth(digits) ==
  LET upto[n \in 0 .. Len(digits)] == IF n = 0 THEN 0 ELSE upto[n - 1] * 10 + digits[n]
  IN  upto[Len(digits)]

Number(conv, arg) ==
  CASE conv \in {"d", "i"} -> Itoa(arg, 10, Lower)
    [] conv = "u"          -> Uitoa(arg % Word, 10, Lower)
    [] conv \in {"x", "p"} -> Itoa(arg, 16, Lower)
    [] conv \in {"X", "P"} -> Itoa(arg, 16, Upper)
    [] conv = "b"          -> Itoa(arg, 2, Lower)

\* The characters of one item of a format: literal text or a conversion, with the
\* digits between the % and the letter.
Printed(item) ==
  LET number == Number(item.conv, item.arg)
      short  == GetWidth(item.digits) - Len(number)
      pad    == [i \in 1 .. short |-> IF item.digits[1] = 0 THEN "0" ELSE " "]
  IN  CASE item.conv \in {"text", "s"} -> item.arg
        [] item.conv = "c"             -> << item.arg >>
        [] item.conv = "%"             -> << "%" >>
        [] item.conv \in {"p", "P"}    -> << "0", "X" >> \o pad \o number
        [] OTHER                       -> pad \o number

-----------------------------------------------------------------------------
(* The keyboard *)

\* kbdlt and skbdlt, for some of the keys that stand for a character.
Kbdlt  == [A |-> "a", One |-> "1", Enter |-> "newline", Backspace |-> "backspace"]
Skbdlt == [A |-> "A", One |-> "!", Enter |-> "newline", Backspace |-> "backspace"]

\* What is printed or typed, or printed by the terminal itself.
Printable ==
  {Blank, ">"}
    \cup {Kbdlt[key] : key \in DOMAIN Kbdlt} \cup {Skbdlt[key] : key \in DOMAIN Skbdlt}
    \cup UNION {{Printed(item)[i] : i \in DOMAIN Printed(item)} : item \in Items}
    \cup UNION {{remark[i] : i \in DOMAIN remark} : remark \in Remarks}

\* Nothing that is printed looks like the cursor, and the kernel prints no backspace.
ASSUME PrintsAssumption ==
  /\ Cursor \notin Printable
  /\ \A item \in Items : Printed(item) \in Seq(Printable \ {"backspace", "prompt"})
  /\ Remarks \subseteq Seq(Printable)

\* keyboard_handler: what a key does to the terminal.  Other keys, the right Shift
\* among them, and all releases do nothing.
Pressed(s, key) ==
  CASE key = "PageUp"          -> LoadPrev(s)
    [] key = "PageDown"        -> LoadNext(s)
    [] key = "ArrowUp"         -> Move(s, Up(s))
    [] key = "ArrowLeft"       -> Move(s, Left(s))
    [] key = "ArrowRight"      -> Move(s, Right(s))
    [] key = "ArrowDown"       -> Move(s, Down(s))
    [] key \in DOMAIN Kbdlt    -> Put(s, IF shift THEN Skbdlt[key] ELSE Kbdlt[key])
    [] OTHER                   -> s

ShiftAfter(key) ==
  CASE key = "Shift" -> TRUE [] key = "Shift released" -> FALSE [] OTHER -> shift

-----------------------------------------------------------------------------

Idle == [pc |-> "idle", todo |-> << >>, idx |-> 0, last |-> 0, reg |-> 0, res |-> 0, new |-> NULL]

Gone == [i \in {-1} |-> Blank]   \* no shadow: the screen is live

\* terminal_init.  The pages hold whatever they held before.
Init ==
  /\ \E junk \in {NULL, Wild, Unmapped} :
       t = [row |-> 0, column |-> 0, buffer |-> Screen, vga |-> Empty, under |-> Blank,
            head |-> NULL, cur |-> NULL, pages |-> 0,
            page |-> [p \in Page |-> Empty], left |-> [p \in Page |-> 0],
            next |-> [p \in Page |-> junk], prev |-> [p \in Page |-> NULL],
            strayed |-> {}, stopped |-> FALSE]
  /\ k = Idle
  /\ shift = FALSE
  /\ shadow = Gone
  /\ mixed = FALSE /\ rewound = FALSE /\ behind = FALSE
  /\ prints = 0 /\ interrupts = 0

-----------------------------------------------------------------------------
(* The kernel, in printk *)

Between(l) == l.pc \in {"idle", "put"}

\* The head page keeps text that the cursor has gone back over.
Rewinds(s, l) ==
  /\ Between(l)
  /\ s.head # NULL
  /\ s.left[s.head] > 0
  /\ Pos(s) < Used(s, s.head)

\* Every step ends in the terminal s, with the kernel at l.
To(s, l) ==
  /\ t' = s /\ k' = l
  /\ rewound' = (rewound \/ Rewinds(s, l))
  /\ shadow' = IF t.buffer # Screen /\ s.buffer = Screen THEN Gone ELSE shadow

Kernel(pc) == k.pc = pc /\ ~t.stopped /\ UNCHANGED << shift, mixed, behind, prints, interrupts >>

Goto(pc) == [k EXCEPT !.pc = pc]

Char    == Head(k.todo)
NewLine == Char = "newline"

\* The rest of the string, of the item, of the prompt.
Rest(todo) == IF todo = << >> THEN Idle ELSE [Idle EXCEPT !.pc = "put", !.todo = todo]

Printk ==
  \E item \in Items :
    /\ k.pc = "idle" /\ ~t.stopped
    /\ prints < MaxPrints
    /\ prints' = prints + 1
    /\ To(t, Rest(Printed(item)))
    /\ UNCHANGED << shift, mixed, behind, interrupts >>

Begin ==
  /\ Kernel("put") /\ Char # "prompt"
  /\ To(LoadHead(t), Goto(IF NewLine THEN "erase" ELSE "index"))

EndPrompt ==
  /\ Kernel("put") /\ Char = "prompt"
  /\ To(Prompt(t), Rest(Tail(k.todo)))

\* terminal_advance_one: where the character goes.
TakeIndex ==
  /\ Kernel("index")
  /\ To(Spend(t, 1), [Goto("fetch") EXCEPT !.idx = Pos(t)])

\* terminal_move_: ++terminal_column is a load, an addition and a store.
FetchColumn ==
  /\ Kernel("fetch")
  /\ To(t, [Goto("column") EXCEPT !.last = Pos(t), !.reg = t.column])

StoreColumn ==
  /\ Kernel("column")
  /\ To([t EXCEPT !.column = k.reg + 1], Goto("edge"))

\* Mutant: the end of the screen comes a row late.
AtFootLate(s) == s.row > Height

AtEdge(s) == s.column >= Width
AtFoot(s) == s.row >= Height

TestColumn ==
  /\ Kernel("edge")
  /\ IF AtEdge(t)
       THEN To([t EXCEPT !.column = 0], [Goto("row") EXCEPT !.reg = t.row])
       ELSE To(t, [Goto("draw") EXCEPT !.res = 0])

StoreRow ==
  /\ Kernel("row")
  /\ To([t EXCEPT !.row = k.reg + 1], Goto("foot"))

TestRow ==
  /\ Kernel("foot")
  /\ IF AtFoot(t)
       THEN To([t EXCEPT !.row = 0], [Goto("draw") EXCEPT !.res = 2])
       ELSE To(t, [Goto("draw") EXCEPT !.res = 1])

After(res) == CASE res = 0 -> "char" [] res = 1 -> "clear" [] res = 2 -> "choose"

Draw ==
  /\ Kernel("draw")
  /\ To(DrawCursor(t, k.last), Goto(After(k.res)))

\* terminal_save_state, with the page it has chosen in a local variable.
Choose ==
  /\ Kernel("choose")
  /\ LET s == ChoosePage(t) IN To(s, [Goto("save") EXCEPT !.new = s.head])

SaveTo ==
  /\ Kernel("save")
  /\ To(SavePage(t, k.new), Goto("clear"))

\* Of a new line as well, which is at the top when the screen has been saved.
Clear ==
  /\ Kernel("clear")
  /\ IF NewLine
       THEN To(ClearRow(IF k.res = 2 THEN [t EXCEPT !.row = 0] ELSE t),
               Rest(<< ">", ">", "prompt" >> \o Tail(k.todo)))
       ELSE To(ClearRow(t), Goto("char"))

SetIt ==
  /\ Kernel("char")
  /\ To(SetChar(t, k.idx, Char), Rest(Tail(k.todo)))

\* terminal_next_line: the cursor is taken off the line that ends.
Erase ==
  /\ Kernel("erase")
  /\ To(IF t.buffer # Screen THEN Spend(t, Width - t.column) ELSE SetVga(t, Pos(t), t.under),
        Goto("return"))

Return ==
  /\ Kernel("return")
  /\ To([t EXCEPT !.column = 0], [Goto("line") EXCEPT !.reg = t.row])

Line ==
  /\ Kernel("line")
  /\ To([t EXCEPT !.row = k.reg + 1], Goto("bottom"))

TestLine ==
  /\ Kernel("bottom")
  /\ To(t, IF AtFoot(t) THEN [Goto("choose") EXCEPT !.res = 2]
                        ELSE [Goto("clear") EXCEPT !.res = 1])

-----------------------------------------------------------------------------
(* Interrupt handlers *)

\* A handler leaves the terminal s, and has met it in the states of `through'.
Interrupt(through, s) ==
  /\ ~t.stopped
  /\ interrupts < MaxInterrupts
  /\ interrupts' = interrupts + 1
  /\ mixed' = (mixed \/ (s # t /\ ~Between(k)))
  /\ UNCHANGED << k, prints >>
  /\ t' = s
  /\ rewound' = (rewound \/ \E p \in through : Rewinds(p, k))

Remark ==
  \E remark \in Remarks :
    LET after == PutString(t, remark)
    IN  /\ Interrupt({after[n] : n \in 1 .. Len(remark)}, after[Len(remark)])
        /\ shadow' = IF t.buffer # Screen THEN Gone ELSE shadow
        /\ UNCHANGED << shift, behind >>

\* What the live screen shows up to the cursor.
Text(s) == [i \in 0 .. Pos(s) - 1 |-> s.vga[i]]

Keyboard ==
  \E key \in Keys :
    LET s == Pressed(t, key)
        leaves == key = "PageUp" /\ t.buffer = Screen /\ s.cur # t.cur
    IN  /\ Interrupt({s}, s)
        /\ shift' = ShiftAfter(key)
        /\ shadow' = IF leaves THEN Text(t)
                     ELSE IF t.buffer # Screen /\ s.buffer = Screen THEN Gone ELSE shadow
        /\ behind' = (behind \/ (leaves /\ t.cur # NULL /\ t.cur # t.head))

Step ==
  \/ Printk \/ Begin \/ EndPrompt \/ TakeIndex \/ FetchColumn \/ StoreColumn \/ TestColumn
  \/ StoreRow \/ TestRow \/ Draw \/ Choose \/ SaveTo \/ Clear \/ SetIt
  \/ Erase \/ Return \/ Line \/ TestLine

Next == Step \/ Remark \/ Keyboard

Spec == Init /\ [][Next]_vars

-----------------------------------------------------------------------------
(* Properties *)

\* Between two characters the cursor is on the screen, wherever in the middle of a
\* character, of its own increments and tests, handlers have printed, scrolled or
\* moved it (terminal_move_ and terminal_next_line read the fields again).
InGrid ==
  Between(k) => t.row \in 0 .. Height - 1 /\ t.column \in 0 .. Width - 1

\* Nothing is written outside of the screen or of a page but for three causes: a handler
\* has used the terminal in the middle of terminal_put_char; a backspace came at the first
\* cell of the screen, and clears the one before it; Page Up was pressed at the first page
\* and followed the pointer that nobody has written.
StraysForCause ==
  ~mixed => /\ t.strayed \subseteq {-1, Anywhere}
            /\ Anywhere \in t.strayed => t.cur = 1 /\ t.next[t.cur] = Wild

\* However it is printed to and moved, the screen shows the cursor at most once: every
\* cursor that is drawn is taken back, or cleared, before the next.  What is copied from
\* memory that is no page may look like one.
OneCursor ==
  Between(k) /\ ~mixed /\ Anywhere \notin t.strayed =>
    \A i, j \in Cell : t.vga[i] = Cursor /\ t.vga[j] = Cursor => i = j

\* Page Up loses no text: while pages are shown, the head page keeps just the text of
\* the screen they replaced, so that the next character brings it back.  It need not when
\* the cursor had gone back, by an arrow or from the end of the screen to its start, and it
\* does not when lines have scrolled off since pages were last looked at
\* (terminal_load_prev then takes the screen for a page).
Recoverable ==
  shadow # Gone /\ ~t.stopped /\ ~mixed /\ ~rewound /\ ~behind =>
    /\ t.buffer # Screen
    /\ DOMAIN shadow = 0 .. Used(t, t.head) - 1
    /\ \A i \in DOMAIN shadow : t.page[t.head][i] = shadow[i]


-----------------------------------------------------------------------------
(* The inductive invariant *)

Glyph == Printable \cup {Cursor}

State ==
  [row : Nat, column : Nat, buffer : 0 .. Pages,
   vga : [Cell -> Glyph], under : Glyph,
   head : 0 .. Pages, cur : 0 .. Pages, pages : 0 .. Pages,
   page : [Page -> [Cell -> Glyph]], left : [Page -> Int],
   next : [Page -> -2 .. Pages], prev : [Page -> 0 .. Pages],
   strayed : SUBSET Int, stopped : BOOLEAN]

Places ==
  {"idle", "put", "index", "fetch", "column", "edge", "row", "foot", "draw", "choose", "save",
   "clear", "char", "erase", "return", "line", "bottom"}

\* Where the kernel can be in a new line alone, and in another character alone.
Lines == {"erase", "return", "line", "bottom"}
Chars == {"index", "fetch", "column", "edge", "row", "foot", "draw", "char"}

Progress ==
  [pc : Places, todo : Seq(Printable \cup {"prompt"}), idx : Nat, last : Nat, reg : Nat,
   res : 0 .. 2, new : 0 .. Pages]

TypeOK ==
  /\ t \in State
  /\ k \in Progress
  /\ shift \in BOOLEAN /\ mixed \in BOOLEAN /\ rewound \in BOOLEAN /\ behind \in BOOLEAN
  /\ prints \in Nat /\ interrupts \in Nat

\* The end of a prompt comes after its characters alone.
PromptRight(todo) ==
  \A i \in DOMAIN todo : todo[i] = "prompt" => \A j \in 1 .. i - 1 : todo[j] = ">"

\* What is to be printed.
TodoRight(l) ==
  /\ l.pc # "idle" => l.todo # << >>
  /\ PromptRight(l.todo)
  /\ ~Between(l) => Head(l.todo) # "prompt"
  /\ l.pc \in Lines => Head(l.todo) = "newline"
  /\ l.pc \in Chars => Head(l.todo) # "newline"

\* What the terminal needs when it shows pages.
Listed(s) == s.buffer # Screen \/ s.cur # NULL => s.head # NULL

\* Only between an increment and its test is the cursor outside of the screen, or in a
\* new line until the screen has been saved.
OverEdge(l) == l.pc = "edge"
OverFoot(l) ==
  \/ l.pc \in {"foot", "bottom"}
  \/ l.pc \in {"choose", "save", "clear"} /\ Head(l.todo) = "newline" /\ l.res = 2

Placed(s, l) ==
  /\ s.column < Width \/ OverEdge(l)
  /\ s.row < Height \/ OverFoot(l)
  /\ l.pc = "column" => l.reg < Width
  /\ l.pc \in {"row", "line"} => l.reg < Height
  /\ l.pc = "save" /\ ~s.stopped => l.new \in Page

\* The list of pages, in the order of their numbers.
PagesRight(s) ==
  /\ s.head = s.pages /\ s.cur <= s.pages /\ s.buffer <= s.pages
  /\ s.buffer # Screen => s.cur # NULL
  /\ \A p \in 1 .. s.pages : s.left[p] \in 0 .. Length
  /\ \A p \in 2 .. s.pages : s.next[p] = p - 1
  /\ \A p \in Page : /\ s.next[p] \in {p - 1, NULL, Wild, Unmapped}
                     /\ s.prev[p] = IF p < s.pages THEN p + 1 ELSE NULL

\* Where the screen can show the cursor.
CursorAt(s, c) == \A i \in Cell : s.vga[i] = Cursor => i = c
NoCursor(s)    == \A i \in Cell : s.vga[i] # Cursor

\* What is put back or shown again is no cursor.
Stored(s) ==
  /\ s.under # Cursor
  /\ \A p \in Page, i \in Cell : s.page[p][i] # Cursor
  /\ s.strayed \subseteq {-1}

Sound(s) == Stored(s) /\ (~s.stopped => PagesRight(s))

Drawn(s) ==
  IF s.buffer = Screen THEN CursorAt(s, Pos(s)) ELSE \E c \in Cell : CursorAt(s, c)

\* A prompt may be half printed when Page Up is pressed.
Promptless(todo) == \A i \in DOMAIN todo : todo[i] # "prompt"

\* Between two characters.
Outside(s, l) ==
  Between(l) =>
    /\ Drawn(s)
    /\ s.buffer # Screen /\ ~s.stopped => NoCursor(s) \/ Promptless(l.todo)

\* In the middle of one.
Beyond(s, l) == Pos(s) = l.last + 1
Over(s, l)   == Pos(s) = 0 /\ l.res = 2
Wraps(s, l)  == l.idx = l.last /\ l.idx \in Cell /\ (Over(s, l) \/ (Beyond(s, l) /\ l.res < 2))

Inside(s, l) ==
  ~s.stopped /\ ~Between(l) =>
    /\ s.buffer = Screen
    /\ l.pc \in {"index", "fetch", "erase"} => CursorAt(s, Pos(s))
    /\ l.pc = "fetch" => l.idx = Pos(s)
    /\ l.pc \in {"column", "edge", "row", "foot", "draw"} =>
         l.idx = l.last /\ l.idx \in Cell /\ CursorAt(s, l.last)
    /\ l.pc = "column" => l.last = Pos(s) /\ l.reg = s.column
    /\ l.pc \in {"edge", "foot"} => Beyond(s, l)
    /\ l.pc = "edge" => s.column <= Width
    /\ l.pc = "row" => s.column = 0 /\ l.reg = s.row /\ (s.row + 1) * Width = l.last + 1
    /\ l.pc = "foot" => s.column = 0
    /\ l.pc = "draw" => Wraps(s, l) /\ (l.res > 0 => s.column = 0)
    /\ l.pc = "char" => Wraps(s, l) /\ CursorAt(s, Pos(s))
    /\ l.pc \in {"choose", "save", "clear"} =>
         /\ s.column = 0
         /\ l.res = 2 \/ (l.pc = "clear" /\ l.res = 1)
         /\ IF Head(l.todo) = "newline"
              THEN NoCursor(s) /\ (s.row = Height <=> l.res = 2)
              ELSE Wraps(s, l) /\ CursorAt(s, Pos(s))
    /\ l.pc = "save" => l.new = s.head
    /\ l.pc \in {"return", "line", "bottom"} => NoCursor(s)
    /\ l.pc \in {"line", "bottom"} => s.column = 0
    /\ l.pc = "bottom" => s.row <= Height
    /\ l.pc = "line" => l.reg = s.row

\* Page Up at the first page has ended everything.
FollowedWild(s) ==
  /\ s.stopped
  /\ s.strayed \subseteq {-1, Anywhere} /\ Anywhere \in s.strayed
  /\ s.cur = 1 /\ s.next[s.cur] = Wild

\* The text that the head page has is on the screen too, up to the cell n.
Kept(s) == s.head # NULL /\ s.left[s.head] > 0

Same(s) ==
  Kept(s) /\ s.buffer = Screen /\ s.cur \in {NULL, s.head} =>
    \A i \in 0 .. Used(s, s.head) - 1 : s.page[s.head][i] = s.vga[i]

Upto(s, n) == Kept(s) => Used(s, s.head) <= n

\* At the end of the screen another character than a new line goes back to the top.
Wrapped(l) ==
  l.pc \in {"choose", "save", "clear", "char"} /\ Head(l.todo) # "newline" /\ l.res = 2

\* What the head page has is not written over on the screen.
Safe(s, l) ==
  ~s.stopped =>
    /\ ~Wrapped(l) => Same(s)
    /\ Between(l) => Upto(s, Pos(s))
    /\ l.pc \in {"index", "fetch", "erase"} => Upto(s, Pos(s))
    /\ l.pc \in {"column", "edge", "row", "foot", "draw"} => Upto(s, l.last)
    /\ l.pc \in {"clear", "char"} /\ ~Wrapped(l) /\ Head(l.todo) # "newline" => Upto(s, l.idx)
    /\ l.pc \in {"return", "line"} => Upto(s, (s.row + 1) * Width)
    /\ l.pc \in {"bottom", "choose", "save", "clear"} /\ Head(l.todo) = "newline" =>
         Upto(s, s.row * Width)
    /\ l.pc = "clear" /\ Head(l.todo) = "newline" /\ l.res = 2 => ~Kept(s)

IInv ==
  /\ TypeOK /\ TodoRight(k) /\ Listed(t) /\ Placed(t, k)
  /\ ~mixed => FollowedWild(t) \/ (Sound(t) /\ Outside(t, k) /\ Inside(t, k))
  /\ ~mixed /\ ~rewound => Safe(t, k)
  /\ Recoverable
=============================================================================
