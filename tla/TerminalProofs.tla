--------------------------- MODULE TerminalProofs ---------------------------
(***************************************************************************)
(* Theorems about Terminal.                                                *)
(***************************************************************************)
EXTENDS Terminal, NaturalSets, TLAPS

-----------------------------------------------------------------------------
(* The operations keep to the fields *)

\* Everything but the text on the screen, and writes behind it.
OnScreen(s, r) ==
  /\ r.row = s.row /\ r.column = s.column /\ r.buffer = s.buffer
  /\ r.head = s.head /\ r.cur = s.cur /\ r.pages = s.pages
  /\ r.page = s.page /\ r.left = s.left /\ r.next = s.next /\ r.prev = s.prev
  /\ r.stopped = s.stopped

\* vga_set_char writes to the screen, or behind it.
LEMMA SetVgaIs ==
  ASSUME NEW s \in State, NEW i \in Int, NEW ch \in Glyph
  PROVE  /\ SetVga(s, i, ch) \in State
         /\ OnScreen(s, SetVga(s, i, ch))
         /\ SetVga(s, i, ch).under = s.under
         /\ i \in Cell => /\ SetVga(s, i, ch).vga = [s.vga EXCEPT ![i] = ch]
                          /\ SetVga(s, i, ch).strayed = s.strayed
         /\ i \notin Cell => /\ SetVga(s, i, ch).vga = s.vga
                             /\ SetVga(s, i, ch).strayed = s.strayed \cup {i}
BY DEF State, SetVga, OnScreen

\* Wherever that is, it changes no other field.
LEMMA SetVgaFrame ==
  ASSUME NEW s \in State, NEW i \in Int, NEW ch \in Glyph, NEW r, r = SetVga(s, i, ch)
  PROVE  r \in State /\ OnScreen(s, r) /\ r.under = s.under
BY SetVgaIs

\* On the screen a cell is set.
LEMMA SetVgaOn ==
  ASSUME NEW s \in State, NEW i \in Cell, NEW ch \in Glyph
  PROVE  /\ SetVga(s, i, ch).vga = [s.vga EXCEPT ![i] = ch]
         /\ SetVga(s, i, ch).strayed = s.strayed
BY DEF State, SetVga

\* Behind the screen it is only noted where the character went.
LEMMA SetVgaOff ==
  ASSUME NEW s \in State, NEW i \in Int, NEW ch \in Glyph, i \notin Cell
  PROVE  SetVga(s, i, ch).vga = s.vga /\ SetVga(s, i, ch).strayed = s.strayed \cup {i}
BY DEF State, SetVga

-----------------------------------------------------------------------------
(* The grid *)

\* A product of naturals is a natural, and grows with each.
LEMMA Products ==
  ASSUME NEW a \in Nat, NEW b \in Nat, NEW w \in Nat, a <= b
  PROVE  a * w \in Nat /\ b * w \in Nat /\ a * w <= b * w
<1> DEFINE d == b - a
<1>1. d \in Nat /\ b = a + d
  OBVIOUS
<1>2. d * w \in Nat /\ a * w \in Nat
  BY <1>1
<1>3. b * w = a * w + d * w
  BY <1>1
<1> QED
  BY <1>2, <1>3

\* Cell c of row r is on the screen, and before the next row.
LEMMA Grid ==
  ASSUME NEW r \in Nat, NEW c \in Nat
  PROVE  /\ r * Width \in Nat /\ r * Width + c \in Nat
         /\ (r + 1) * Width = r * Width + Width
         /\ c < Width => r * Width + c < (r + 1) * Width
         /\ r < Height => (r + 1) * Width <= Length
         /\ Height * Width = Length
         /\ Length \in Nat \ {0}
<1>1. Width \in Nat \ {0} /\ Height \in Nat \ {0} /\ Length = Height * Width
  BY TerminalAssumption DEF Length
<1>2. r * Width \in Nat /\ (r + 1) * Width = r * Width + Width
  BY <1>1
<1>3. ASSUME r < Height PROVE (r + 1) * Width <= Length
  BY <1>1, <1>3, Products, r + 1 \in Nat, r + 1 <= Height
<1>4. Length \in Nat \ {0}
  <2>1. Height * Width = (Height - 1) * Width + Width
    BY <1>1
  <2>2. (Height - 1) * Width \in Nat
    BY <1>1
  <2> QED
    BY <1>1, <2>1, <2>2
<1> QED
  BY <1>1, <1>2, <1>3, <1>4

\* The cells have numbers.
LEMMA CellIs == Length \in Nat \ {0} /\ \A i \in Cell : i \in Nat /\ i < Length
<1>1. Length \in Nat \ {0}
  BY Grid
<1> QED
  BY <1>1 DEF Cell

\* The cell the cursor is in.
LEMMA PosIs ==
  ASSUME NEW s \in State
  PROVE  /\ Pos(s) \in Nat
         /\ s.row < Height /\ s.column < Width => Pos(s) \in Cell
<1>1. s.row \in Nat /\ s.column \in Nat
  BY TerminalAssumption DEF State
<1>2. PICK r \in Nat, c \in Nat : r = s.row /\ c = s.column
  BY <1>1
<1>3. r * Width + c \in Nat /\ (c < Width => r * Width + c < (r + 1) * Width)
  BY Grid
<1>4. r < Height => (r + 1) * Width <= Length
  BY Grid
<1>5. Pos(s) = r * Width + c
  BY <1>2 DEF Pos
<1>6. (r + 1) * Width \in Int /\ Length \in Int
  BY Grid, TerminalAssumption
<1>7. r < Height /\ c < Width => r * Width + c \in 0 .. Length - 1
  BY <1>3, <1>4, <1>6
<1> QED
  BY <1>2, <1>3, <1>5, <1>7 DEF Cell

-----------------------------------------------------------------------------
(* Types *)

\* Numbers of pages, and characters.
LEMMA Constants ==
  /\ Pages \in Nat
  /\ \A p \in 0 .. Pages : p \in Int /\ (p # 0 <=> p \in Page)
  /\ Blank \in Glyph /\ Cursor \in Glyph /\ Blank # Cursor
  /\ Printable \subseteq Glyph /\ Cursor \notin Printable /\ ">" \in Printable
<1>1. Pages \in Nat
  BY TerminalAssumption
<1>2. \A p \in 0 .. Pages : p \in Int /\ (p # 0 <=> p \in Page)
  BY <1>1 DEF Page
<1>3. Blank \in Printable /\ ">" \in Printable
  BY DEF Printable
<1>4. Printable \subseteq Glyph /\ Cursor \in Glyph
  BY DEF Glyph
<1> QED
  BY <1>1, <1>2, <1>3, <1>4, PrintsAssumption

\* What the fields hold.
LEMMA Fields ==
  ASSUME NEW s \in State
  PROVE  /\ s.row \in Nat /\ s.column \in Nat
         /\ s.buffer \in 0 .. Pages /\ s.head \in 0 .. Pages /\ s.cur \in 0 .. Pages
         /\ s.pages \in 0 .. Pages
         /\ s.vga \in [Cell -> Glyph] /\ s.under \in Glyph
         /\ s.page \in [Page -> [Cell -> Glyph]] /\ s.left \in [Page -> Int]
         /\ s.next \in [Page -> -2 .. Pages] /\ s.prev \in [Page -> 0 .. Pages]
         /\ s.strayed \subseteq Int /\ s.stopped \in BOOLEAN
BY TerminalAssumption DEF State

\* The operations that write characters leave everything else as it is.
Writes(s, r) ==
  /\ r \in State
  /\ r.row = s.row /\ r.column = s.column /\ r.buffer = s.buffer
  /\ r.head = s.head /\ r.cur = s.cur /\ r.pages = s.pages
  /\ r.left = s.left /\ r.next = s.next /\ r.prev = s.prev

\* terminal_set_char.
LEMMA SetCharType ==
  ASSUME NEW s \in State, NEW i \in Int, NEW ch \in Glyph
  PROVE  Writes(s, SetChar(s, i, ch))
<1>1. CASE s.buffer = Screen
  <2>1. SetVga(s, i, ch) \in State /\ OnScreen(s, SetVga(s, i, ch))
    BY SetVgaIs
  <2>2. SetChar(s, i, ch) = SetVga(s, i, ch)
    BY <1>1 DEF SetChar
  <2> QED
    BY <2>1, <2>2 DEF Writes, OnScreen
<1>2. CASE s.buffer # Screen /\ i \in Cell
  <2>1. s.buffer \in Page /\ s.page[s.buffer] \in [Cell -> Glyph]
    BY <1>2, Fields, Constants DEF Screen
  <2> DEFINE pages == [s.page EXCEPT ![s.buffer] = [s.page[s.buffer] EXCEPT ![i] = ch]]
  <2>2. SetChar(s, i, ch) = [s EXCEPT !.page = pages]
    BY <1>2 DEF SetChar
  <2>3. [s.page[s.buffer] EXCEPT ![i] = ch] \in [Cell -> Glyph]
    BY <2>1
  <2>4. pages \in [Page -> [Cell -> Glyph]]
    BY <2>1, <2>3, Fields
  <2> HIDE DEF pages
  <2> QED
    BY <2>2, <2>4 DEF State, Writes
<1>3. CASE s.buffer # Screen /\ i \notin Cell
  BY <1>3 DEF SetChar, Corrupt, State, Writes
<1> QED
  BY <1>1, <1>2, <1>3

\* The cells of a row.
RowOf(s) == {s.row * Width + i : i \in 0 .. Width - 1}

\* terminal_clear_row.
LEMMA ClearRowType ==
  ASSUME NEW s \in State
  PROVE  Writes(s, ClearRow(s))
<1> DEFINE cleared(cells) == [i \in Cell |-> IF i \in RowOf(s) THEN Blank ELSE cells[i]]
<1>1. RowOf(s) \subseteq Int
  BY TerminalAssumption DEF RowOf, State
<1>2. \A cells \in [Cell -> Glyph] : cleared(cells) \in [Cell -> Glyph]
  BY Constants
<1>3. ClearRow(s) =
        IF RowOf(s) \subseteq Cell
          THEN IF s.buffer = Screen THEN [s EXCEPT !.vga = cleared(@)]
                                    ELSE [s EXCEPT !.page[s.buffer] = cleared(@)]
          ELSE IF s.buffer = Screen THEN [s EXCEPT !.strayed = @ \cup (RowOf(s) \ Cell),
                                                   !.vga = cleared(@)]
                                    ELSE Corrupt(s, RowOf(s) \ Cell)
  BY DEF ClearRow, RowOf
<1> HIDE DEF cleared
<1>4. s.buffer # Screen => s.buffer \in Page /\ s.page[s.buffer] \in [Cell -> Glyph]
  BY Fields, Constants DEF Screen
<1>5. s.vga \in [Cell -> Glyph]
  BY Fields
<1>6. cleared(s.vga) \in [Cell -> Glyph]
  BY <1>2, <1>5
<1>7. ASSUME s.buffer # Screen, RowOf(s) \subseteq Cell
      PROVE  Writes(s, ClearRow(s))
  <2> DEFINE pages == [s.page EXCEPT ![s.buffer] = cleared(s.page[s.buffer])]
  <2>1. ClearRow(s) = [s EXCEPT !.page = pages]
    BY <1>3, <1>7
  <2>2. cleared(s.page[s.buffer]) \in [Cell -> Glyph]
    BY <1>2, <1>4, <1>7
  <2>3. pages \in [Page -> [Cell -> Glyph]]
    BY <2>2, <1>4, <1>7, Fields
  <2> HIDE DEF pages
  <2> QED
    BY <2>1, <2>3 DEF State, Writes
<1> DEFINE out == s.strayed \cup (RowOf(s) \ Cell)
           clear == cleared(s.vga)
<1>8. out \in SUBSET Int
  BY <1>1, Fields
<1>9. ASSUME s.buffer = Screen PROVE Writes(s, ClearRow(s))
  <2>1. \/ ClearRow(s) = [s EXCEPT !.vga = clear]
        \/ ClearRow(s) = [s EXCEPT !.strayed = out, !.vga = clear]
    BY <1>3, <1>9
  <2>2. clear \in [Cell -> Glyph]
    BY <1>6
  <2> HIDE DEF out, clear
  <2> QED
    BY <2>1, <2>2, <1>8 DEF State, Writes
<1>10. ASSUME s.buffer # Screen, ~(RowOf(s) \subseteq Cell) PROVE Writes(s, ClearRow(s))
  <2>1. ClearRow(s) = [s EXCEPT !.strayed = out, !.stopped = TRUE]
    BY <1>3, <1>10 DEF Corrupt
  <2> HIDE DEF out
  <2> QED
    BY <2>1, <1>8 DEF State, Writes
<1> QED
  BY <1>7, <1>9, <1>10

\* The end of terminal_move_.
LEMMA DrawCursorType ==
  ASSUME NEW s \in State, NEW last \in Int
  PROVE  Writes(s, DrawCursor(s, last))
<1>1. CASE s.buffer # Screen
  BY <1>1 DEF DrawCursor, Writes
<1>2. CASE s.buffer = Screen
  <2> DEFINE back == SetVga(s, last, s.under)
             seen == [back EXCEPT !.under = VgaAt(back, Pos(back))]
  <2>1. back \in State /\ OnScreen(s, back)
    BY SetVgaIs DEF State
  <2>2. VgaAt(back, Pos(back)) \in Glyph
    BY <2>1, Fields, Constants DEF VgaAt
  <2>3. seen \in State /\ OnScreen(back, seen)
    BY <2>1, <2>2 DEF State, OnScreen
  <2>4. Pos(back) \in Int
    BY <2>1, PosIs
  <2>5. SetVga(seen, Pos(back), Cursor) \in State
        /\ OnScreen(seen, SetVga(seen, Pos(back), Cursor))
    BY <2>3, <2>4, SetVgaIs, Constants
  <2>6. DrawCursor(s, last) = SetVga(seen, Pos(back), Cursor)
    BY <1>2 DEF DrawCursor
  <2> QED
    BY <2>1, <2>3, <2>5, <2>6 DEF Writes, OnScreen
<1> QED
  BY <1>1, <1>2

\* What a handler may do, wherever it finds the cursor: it leaves it there or on the screen.
Handles(s, r) ==
  /\ r \in State /\ Listed(r)
  /\ s.row < Height => r.row < Height
  /\ s.column < Width => r.column < Width

\* One thing after another.
LEMMA HandlesOn ==
  ASSUME NEW s, NEW r, NEW u, Handles(s, r), Handles(r, u)
  PROVE  Handles(s, u)
BY DEF Handles

\* A write to the text or to a page moves nothing.
LEMMA WritesHandles ==
  ASSUME NEW s \in State, NEW r, Listed(s), Writes(s, r)
  PROVE  Handles(s, r)
BY DEF Handles, Writes, Listed

\* Everything but the place of the cursor.
Moves(s, r) ==
  /\ r \in State
  /\ r.buffer = s.buffer /\ r.vga = s.vga /\ r.under = s.under
  /\ r.head = s.head /\ r.cur = s.cur /\ r.pages = s.pages
  /\ r.page = s.page /\ r.left = s.left /\ r.next = s.next /\ r.prev = s.prev
  /\ r.strayed = s.strayed /\ r.stopped = s.stopped

\* The directions of terminal_move_.
Directions(s) == {Right(s), Left(s), Up(s), Down(s)}


\* The fields of the cursor are set to row and column.
Puts(s, r, row, column) ==
  \/ r = [s EXCEPT !.row = row] /\ column = s.column
  \/ r = [s EXCEPT !.column = column] /\ row = s.row
  \/ r = [s EXCEPT !.column = column, !.row = row]

\* The cursor is moved and nothing else is changed.
LEMMA PlacedType ==
  ASSUME NEW s \in State, NEW row \in Nat, NEW column \in Nat, NEW r,
         Puts(s, r, row, column)
  PROVE  Moves(s, r) /\ r.row = row /\ r.column = column
<1>1. CASE r = [s EXCEPT !.row = row] /\ column = s.column
  BY <1>1 DEF State, Moves
<1>2. CASE r = [s EXCEPT !.column = column] /\ row = s.row
  BY <1>2 DEF State, Moves
<1>3. CASE r = [s EXCEPT !.column = column, !.row = row]
  BY <1>3 DEF State, Moves
<1> QED
  BY <1>1, <1>2, <1>3 DEF Puts

\* The four directions move the cursor, on the screen if it was there.
LEMMA DirectionType ==
  ASSUME NEW s \in State, NEW m \in Directions(s)
  PROVE  /\ Moves(s, m.to) /\ m.res \in 0 .. 2
         /\ s.row < Height => m.to.row < Height
         /\ s.column < Width => m.to.column < Width
<1>1. /\ s.row \in Nat /\ s.column \in Nat
      /\ Width \in Nat /\ Width > 2 /\ Height \in Nat \ {0}
  BY Fields, TerminalAssumption
<1> SUFFICES /\ m.res \in 0 .. 2
             /\ \E row \in Nat, column \in Nat :
                  /\ Puts(s, m.to, row, column)
                  /\ s.row < Height => row < Height
                  /\ s.column < Width => column < Width
  <2>1. PICK row \in Nat, column \in Nat :
               /\ Puts(s, m.to, row, column)
               /\ s.row < Height => row < Height
               /\ s.column < Width => column < Width
    OBVIOUS
  <2> QED
    BY <2>1, PlacedType
<1>2. CASE m = Right(s)
  <2>1. CASE s.column + 1 < Width
    <3>1. m.res = 0 /\ m.to = [s EXCEPT !.column = s.column + 1]
      BY <1>2, <2>1 DEF Right
    <3>2. Puts(s, m.to, s.row, s.column + 1)
      BY <3>1 DEF Puts
    <3> QED
      BY <1>1, <2>1, <3>1, <3>2
  <2>2. CASE ~(s.column + 1 < Width) /\ s.row + 1 < Height
    <3>1. m.res = 1 /\ m.to = [s EXCEPT !.column = 0, !.row = s.row + 1]
      BY <1>2, <2>2 DEF Right
    <3>2. Puts(s, m.to, s.row + 1, 0)
      BY <3>1 DEF Puts
    <3> QED
      BY <1>1, <2>2, <3>1, <3>2
  <2>3. CASE ~(s.column + 1 < Width) /\ ~(s.row + 1 < Height)
    <3>1. m.res = 2 /\ m.to = [s EXCEPT !.column = 0, !.row = 0]
      BY <1>2, <2>3 DEF Right
    <3>2. Puts(s, m.to, 0, 0)
      BY <3>1 DEF Puts
    <3> QED
      BY <1>1, <3>1, <3>2
  <2> QED
    BY <2>1, <2>2, <2>3
<1>3. CASE m = Left(s)
  <2>1. CASE s.column > 0
    <3>1. m.res = 0 /\ m.to = [s EXCEPT !.column = s.column - 1]
      BY <1>3, <2>1 DEF Left
    <3>2. Puts(s, m.to, s.row, s.column - 1)
      BY <3>1 DEF Puts
    <3> QED
      BY <1>1, <2>1, <3>1, <3>2
  <2>2. CASE ~(s.column > 0) /\ s.row > 0
    <3>1. m.res = 1 /\ m.to = [s EXCEPT !.column = Width - 1, !.row = s.row - 1]
      BY <1>3, <2>2 DEF Left
    <3>2. Puts(s, m.to, s.row - 1, Width - 1)
      BY <3>1 DEF Puts
    <3>3. /\ s.row - 1 \in Nat /\ (s.row < Height => s.row - 1 < Height)
          /\ Width - 1 \in Nat /\ Width - 1 < Width
      BY <1>1, <2>2
    <3> QED
      BY <3>1, <3>2, <3>3
  <2>3. CASE ~(s.column > 0) /\ ~(s.row > 0)
    <3>1. m.res = 2 /\ m.to = [s EXCEPT !.column = Width - 1, !.row = Height - 1]
      BY <1>3, <2>3 DEF Left
    <3>2. Puts(s, m.to, Height - 1, Width - 1)
      BY <3>1 DEF Puts
    <3> QED
      BY <1>1, <3>1, <3>2
  <2> QED
    BY <2>1, <2>2, <2>3
<1>4. CASE m = Up(s)
  <2> DEFINE row == IF s.row > 0 THEN s.row - 1 ELSE Height - 1
  <2>1. m.res \in 0 .. 2 /\ m.to = [s EXCEPT !.row = row]
    BY <1>4 DEF Up
  <2>2. row \in Nat /\ (s.row < Height => row < Height) /\ s.column \in Nat
    BY <1>1
  <2>3. Puts(s, m.to, row, s.column)
    BY <2>1 DEF Puts
  <2> HIDE DEF row
  <2> QED
    BY <2>1, <2>2, <2>3
<1>5. CASE m = Down(s)
  <2> DEFINE row == IF s.row + 1 < Height THEN s.row + 1 ELSE 0
  <2>1. m.res \in 0 .. 2 /\ m.to = [s EXCEPT !.row = row]
    BY <1>5 DEF Down
  <2>2. row \in Nat /\ (s.row < Height => row < Height) /\ s.column \in Nat
    BY <1>1
  <2>3. Puts(s, m.to, row, s.column)
    BY <2>1 DEF Puts
  <2> HIDE DEF row
  <2> QED
    BY <2>1, <2>2, <2>3
<1> QED
  BY <1>2, <1>3, <1>4, <1>5 DEF Directions

\* terminal_move_, as a whole.
LEMMA MoveType ==
  ASSUME NEW s \in State, Listed(s), NEW m \in Directions(s)
  PROVE  Handles(s, Move(s, m))
<1>1. Moves(s, m.to) /\ m.to \in State /\ Listed(m.to)
  BY DirectionType DEF Moves, Listed
<1>2. Writes(m.to, Move(s, m))
  BY <1>1, PosIs, DrawCursorType DEF Move
<1> QED
  BY <1>1, <1>2, DirectionType, WritesHandles DEF Handles

-----------------------------------------------------------------------------
(* The pages *)

\* What terminal_save_state leaves as it is when it chooses a page.
Chooses(s, c) ==
  /\ c \in State
  /\ c.row = s.row /\ c.column = s.column /\ c.buffer = s.buffer
  /\ c.vga = s.vga /\ c.under = s.under /\ c.cur = s.cur
  /\ c.page = s.page /\ c.strayed = s.strayed

\* A new page, at the head of the list.
NewPage(s, c) ==
  /\ c.pages = s.pages + 1 /\ c.head = s.pages + 1 /\ c.head \in Page
  /\ c.stopped = s.stopped
  /\ c.left = [s.left EXCEPT ![c.head] = Length]
  /\ c.next = [s.next EXCEPT ![c.head] = IF s.head # NULL THEN s.head ELSE @]
  /\ c.prev = [q \in Page |-> IF q = c.head THEN NULL ELSE IF q = s.head THEN c.head ELSE s.prev[q]]

\* The three outcomes of the first half of terminal_save_state.
LEMMA ChooseIs ==
  ASSUME NEW s \in State
  PROVE  /\ Chooses(s, ChoosePage(s))
         /\ \/ Kept(s) /\ ChoosePage(s) = s
            \/ /\ ~Kept(s) /\ s.pages = Pages
               /\ ChoosePage(s) = [s EXCEPT !.stopped = TRUE]
               /\ ChoosePage(s).stopped
               /\ ChoosePage(s).head = s.head /\ ChoosePage(s).pages = s.pages
               /\ ChoosePage(s).left = s.left /\ ChoosePage(s).next = s.next
               /\ ChoosePage(s).prev = s.prev
            \/ ~Kept(s) /\ s.pages # Pages /\ NewPage(s, ChoosePage(s))
<1>1. CASE Kept(s)
  BY <1>1 DEF ChoosePage, Kept, Chooses
<1>2. CASE ~Kept(s) /\ s.pages = Pages
  <2>1. ChoosePage(s) = [s EXCEPT !.stopped = TRUE]
    BY <1>2 DEF ChoosePage, Kept
  <2> DEFINE c == ChoosePage(s)
  <2>2. /\ Chooses(s, c) /\ c.stopped /\ c.head = s.head /\ c.pages = s.pages
        /\ c.left = s.left /\ c.next = s.next /\ c.prev = s.prev
    BY <2>1 DEF State, Chooses
  <2> QED
    BY <1>2, <2>1, <2>2
<1>3. CASE ~Kept(s) /\ s.pages # Pages
  <2>1. PICK p \in Page : p = s.pages + 1
    BY <1>3, Fields, Constants DEF Page
  <2> DEFINE then(x) == IF s.head # NULL THEN s.head ELSE x
             at(q) == IF q = p THEN NULL ELSE IF q = s.head THEN p ELSE s.prev[q]
  <2>2. PICK left \in [Page -> Int] : left = [s.left EXCEPT ![p] = Length]
    <3>1. s.left \in [Page -> Int] /\ Length \in Int
      <4>1. Length \in Int
        BY TerminalAssumption DEF Length
      <4> QED
        BY <4>1, Fields
    <3>2. [s.left EXCEPT ![p] = Length] \in [Page -> Int]
      BY <3>1
    <3> QED
      BY <3>2
  <2>3. PICK next \in [Page -> -2 .. Pages] :
               next = [s.next EXCEPT ![p] = IF s.head # NULL THEN s.head ELSE @]
    <3>1. s.next \in [Page -> -2 .. Pages]
      BY Fields
    <3>2. then(s.next[p]) \in -2 .. Pages
      <4>1. s.next[p] \in -2 .. Pages /\ s.head \in 0 .. Pages /\ Pages \in Nat
        BY <3>1, Fields, Constants
      <4> QED
        BY <4>1
    <3> HIDE DEF then
    <3>3. [s.next EXCEPT ![p] = then(s.next[p])] \in [Page -> -2 .. Pages]
      BY <3>1, <3>2
    <3> QED
      BY <3>3 DEF then
  <2>4. PICK prev \in [Page -> 0 .. Pages] :
               prev = [q \in Page |-> IF q = p THEN NULL ELSE IF q = s.head THEN p ELSE s.prev[q]]
    <3>1. \A q \in Page : at(q) \in 0 .. Pages
      <4>1. p \in 0 .. Pages /\ 0 \in 0 .. Pages
        BY Constants DEF Page
      <4>2. s.prev \in [Page -> 0 .. Pages]
        BY Fields
      <4> QED
        BY <4>1, <4>2 DEF NULL
    <3> HIDE DEF at
    <3>2. [q \in Page |-> at(q)] \in [Page -> 0 .. Pages]
      BY <3>1
    <3> QED
      BY <3>2 DEF at
  <2>5. ChoosePage(s) = [s EXCEPT !.pages = p, !.left = left, !.next = next, !.prev = prev,
                                  !.head = p]
    <3> DEFINE u == [s EXCEPT !.pages = p, !.left[p] = Length]
    <3>1. ChoosePage(s) = InsertHead(u, p)
      BY <1>3, <2>1 DEF ChoosePage, Kept
    <3>2. /\ u = [s EXCEPT !.pages = p, !.left = left]
          /\ u.prev = s.prev /\ u.next = s.next /\ u.head = s.head
      BY <2>2 DEF State
    <3>3. InsertHead(u, p) =
            [u EXCEPT !.prev = [q \in Page |-> IF q = p THEN NULL ELSE IF q = u.head THEN p ELSE u.prev[q]],
                      !.next = [u.next EXCEPT ![p] = IF u.head # NULL THEN u.head ELSE @],
                      !.head = p]
      BY DEF InsertHead
    <3>4. InsertHead(u, p) = [u EXCEPT !.prev = prev, !.next = next, !.head = p]
      BY <2>3, <2>4, <3>2, <3>3
    <3> QED
      BY <3>1, <3>2, <3>4 DEF State
  <2>6. p \in 0 .. Pages
    BY Constants DEF Page
  <2> DEFINE c == ChoosePage(s)
  <2>7. /\ Chooses(s, c)
        /\ c.pages = p /\ c.head = p /\ c.stopped = s.stopped
        /\ c.left = left /\ c.next = next /\ c.prev = prev
    <3>1. c \in State
      BY <2>5, <2>6 DEF State
    <3>2. /\ c.pages = p /\ c.head = p /\ c.stopped = s.stopped
          /\ c.left = left /\ c.next = next /\ c.prev = prev
      BY <2>5 DEF State
    <3>3. /\ c.row = s.row /\ c.column = s.column /\ c.buffer = s.buffer
          /\ c.vga = s.vga /\ c.under = s.under /\ c.cur = s.cur
          /\ c.page = s.page /\ c.strayed = s.strayed
      BY <2>5 DEF State
    <3> QED
      BY <3>1, <3>2, <3>3 DEF Chooses
  <2>8. NewPage(s, c)
    BY <2>1, <2>2, <2>3, <2>4, <2>7 DEF NewPage
  <2> QED
    BY <1>3, <2>7, <2>8
<1> QED
  BY <1>1, <1>2, <1>3

\* What terminal_save_state leaves as it is when it saves to a page.
Saves(s, r) ==
  /\ r \in State
  /\ r.row = s.row /\ r.column = s.column /\ r.cur = s.cur /\ r.pages = s.pages
  /\ r.under = s.under /\ r.next = s.next /\ r.prev = s.prev

\* The page p with the text of the screen from the cell `from' up to the cursor.
Filled(s, p, from) ==
  [s.page EXCEPT ![p] = [i \in Cell |-> IF i \in from .. Pos(s) - 1 THEN s.vga[i] ELSE s.page[p][i]]]

SavesPage(s, p, r) ==
  /\ Saves(s, r)
  /\ s.buffer # Screen => r.buffer = p /\ r.head = p
  /\ s.buffer = Screen => r.buffer = Screen
  /\ s.buffer = Screen /\ Pos(s) <= Length =>
       /\ r.head = p /\ r.vga = Empty /\ r.strayed = s.strayed /\ r.stopped = s.stopped
       /\ IF Used(s, p) < Pos(s)
            THEN r.page = Filled(s, p, Used(s, p)) /\ r.left = [s.left EXCEPT ![p] = Length - Pos(s)]
            ELSE r.page = s.page /\ r.left = s.left
  /\ r.head \in {s.head, p}

\* terminal_save_state, second half.
LEMMA SavePageIs ==
  ASSUME NEW s \in State, NEW p \in Page, NEW r, r = SavePage(s, p)
  PROVE  SavesPage(s, p, r)
<1> DEFINE from == Used(s, p)
           count == Pos(s) - from
<1>1. Pos(s) \in Int /\ s.left[p] \in Int /\ Length \in Int /\ from \in Int /\ count \in Int
  <2>1. Pos(s) \in Nat /\ s.left \in [Page -> Int] /\ Length \in Nat
    BY PosIs, Fields, Grid
  <2> QED
    BY <2>1 DEF Used
<1>2. Empty \in [Cell -> Glyph]
  BY Constants DEF Empty
<1>3. p \in 0 .. Pages
  BY Constants DEF Page
<1>4. s.page \in [Page -> [Cell -> Glyph]] /\ s.vga \in [Cell -> Glyph]
  BY Fields
<1>5. CASE s.buffer # Screen
  <2> DEFINE page == [s.page EXCEPT ![p] = Empty]
  <2>1. page \in [Page -> [Cell -> Glyph]]
    BY <1>2, <1>4
  <2>2. r = [s EXCEPT !.buffer = p, !.page = page, !.head = p]
    BY <1>5 DEF SavePage
  <2> HIDE DEF page
  <2> QED
    BY <1>3, <1>5, <2>1, <2>2 DEF State, Saves, SavesPage
<1>6. CASE s.buffer = Screen /\ count > s.left[p]
  <2> DEFINE out == s.strayed \cup {Pos(s) - 1}
  <2>1. out \in SUBSET Int
    BY <1>1, Fields
  <2>2. r = [s EXCEPT !.strayed = out, !.stopped = TRUE]
    BY <1>6 DEF SavePage, Corrupt, Used
  <2>3. ~(Pos(s) <= Length)
    BY <1>1, <1>6 DEF Used
  <2> HIDE DEF out, count
  <2> QED
    BY <1>6, <2>1, <2>2, <2>3 DEF State, Saves, SavesPage
<1>7. CASE s.buffer = Screen /\ ~(count > s.left[p]) /\ count > 0
  <2> DEFINE text == [i \in Cell |-> IF i \in from .. Pos(s) - 1 THEN s.vga[i] ELSE s.page[p][i]]
             page == [s.page EXCEPT ![p] = text]
             left == [s.left EXCEPT ![p] = Length - Pos(s)]
  <2>1. text \in [Cell -> Glyph]
    BY <1>4
  <2>2. page \in [Page -> [Cell -> Glyph]] /\ page = Filled(s, p, from)
    BY <1>4, <2>1 DEF Filled
  <2>3. left \in [Page -> Int]
    BY <1>1, Fields
  <2>4. s.left[p] - count = Length - Pos(s) /\ from < Pos(s)
    BY <1>1, <1>7 DEF Used
  <2>5. r = [s EXCEPT !.page = page, !.left = left, !.vga = Empty, !.head = p]
    <3>1. r = [s EXCEPT !.page[p] = text, !.left[p] = @ - count, !.vga = Empty, !.head = p]
      BY <1>7 DEF SavePage, Used
    <3> HIDE DEF text, count
    <3> QED
      BY <2>4, <3>1
  <2> HIDE DEF text, page, left
  <2>6. /\ Saves(s, r) /\ r.buffer = s.buffer /\ r.head = p /\ r.vga = Empty
        /\ r.strayed = s.strayed /\ r.stopped = s.stopped /\ r.page = page /\ r.left = left
    BY <1>2, <1>3, <2>2, <2>3, <2>5 DEF State, Saves, SavesPage
  <2> QED
    BY <1>7, <2>2, <2>4, <2>6 DEF left, SavesPage
<1>8. CASE s.buffer = Screen /\ ~(count > s.left[p]) /\ ~(count > 0)
  <2>1. r = [s EXCEPT !.vga = Empty, !.head = p]
    BY <1>8 DEF SavePage, Used
  <2>2. ~(from < Pos(s))
    BY <1>1, <1>8
  <2>3. /\ Saves(s, r) /\ r.buffer = s.buffer /\ r.head = p /\ r.vga = Empty
        /\ r.strayed = s.strayed /\ r.stopped = s.stopped /\ r.page = s.page /\ r.left = s.left
    BY <1>2, <1>3, <2>1 DEF State, Saves, SavesPage
  <2> QED
    BY <1>8, <2>2, <2>3 DEF SavesPage
<1> QED
  BY <1>5, <1>6, <1>7, <1>8

\* With a page at the head.
LEMMA SavePageListed ==
  ASSUME NEW s \in State, Listed(s), NEW p \in Page
  PROVE  Saves(s, SavePage(s, p)) /\ Listed(SavePage(s, p))
<1>1. PICK r : r = SavePage(s, p)
  OBVIOUS
<1>2. SavesPage(s, p, r)
  BY <1>1, SavePageIs
<1>3. r.head \in {s.head, p} /\ (s.buffer # Screen => r.head = p) /\ Saves(s, r)
  BY <1>2 DEF SavesPage
<1>4. s.buffer = Screen => r.buffer = Screen
  BY <1>2 DEF SavesPage
<1>5. p # NULL
  BY DEF Page, NULL
<1> QED
  BY <1>1, <1>3, <1>4, <1>5 DEF Saves, Listed

\* terminal_save_state, as a whole.
LEMMA SaveType ==
  ASSUME NEW s \in State
  PROVE  /\ Save(s) \in State /\ Save(s).row = s.row /\ Save(s).column = s.column
         /\ Save(s).cur = s.cur
         /\ s.head \in Page => Save(s).head \in Page
         /\ s.buffer = Screen => Save(s).buffer = Screen
         /\ Listed(s) => Listed(Save(s))
<1> DEFINE c == ChoosePage(s)
<1>1. Chooses(s, c) /\ (s.head \in Page => c.head \in Page) /\ (~c.stopped => c.head \in Page)
  <2>1. s.head \in 0 .. Pages /\ (Kept(s) => s.head \in Page)
    BY Fields, Constants DEF Kept, NULL
  <2> QED
    BY <2>1, ChooseIs DEF NewPage
<1>2. CASE c.stopped
  BY <1>1, <1>2, Fields, Constants DEF Save, Chooses, Listed, NULL
<1>3. CASE ~c.stopped
  <2>1. PICK r : r = SavePage(c, c.head)
    OBVIOUS
  <2>2. c \in State /\ c.head \in Page
    BY <1>1, <1>3 DEF Chooses
  <2>3. /\ Saves(c, r) /\ r.head = c.head
        /\ c.buffer = Screen => r.buffer = Screen
    <3>1. SavesPage(c, c.head, r)
      BY <2>1, <2>2, SavePageIs
    <3> QED
      BY <3>1 DEF SavesPage
  <2>4. Save(s) = r
    BY <1>3, <2>1 DEF Save
  <2>5. c.head # NULL
    BY <2>2 DEF Page, NULL
  <2> HIDE DEF c
  <2> QED
    BY <1>1, <2>2, <2>3, <2>4, <2>5 DEF Saves, Chooses, Listed
<1> QED
  BY <1>2, <1>3

\* What the display of a page leaves as it is.
Shows(s, r) ==
  /\ r \in State
  /\ r.row = s.row /\ r.column = s.column /\ r.buffer = s.buffer /\ r.under = s.under
  /\ r.head = s.head /\ r.cur = s.cur /\ r.pages = s.pages
  /\ r.page = s.page /\ r.left = s.left /\ r.next = s.next /\ r.prev = s.prev

\* The page p, and what follows it.
Paged(s, p, rest) == [i \in Cell |-> IF i < Used(s, p) THEN s.page[p][i] ELSE rest[i]]

\* What has been written to a page is shown, whatever number of cells that seems to be.
LEMMA ShowIs ==
  ASSUME NEW s \in State, NEW p \in Page, NEW rest \in [Cell -> Glyph], NEW r,
         r = Show(s, p, rest)
  PROVE  /\ Shows(s, r)
         /\ Used(s, p) \in 0 .. Length =>
              r.vga = Paged(s, p, rest) /\ r.strayed = s.strayed /\ r.stopped = s.stopped
<1>1. Used(s, p) \in Int
  <2>1. s.left \in [Page -> Int] /\ Length \in Nat
    BY Fields, Grid
  <2> QED
    BY <2>1 DEF Used
<1>2. CASE Used(s, p) \in 0 .. Length
  <2> DEFINE vga == Paged(s, p, rest)
  <2>1. vga \in [Cell -> Glyph]
    BY Fields DEF Paged
  <2>2. r = [s EXCEPT !.vga = vga]
    BY <1>2 DEF Show, Paged
  <2> HIDE DEF vga
  <2>3. Shows(s, r) /\ r.vga = vga /\ r.strayed = s.strayed /\ r.stopped = s.stopped
    BY <2>1, <2>2 DEF State, Shows
  <2> QED
    BY <2>3 DEF vga
<1>3. CASE Used(s, p) \notin 0 .. Length
  <2> DEFINE out == s.strayed \cup {Used(s, p)}
  <2>1. out \in SUBSET Int
    BY <1>1, Fields
  <2>2. r = [s EXCEPT !.strayed = out, !.stopped = TRUE]
    BY <1>3 DEF Show, Corrupt
  <2> HIDE DEF out
  <2> QED
    BY <1>3, <2>1, <2>2 DEF State, Shows
<1> QED
  BY <1>2, <1>3

\* The cleared screen.
LEMMA EmptyType == Empty \in [Cell -> Glyph] /\ \A i \in Cell : Empty[i] = Blank
BY Constants DEF Empty

\* The page shown and the buffer are changed.
Turns(u, r) ==
  /\ r \in State
  /\ r.row = u.row /\ r.column = u.column /\ r.under = u.under /\ r.pages = u.pages
  /\ r.head = u.head /\ r.page = u.page /\ r.left = u.left /\ r.next = u.next
  /\ r.prev = u.prev /\ r.vga = u.vga /\ r.strayed = u.strayed /\ r.stopped = u.stopped

TurnTo(u, c, b) == [u EXCEPT !.cur = c, !.buffer = b]

\* Another page is looked at, and written to.
LEMMA TurnIs ==
  ASSUME NEW u \in State, NEW c \in 0 .. Pages, NEW b \in 0 .. Pages
  PROVE  Turns(u, TurnTo(u, c, b)) /\ TurnTo(u, c, b).cur = c /\ TurnTo(u, c, b).buffer = b
BY DEF State, Turns, TurnTo

CurTo(u, c)    == [u EXCEPT !.cur = c]
BufferTo(u, b) == [u EXCEPT !.buffer = b]
Stops(u)       == [u EXCEPT !.stopped = TRUE]

\* Another page is looked at.
LEMMA CurIs ==
  ASSUME NEW u \in State, NEW c \in 0 .. Pages
  PROVE  Turns(u, CurTo(u, c)) /\ CurTo(u, c).cur = c /\ CurTo(u, c).buffer = u.buffer
BY DEF State, Turns, CurTo

\* Another page is written to.
LEMMA BufferIs ==
  ASSUME NEW u \in State, NEW b \in 0 .. Pages
  PROVE  Turns(u, BufferTo(u, b)) /\ BufferTo(u, b).cur = u.cur /\ BufferTo(u, b).buffer = b
BY DEF State, Turns, BufferTo

\* The kernel stops with the terminal as it is.
LEMMA StopIs ==
  ASSUME NEW u \in State
  PROVE  /\ Stops(u) \in State
         /\ Stops(u).row = u.row /\ Stops(u).column = u.column /\ Stops(u).buffer = u.buffer
         /\ Stops(u).vga = u.vga /\ Stops(u).under = u.under /\ Stops(u).head = u.head
         /\ Stops(u).cur = u.cur /\ Stops(u).pages = u.pages /\ Stops(u).page = u.page
         /\ Stops(u).left = u.left /\ Stops(u).next = u.next /\ Stops(u).prev = u.prev
         /\ Stops(u).strayed = u.strayed /\ Stops(u).stopped
BY DEF State, Stops

\* Cells from anywhere in memory are copied over the screen and what is behind it.
Follows(u) == [u EXCEPT !.strayed = @ \cup {Anywhere}, !.stopped = TRUE]

\* Nothing else is looked at after that.
LEMMA FollowIs ==
  ASSUME NEW u \in State
  PROVE  /\ Follows(u) \in State
         /\ Follows(u).row = u.row /\ Follows(u).column = u.column
         /\ Follows(u).buffer = u.buffer /\ Follows(u).head = u.head
         /\ Follows(u).cur = u.cur /\ Follows(u).next = u.next
         /\ Follows(u).strayed = u.strayed \cup {Anywhere} /\ Follows(u).stopped
<1>1. PICK strayed \in SUBSET Int : strayed = u.strayed \cup {Anywhere}
  <2>1. u.strayed \subseteq Int /\ Anywhere \in Int
    BY Fields DEF Anywhere
  <2> QED
    BY <2>1
<1>2. Follows(u) = [u EXCEPT !.strayed = strayed, !.stopped = TRUE]
  BY <1>1 DEF Follows
<1> QED
  BY <1>1, <1>2 DEF State

\* What the loads leave as it is.
Loads(s, r) ==
  /\ r \in State
  /\ r.row = s.row /\ r.column = s.column /\ r.under = s.under
  /\ r.pages = s.pages /\ r.head = s.head
  /\ r.page = s.page /\ r.left = s.left /\ r.next = s.next /\ r.prev = s.prev

\* terminal_load_head.
LEMMA LoadHeadIs ==
  ASSUME NEW s \in State, Listed(s), NEW r, r = LoadHead(s)
  PROVE  /\ Loads(s, r) /\ r.buffer = Screen /\ Listed(r)
         /\ s.buffer = Screen => r = s
         /\ s.buffer # Screen =>
              /\ s.head \in Page /\ r.cur = s.head
              /\ Used(s, s.head) \in 0 .. Length =>
                   /\ r.vga = Paged(s, s.head, Empty)
                   /\ r.strayed = s.strayed /\ r.stopped = s.stopped
<1>1. CASE s.buffer = Screen
  BY <1>1 DEF LoadHead, Loads
<1>2. CASE s.buffer # Screen
  <2>1. s.head \in Page /\ s.head \in 0 .. Pages /\ s.head # NULL /\ 0 \in 0 .. Pages
    BY <1>2, Fields, Constants DEF Listed, NULL
  <2>2. PICK u : u = Show(s, s.head, Empty)
    OBVIOUS
  <2>3. /\ Shows(s, u)
        /\ Used(s, s.head) \in 0 .. Length =>
             u.vga = Paged(s, s.head, Empty) /\ u.strayed = s.strayed /\ u.stopped = s.stopped
    BY <2>1, <2>2, ShowIs, EmptyType
  <2>4. r = [u EXCEPT !.cur = s.head, !.buffer = Screen]
    BY <1>2, <2>2 DEF LoadHead
  <2>5. Turns(u, r) /\ r.cur = s.head /\ r.buffer = Screen
    <3>1. u \in State /\ s.head \in 0 .. Pages /\ Screen \in 0 .. Pages
      BY <2>1, <2>3 DEF Shows, Screen
    <3>2. r = TurnTo(u, s.head, Screen)
      BY <2>4 DEF TurnTo
    <3> QED
      BY <3>1, <3>2, TurnIs
  <2> QED
    BY <1>2, <2>1, <2>3, <2>5 DEF Shows, Turns, Loads, Listed
<1> QED
  BY <1>1, <1>2

\* terminal_load_prev, when there is a page to show.
Prev(s)   == IF s.cur # NULL THEN s.next[s.cur] ELSE s.head
Leaves(s) == Prev(s) = s.head \/ (s.cur = s.head /\ s.buffer = Screen)
Leaving(s)  == IF Leaves(s) THEN BufferTo(Save(s), s.head) ELSE s

\* Page Up does nothing, stops in saving the screen, follows a pointer that nobody has
\* written, or shows a page.
LEMMA PrevIs ==
  ASSUME NEW s \in State, Listed(s), NEW r, r = LoadPrev(s)
  PROVE  \/ Prev(s) = NULL /\ r = s
         \/ /\ Prev(s) # NULL /\ Leaving(s).stopped /\ r = Leaving(s)
         \/ /\ Prev(s) = Unmapped /\ ~Leaving(s).stopped /\ r = Stops(Leaving(s))
         \/ /\ Prev(s) = Wild /\ ~Leaving(s).stopped /\ r = Follows(Leaving(s))
         \/ /\ Prev(s) \in Page /\ ~Leaving(s).stopped
            /\ r = CurTo(Show(Leaving(s), Prev(s), Leaving(s).vga), Prev(s))
<1>1. Prev(s) \in -2 .. Pages
  <2>1. /\ s.cur \in 0 .. Pages /\ s.head \in 0 .. Pages /\ Pages \in Nat
        /\ s.next \in [Page -> -2 .. Pages]
    BY Fields, Constants
  <2>2. s.cur # NULL => s.cur \in Page
    BY <2>1, Constants DEF NULL
  <2> QED
    BY <2>1, <2>2 DEF Prev
<1>2. Prev(s) = NULL \/ Prev(s) = Unmapped \/ Prev(s) = Wild \/ Prev(s) \in Page
  BY <1>1, Constants DEF NULL, Wild, Unmapped, Page
<1>3. r = IF Prev(s) = NULL THEN s
          ELSE IF Leaving(s).stopped THEN Leaving(s)
          ELSE IF Prev(s) = Unmapped THEN Stops(Leaving(s))
          ELSE IF Prev(s) = Wild THEN Follows(Leaving(s))
          ELSE CurTo(Show(Leaving(s), Prev(s), Leaving(s).vga), Prev(s))
  BY DEF LoadPrev, Prev, Leaves, Leaving, Stops, Follows, Corrupt, CurTo, BufferTo
<1> QED
  BY <1>2, <1>3

\* Saving the screen before that leaves a page at the head of the list.
LEMMA PrevType ==
  ASSUME NEW s \in State, Listed(s), Prev(s) # NULL
  PROVE  /\ s.head \in Page /\ s.head \in 0 .. Pages
         /\ Leaving(s) \in State /\ Leaving(s).head \in Page
         /\ Leaving(s).row = s.row /\ Leaving(s).column = s.column
<1>1. s.head \in Page /\ s.head \in 0 .. Pages
  BY Fields, Constants DEF Prev, Listed, NULL
<1>2. Save(s) \in State /\ Save(s).row = s.row /\ Save(s).column = s.column /\ Save(s).head \in Page
  BY <1>1, SaveType
<1>3. Turns(Save(s), BufferTo(Save(s), s.head))
  BY <1>1, <1>2, BufferIs
<1>4. BufferTo(Save(s), s.head) \in State /\ BufferTo(Save(s), s.head).head \in Page
      /\ BufferTo(Save(s), s.head).row = s.row /\ BufferTo(Save(s), s.head).column = s.column
  BY <1>2, <1>3 DEF Turns
<1> QED
  BY <1>1, <1>4 DEF Leaving

\* Page Up leaves a terminal, with the cursor where it was.
LEMMA LoadPrevType ==
  ASSUME NEW s \in State, Listed(s)
  PROVE  Handles(s, LoadPrev(s))
<1> DEFINE left == Leaving(s)
<1>1. PICK r : r = LoadPrev(s)
  OBVIOUS
<1>2. CASE Prev(s) = NULL
  <2>1. r = s
    BY <1>1, <1>2, PrevIs DEF Page, NULL, Wild, Unmapped
  <2> QED
    BY <1>1, <2>1 DEF Handles
<1>3. CASE Prev(s) # NULL
  <2>1. /\ s.head \in Page /\ left \in State /\ left.head \in Page
        /\ left.row = s.row /\ left.column = s.column
    BY <1>3, PrevType
  <2>2. \A p \in Page : p # NULL /\ p \in 0 .. Pages
    BY Constants DEF Page, NULL
  <2>3. CASE r = left
    BY <1>1, <2>1, <2>2, <2>3 DEF Handles, Listed
  <2>4. CASE r = Stops(left) \/ r = Follows(left)
    <3>1. r \in State /\ r.row = s.row /\ r.column = s.column /\ r.head \in Page
      BY <2>1, <2>4, StopIs, FollowIs
    <3> QED
      BY <1>1, <2>2, <3>1 DEF Handles, Listed
  <2>5. CASE Prev(s) \in Page /\ r = CurTo(Show(left, Prev(s), left.vga), Prev(s))
    <3>1. PICK u : u = Show(left, Prev(s), left.vga)
      OBVIOUS
    <3>2. left.vga \in [Cell -> Glyph]
      BY <2>1, Fields
    <3>3. Shows(left, u)
      BY <2>1, <2>5, <3>1, <3>2, ShowIs
    <3>4. Turns(u, CurTo(u, Prev(s)))
      BY <2>2, <2>5, <3>3, CurIs DEF Shows
    <3> QED
      BY <1>1, <2>1, <2>2, <2>5, <3>1, <3>3, <3>4 DEF Handles, Listed, Shows, Turns
  <2> QED
    BY <1>1, <1>3, <2>3, <2>4, <2>5, PrevIs
<1> QED
  BY <1>2, <1>3

\* terminal_load_next.
Following(s) == IF s.cur # NULL THEN s.prev[s.cur] ELSE NULL

\* Page Down does nothing, or shows the page that was saved after the one that is shown.
LEMMA NextIs ==
  ASSUME NEW s \in State, Listed(s)
  PROVE  \/ Following(s) = NULL /\ LoadNext(s) = s
         \/ /\ Following(s) \in Page /\ s.head \in Page
            /\ LoadNext(s) = TurnTo(Show(s, Following(s), Empty), Following(s),
                                    IF Following(s) = s.head THEN Screen ELSE s.buffer)
<1>1. s.cur \in 0 .. Pages /\ s.head \in 0 .. Pages /\ s.prev \in [Page -> 0 .. Pages]
  BY Fields
<1>2. Following(s) \in 0 .. Pages
  BY <1>1, Constants DEF Following, NULL
<1>3. CASE Following(s) = NULL
  BY <1>3 DEF LoadNext, Following
<1>4. CASE Following(s) # NULL
  <2>1. Following(s) \in Page /\ s.head \in Page
    BY <1>1, <1>2, <1>4, Constants DEF Listed, Following, NULL
  <2>2. PICK u : u = Show(s, Following(s), Empty)
    OBVIOUS
  <2>3. u.buffer = s.buffer
    BY <2>1, <2>2, ShowIs, EmptyType DEF Shows
  <2>4. LoadNext(s) = [u EXCEPT !.cur = Following(s),
                                !.buffer = IF Following(s) = s.head THEN Screen ELSE u.buffer]
    BY <1>4, <2>2 DEF LoadNext, Following
  <2> QED
    BY <2>1, <2>2, <2>3, <2>4 DEF TurnTo
<1> QED
  BY <1>3, <1>4

\* Page Down leaves a terminal, with the cursor where it was.
LEMMA LoadNextType ==
  ASSUME NEW s \in State, Listed(s)
  PROVE  Handles(s, LoadNext(s))
<1>1. CASE LoadNext(s) = s
  BY <1>1 DEF Handles
<1>2. CASE LoadNext(s) # s
  <2> DEFINE b == IF Following(s) = s.head THEN Screen ELSE s.buffer
  <2>1. PICK u : u = Show(s, Following(s), Empty)
    OBVIOUS
  <2>2. /\ Following(s) \in Page /\ s.head \in Page
        /\ LoadNext(s) = TurnTo(u, Following(s), b)
    BY <1>2, <2>1, NextIs
  <2>3. \A p \in Page : p # NULL /\ p \in 0 .. Pages
    BY Constants DEF Page, NULL
  <2>4. b \in 0 .. Pages
    BY Fields, Constants DEF Screen
  <2>5. Shows(s, u)
    BY <2>1, <2>2, ShowIs, EmptyType
  <2> HIDE DEF b
  <2>6. Turns(u, TurnTo(u, Following(s), b))
    BY <2>2, <2>3, <2>4, <2>5, TurnIs DEF Shows
  <2> QED
    BY <2>2, <2>3, <2>5, <2>6 DEF Handles, Listed, Shows, Turns
<1> QED
  BY <1>1, <1>2

-----------------------------------------------------------------------------
(* Whole calls *)

\* terminal_save_state leaves the cursor where it is.
LEMMA SaveHandles ==
  ASSUME NEW s \in State, Listed(s)
  PROVE  Handles(s, Save(s))
BY SaveType DEF Handles

\* terminal_load_head leaves it too, and the screen is written to.
LEMMA LoadHeadHandles ==
  ASSUME NEW s \in State, Listed(s)
  PROVE  Handles(s, LoadHead(s)) /\ LoadHead(s).buffer = Screen
BY LoadHeadIs DEF Handles, Loads

\* A write at the end of what a handler does.
LEMMA WritesHandle ==
  ASSUME NEW s, NEW u, NEW r, Handles(s, u), Writes(u, r)
  PROVE  Handles(s, r)
<1>1. u \in State /\ Listed(u)
  BY DEF Handles
<1>2. Handles(u, r)
  BY <1>1, WritesHandles
<1> QED
  BY <1>2, HandlesOn

\* terminal_advance_one and the character, step by step.
At(s)        == LoadHead(s)
Advanced(s)  == DrawCursor(Right(At(s)).to, Pos(At(s)))
Scrolled(s)  == IF Right(At(s)).res = 2 THEN Save(Advanced(s)) ELSE Advanced(s)
Cleared(s)   == IF Right(At(s)).res > 0 THEN ClearRow(Scrolled(s)) ELSE Scrolled(s)

\* The steps are terminal_put_char: nothing is spent, since the screen is live again.
LEMMA PutCharIs ==
  ASSUME NEW s \in State, Listed(s), NEW ch
  PROVE  PutChar(s, ch) = IF Scrolled(s).stopped THEN Scrolled(s)
                          ELSE SetChar(Cleared(s), Pos(At(s)), ch)
<1>1. Spend(At(s), 1) = At(s)
  BY LoadHeadIs DEF Spend, At
<1> QED
  BY <1>1 DEF PutChar, At, Advanced, Scrolled, Cleared

\* A character leaves the cursor on the screen.
LEMMA PutCharType ==
  ASSUME NEW s \in State, Listed(s), NEW ch \in Printable
  PROVE  Handles(s, PutChar(s, ch))
<1>1. Handles(s, At(s)) /\ At(s) \in State /\ Listed(At(s))
  BY LoadHeadHandles DEF At, Handles
<1>2. Pos(At(s)) \in Int
  BY <1>1, PosIs
<1>3. Handles(s, Advanced(s))
  <2>1. Right(At(s)) \in Directions(At(s))
    BY DEF Directions
  <2>2. Handles(At(s), Move(At(s), Right(At(s))))
    BY <1>1, <2>1, MoveType
  <2> QED
    BY <1>1, <2>2, HandlesOn DEF Move, Advanced
<1>4. Handles(s, Scrolled(s))
  BY <1>3, SaveHandles, HandlesOn DEF Scrolled, Handles
<1>5. Handles(s, Cleared(s))
  <2>1. Writes(Scrolled(s), ClearRow(Scrolled(s)))
    BY <1>4, ClearRowType DEF Handles
  <2> QED
    BY <1>4, <2>1, WritesHandle DEF Cleared
<1>6. Handles(s, SetChar(Cleared(s), Pos(At(s)), ch))
  <2>1. Writes(Cleared(s), SetChar(Cleared(s), Pos(At(s)), ch))
    BY <1>2, <1>5, SetCharType, Constants DEF Handles
  <2> QED
    BY <1>5, <2>1, WritesHandle
<1> QED
  BY <1>4, <1>6, PutCharIs

\* terminal_delete_one.
Wiped(s) == SetChar(At(s), Pos(At(s)) - 1, Blank)

\* The steps are terminal_delete_one.
LEMMA DeleteOneIs ==
  ASSUME NEW s \in State, Listed(s)
  PROVE  DeleteOne(s) = Move(Wiped(s), Left(Wiped(s)))
<1>1. Spend(At(s), -1) = At(s)
  BY LoadHeadIs DEF Spend, At
<1> QED
  BY <1>1 DEF DeleteOne, Wiped, At

\* A backspace leaves the cursor on the screen.
LEMMA DeleteOneType ==
  ASSUME NEW s \in State, Listed(s)
  PROVE  Handles(s, DeleteOne(s))
<1>1. Handles(s, At(s)) /\ At(s) \in State
  BY LoadHeadHandles DEF At, Handles
<1>2. Pos(At(s)) - 1 \in Int
  BY <1>1, PosIs
<1>3. Handles(s, Wiped(s))
  <2>1. Writes(At(s), Wiped(s))
    BY <1>1, <1>2, SetCharType, Constants DEF Wiped
  <2> QED
    BY <1>1, <2>1, WritesHandle
<1>4. Handles(Wiped(s), Move(Wiped(s), Left(Wiped(s))))
  BY <1>3, MoveType DEF Handles, Directions
<1> QED
  BY <1>3, <1>4, DeleteOneIs, HandlesOn

\* The cursor of a prompt.
LEMMA PromptIs ==
  ASSUME NEW s \in State
  PROVE  /\ Prompt(s) \in State /\ Prompt(s).under = Blank
         /\ OnScreen(s, Prompt(s))
         /\ Pos(s) \in Cell => /\ Prompt(s).vga = [s.vga EXCEPT ![Pos(s)] = Cursor]
                               /\ Prompt(s).strayed = s.strayed
<1>1. PICK u : u = SetVga(s, Pos(s), Cursor)
  OBVIOUS
<1>2. /\ u \in State /\ OnScreen(s, u)
      /\ Pos(s) \in Cell => u.vga = [s.vga EXCEPT ![Pos(s)] = Cursor] /\ u.strayed = s.strayed
  <2>1. Pos(s) \in Int /\ Cursor \in Glyph
    BY PosIs, Constants
  <2> QED
    BY <1>1, <2>1, SetVgaIs
<1>3. Prompt(s) = [u EXCEPT !.under = Blank]
  BY <1>1 DEF Prompt
<1>4. /\ Prompt(s) \in State /\ Prompt(s).under = Blank /\ OnScreen(u, Prompt(s))
      /\ Prompt(s).vga = u.vga /\ Prompt(s).strayed = u.strayed
  BY <1>2, <1>3, Constants DEF State, OnScreen
<1> QED
  BY <1>2, <1>4 DEF OnScreen

\* terminal_next_line, step by step.
Off(s)  == SetVga(At(s), Pos(At(s)), At(s).under)
LineBelow(s) == [Off(s) EXCEPT !.column = 0, !.row = @ + 1]
NewLineOf(s) == IF LineBelow(s).row >= Height THEN [Save(LineBelow(s)) EXCEPT !.row = 0] ELSE LineBelow(s)

\* The steps are terminal_next_line.
LEMMA NextLineIs ==
  ASSUME NEW s
  PROVE  NextLine(s) = IF NewLineOf(s).stopped THEN NewLineOf(s)
                       ELSE Prompt(PutChar(PutChar(ClearRow(NewLineOf(s)), ">"), ">"))
BY DEF NextLine, At, Off, LineBelow, NewLineOf

\* It takes the cursor off the screen, and puts it at the beginning of the next row.
LEMMA DownIs ==
  ASSUME NEW s \in State, Listed(s)
  PROVE  /\ Handles(s, Off(s)) /\ OnScreen(At(s), Off(s))
         /\ Moves(Off(s), LineBelow(s)) /\ LineBelow(s).column = 0 /\ LineBelow(s).row = At(s).row + 1
<1>1. Handles(s, At(s)) /\ At(s) \in State
  BY LoadHeadHandles DEF At, Handles
<1>2. Pos(At(s)) \in Int /\ At(s).under \in Glyph /\ At(s).row \in Nat
  BY <1>1, PosIs, Fields
<1>3. Off(s) \in State /\ OnScreen(At(s), Off(s))
  BY <1>1, <1>2, SetVgaIs DEF Off
<1>4. Handles(s, Off(s))
  BY <1>1, <1>3 DEF Handles, OnScreen, Listed
<1>5. LineBelow(s) = [Off(s) EXCEPT !.column = 0, !.row = At(s).row + 1]
  BY <1>3 DEF LineBelow, OnScreen
<1>6. Puts(Off(s), LineBelow(s), At(s).row + 1, 0)
  BY <1>5 DEF Puts
<1>7. Moves(Off(s), LineBelow(s)) /\ LineBelow(s).column = 0 /\ LineBelow(s).row = At(s).row + 1
  BY <1>2, <1>3, <1>6, PlacedType
<1> QED
  BY <1>3, <1>4, <1>7

RowTo(s, row) == [s EXCEPT !.row = row]

\* The cursor is put into another row.
LEMMA RowIs ==
  ASSUME NEW s \in State, NEW row \in Nat
  PROVE  Moves(s, RowTo(s, row)) /\ RowTo(s, row).row = row /\ RowTo(s, row).column = s.column
BY DEF State, Moves, RowTo

\* The row is on the screen again when the screen has been saved.
LEMMA LineType ==
  ASSUME NEW s \in State, Listed(s)
  PROVE  Handles(s, NewLineOf(s))
<1> DEFINE down == LineBelow(s)
<1>1. down \in State /\ Listed(down) /\ down.column = 0 /\ down.row \in Nat
  <2>1. Handles(s, Off(s)) /\ Moves(Off(s), down)
    BY DownIs
  <2> QED
    BY <2>1, Fields, DownIs DEF Handles, Moves, Listed
<1>2. 0 < Width /\ 0 < Height
  BY TerminalAssumption
<1>3. CASE down.row >= Height
  <2>1. Save(down) \in State /\ Listed(Save(down)) /\ Save(down).column = 0
    BY <1>1, SaveType
  <2>2. NewLineOf(s) = RowTo(Save(down), 0)
    BY <1>3 DEF NewLineOf, RowTo
  <2>3. Moves(Save(down), NewLineOf(s)) /\ NewLineOf(s).row = 0 /\ NewLineOf(s).column = 0
    BY <2>1, <2>2, RowIs
  <2> QED
    BY <1>2, <2>1, <2>3 DEF Handles, Moves, Listed
<1>4. CASE ~(down.row >= Height)
  <2>1. NewLineOf(s) = down
    BY <1>4 DEF NewLineOf
  <2>2. down.row < Height
    BY <1>1, <1>4, TerminalAssumption
  <2> HIDE DEF down
  <2> QED
    BY <1>1, <1>2, <2>1, <2>2 DEF Handles
<1> QED
  BY <1>3, <1>4

\* A new line, with its prompt, leaves the cursor on the screen.
LEMMA NextLineType ==
  ASSUME NEW s \in State, Listed(s)
  PROVE  Handles(s, NextLine(s))
<1>1. Handles(s, NewLineOf(s))
  BY LineType
<1>2. Handles(s, ClearRow(NewLineOf(s)))
  <2>1. Writes(NewLineOf(s), ClearRow(NewLineOf(s)))
    BY <1>1, ClearRowType DEF Handles
  <2> QED
    BY <1>1, <2>1, WritesHandle
<1>3. Handles(s, PutChar(ClearRow(NewLineOf(s)), ">"))
  BY <1>2, PutCharType, HandlesOn, Constants DEF Handles
<1>4. Handles(s, PutChar(PutChar(ClearRow(NewLineOf(s)), ">"), ">"))
  BY <1>3, PutCharType, HandlesOn, Constants DEF Handles
<1>5. PICK u : u = PutChar(PutChar(ClearRow(NewLineOf(s)), ">"), ">")
  OBVIOUS
<1>6. OnScreen(u, Prompt(u)) /\ Prompt(u) \in State
  BY <1>4, <1>5, PromptIs DEF Handles
<1>7. Handles(s, Prompt(u))
  BY <1>4, <1>5, <1>6 DEF Handles, OnScreen, Listed
<1> QED
  BY <1>1, <1>5, <1>7, NextLineIs

\* So does every character.
LEMMA PutType ==
  ASSUME NEW s \in State, Listed(s), NEW ch \in Printable
  PROVE  Handles(s, Put(s, ch))
<1>1. Handles(s, s)
  BY DEF Handles
<1>2. CASE s.stopped
  BY <1>1, <1>2 DEF Put
<1>3. CASE ~s.stopped /\ ch = "newline"
  <2>1. Put(s, ch) = NextLine(s)
    BY <1>3 DEF Put
  <2> QED
    BY <2>1, NextLineType
<1>4. CASE ~s.stopped /\ ch = "backspace"
  <2>1. Put(s, ch) = DeleteOne(s)
    BY <1>4 DEF Put
  <2> QED
    BY <2>1, DeleteOneType
<1>5. CASE ~s.stopped /\ ch # "newline" /\ ch # "backspace"
  <2>1. Put(s, ch) = PutChar(s, ch)
    BY <1>5 DEF Put
  <2> QED
    BY <2>1, PutCharType
<1> QED
  BY <1>2, <1>3, <1>4, <1>5

\* PutString is the function that its definition says: there is such a function.
LEMMA PutStringIs ==
  ASSUME NEW s, NEW chars, Len(chars) \in Nat
  PROVE  /\ PutString(s, chars)[0] = s
         /\ \A n \in 1 .. Len(chars) :
              PutString(s, chars)[n] = Put(PutString(s, chars)[n - 1], chars[n])
<1> DEFINE N == Len(chars)
           Of(c) == [n \in 0 .. N |-> IF n = 0 THEN s ELSE Put(c[n - 1], chars[n])]
           Goes(f, m) == /\ f = [n \in 0 .. m |-> f[n]]
                         /\ f[0] = s
                         /\ \A n \in 1 .. m : f[n] = Put(f[n - 1], chars[n])
           S == {m \in Nat : \E f : Goes(f, m)}
<1>1. 0 \in S
  <2> DEFINE f == [n \in 0 .. 0 |-> s]
  <2>1. Goes(f, 0)
    OBVIOUS
  <2> QED
    BY <2>1
<1>2. ASSUME NEW m \in Nat, m \in S
      PROVE  m + 1 \in S
  <2>1. PICK f : Goes(f, m)
    BY <1>2
  <2> DEFINE G(n) == IF n = m + 1 THEN Put(f[m], chars[m + 1]) ELSE f[n]
             g == [n \in 0 .. m + 1 |-> G(n)]
  <2>2. \A n \in 0 .. m + 1 : g[n] = G(n)
    OBVIOUS
  <2>3. g[0] = s
    BY <2>1
  <2>4. ASSUME NEW n \in 1 .. m + 1
        PROVE  g[n] = Put(g[n - 1], chars[n])
    <3>1. CASE n = m + 1
      <4>1. n - 1 = m /\ m \in 0 .. m + 1 /\ n \in 0 .. m + 1 /\ m # m + 1
        BY <3>1
      <4>2. g[n - 1] = f[m] /\ g[n] = Put(f[m], chars[n])
        BY <2>2, <3>1, <4>1
      <4> QED
        BY <4>2
    <3>2. CASE n # m + 1
      <4>1. n \in 1 .. m /\ n - 1 \in 0 .. m + 1 /\ n \in 0 .. m + 1 /\ n - 1 # m + 1
        BY <3>2
      <4>2. g[n - 1] = f[n - 1] /\ g[n] = f[n]
        BY <2>2, <3>2, <4>1
      <4> QED
        BY <2>1, <4>1, <4>2
    <3> QED
      BY <3>1, <3>2
  <2>5. Goes(g, m + 1)
    <3>1. g = [n \in 0 .. m + 1 |-> g[n]]
      OBVIOUS
    <3> HIDE DEF g
    <3> QED
      BY <2>3, <2>4, <3>1
  <2>6. m + 1 \in Nat
    OBVIOUS
  <2> HIDE DEF g, Goes
  <2> QED
    BY <2>5, <2>6
<1>3. Nat \subseteq S
  <2> HIDE DEF S
  <2> QED
    BY <1>1, <1>2, NatSetInduction
<1>4. PICK f : Goes(f, N)
  BY <1>3
<1>5. f = Of(f)
  <2>1. \A n \in 0 .. N : f[n] = IF n = 0 THEN s ELSE Put(f[n - 1], chars[n])
    BY <1>4
  <2> QED
    BY <1>4, <2>1
<1> DEFINE c == PutString(s, chars)
<1>6. c = Of(c)
  <2>1. c = CHOOSE x : x = Of(x)
    BY DEF PutString
  <2> HIDE DEF c, Of
  <2> QED
    BY <1>5, <2>1
<1>7. \A n \in 0 .. N : c[n] = IF n = 0 THEN s ELSE Put(c[n - 1], chars[n])
  <2> HIDE DEF c
  <2> QED
    BY <1>6
<1> QED
  BY <1>7

\* So does every beginning of a string.
LEMMA PutStringType ==
  ASSUME NEW s \in State, Listed(s), NEW chars \in Seq(Printable), NEW n \in 0 .. Len(chars)
  PROVE  Handles(s, PutString(s, chars)[n])
<1> DEFINE S == {m \in Nat : m <= Len(chars) => Handles(s, PutString(s, chars)[m])}
<1>1. Len(chars) \in Nat /\ \A m \in 1 .. Len(chars) : chars[m] \in Printable
  OBVIOUS
<1>2. 0 \in S
  BY <1>1, PutStringIs DEF Handles
<1>3. ASSUME NEW m \in Nat, m \in S
      PROVE  m + 1 \in S
  <2>1. SUFFICES ASSUME m + 1 <= Len(chars)
                 PROVE  Handles(s, PutString(s, chars)[m + 1])
    OBVIOUS
  <2>2. m + 1 \in 1 .. Len(chars) /\ (m + 1) - 1 = m /\ m <= Len(chars)
    BY <1>1, <2>1
  <2>3. PICK u : u = PutString(s, chars)[m]
    OBVIOUS
  <2>4. PutString(s, chars)[m + 1] = Put(u, chars[m + 1])
    BY <1>1, <2>2, <2>3, PutStringIs
  <2>5. Handles(s, u)
    BY <1>3, <2>2, <2>3
  <2>6. Handles(u, Put(u, chars[m + 1]))
    BY <1>1, <2>2, <2>5, PutType DEF Handles
  <2> QED
    BY <2>4, <2>5, <2>6, HandlesOn
<1>4. Nat \subseteq S
  <2> HIDE DEF S
  <2> QED
    BY <1>2, <1>3, NatSetInduction
<1> QED
  BY <1>1, <1>4

\* keyboard_handler: what the keys do.
LEMMA PressedIs ==
  ASSUME NEW s, NEW key
  PROVE  \/ key = "PageUp" /\ Pressed(s, key) = LoadPrev(s)
         \/ key = "PageDown" /\ Pressed(s, key) = LoadNext(s)
         \/ key # "PageUp" /\ \E m \in Directions(s) : Pressed(s, key) = Move(s, m)
         \/ key # "PageUp" /\ \E ch \in Printable : Pressed(s, key) = Put(s, ch)
         \/ key # "PageUp" /\ Pressed(s, key) = s
<1> DEFINE keys == {"A", "One", "Enter", "Backspace"}
           arrows == {"ArrowUp", "ArrowLeft", "ArrowRight", "ArrowDown"}
<1>1. DOMAIN Kbdlt = keys /\ DOMAIN Skbdlt = keys
  BY DEF Kbdlt, Skbdlt
<1>2. Pressed(s, key) =
        CASE key = "PageUp"          -> LoadPrev(s)
          [] key = "PageDown"        -> LoadNext(s)
          [] key = "ArrowUp"         -> Move(s, Up(s))
          [] key = "ArrowLeft"       -> Move(s, Left(s))
          [] key = "ArrowRight"      -> Move(s, Right(s))
          [] key = "ArrowDown"       -> Move(s, Down(s))
          [] key \in keys            -> Put(s, IF shift THEN Skbdlt[key] ELSE Kbdlt[key])
          [] OTHER                   -> s
  BY <1>1 DEF Pressed
<1>3. CASE key = "PageUp"
  BY <1>2, <1>3
<1>4. CASE key = "PageDown"
  BY <1>2, <1>4
<1>5. CASE key \in arrows
  <2>1. \E m \in {Up(s), Left(s), Right(s), Down(s)} : Pressed(s, key) = Move(s, m)
    BY <1>2, <1>5
  <2> QED
    BY <1>5, <2>1 DEF Directions
<1>6. CASE key \in keys
  <2>1. Kbdlt[key] \in Printable /\ Skbdlt[key] \in Printable
    BY <1>1, <1>6 DEF Printable
  <2>2. Pressed(s, key) = Put(s, IF shift THEN Skbdlt[key] ELSE Kbdlt[key])
    BY <1>2, <1>6
  <2> QED
    BY <1>6, <2>1, <2>2
<1>7. CASE key \notin keys \cup arrows \cup {"PageUp", "PageDown"}
  <2>1. Pressed(s, key) = s
    BY <1>2, <1>7
  <2> QED
    BY <1>7, <2>1
<1> QED
  BY <1>3, <1>4, <1>5, <1>6, <1>7

\* So does every key.
LEMMA PressedType ==
  ASSUME NEW s \in State, Listed(s), NEW key
  PROVE  Handles(s, Pressed(s, key))
<1>1. Handles(s, s)
  BY DEF Handles
<1> QED
  BY <1>1, PressedIs, LoadPrevType, LoadNextType, MoveType, PutType

-----------------------------------------------------------------------------
(* The kernel *)

Todos == Seq(Printable \cup {"prompt"})

\* Another place in the same character.
LEMMA GotoIs ==
  ASSUME NEW pc \in Places, k \in Progress
  PROVE  /\ Goto(pc) \in Progress /\ Goto(pc).pc = pc /\ Goto(pc).todo = k.todo
         /\ Goto(pc).idx = k.idx /\ Goto(pc).last = k.last /\ Goto(pc).reg = k.reg
         /\ Goto(pc).res = k.res /\ Goto(pc).new = k.new
BY DEF Goto, Progress

\* The next character, or nothing more to print.
LEMMA RestIs ==
  ASSUME NEW todo \in Todos
  PROVE  /\ Rest(todo) \in Progress /\ Rest(todo).todo = todo
         /\ Rest(todo).pc = IF todo = << >> THEN "idle" ELSE "put"
         /\ Between(Rest(todo))
<1>1. Idle \in Progress /\ Idle.todo = << >> /\ Idle.pc = "idle"
  <2>1. << >> \in Todos /\ 0 \in 0 .. Pages
    BY Constants DEF Todos
  <2> QED
    BY <2>1 DEF Idle, Progress, Todos, Places, NULL
<1>2. CASE todo = << >>
  BY <1>1, <1>2 DEF Rest, Between
<1>3. CASE todo # << >>
  <2>1. Rest(todo) = [Idle EXCEPT !.pc = "put", !.todo = todo]
    BY <1>3 DEF Rest
  <2> QED
    BY <1>1, <1>3, <2>1 DEF Progress, Todos, Places, Between
<1> QED
  BY <1>2, <1>3

\* When a character is taken off, what is left has its prompt, if it has one, at the end.
LEMMA TailIs ==
  ASSUME NEW todo \in Todos, todo # << >>, PromptRight(todo)
  PROVE  /\ Tail(todo) \in Todos /\ PromptRight(Tail(todo)) /\ Head(todo) = todo[1]
         /\ Head(todo) \in Printable \cup {"prompt"}
         /\ \A i \in DOMAIN Tail(todo) : i + 1 \in DOMAIN todo /\ Tail(todo)[i] = todo[i + 1]
         /\ Head(todo) # ">" => \A i \in DOMAIN Tail(todo) : Tail(todo)[i] # "prompt"
<1>1. /\ Tail(todo) \in Todos /\ Head(todo) = todo[1] /\ Head(todo) \in Printable \cup {"prompt"}
      /\ Len(Tail(todo)) = Len(todo) - 1 /\ DOMAIN Tail(todo) = 1 .. Len(todo) - 1
      /\ DOMAIN todo = 1 .. Len(todo) /\ Len(todo) \in Nat
  BY DEF Todos
<1>2. \A i \in DOMAIN Tail(todo) : i + 1 \in DOMAIN todo /\ Tail(todo)[i] = todo[i + 1]
  BY <1>1 DEF Todos
<1>3. ASSUME NEW i \in DOMAIN Tail(todo), Tail(todo)[i] = "prompt"
      PROVE  /\ Head(todo) = ">"
             /\ \A j \in 1 .. i - 1 : Tail(todo)[j] = ">"
  <2>1. todo[i + 1] = "prompt" /\ i + 1 \in DOMAIN todo /\ i \in Nat \ {0}
    BY <1>1, <1>2, <1>3
  <2>2. \A j \in 1 .. (i + 1) - 1 : todo[j] = ">"
    BY <2>1 DEF PromptRight
  <2>3. todo[1] = ">"
    BY <2>1, <2>2
  <2>4. ASSUME NEW j \in 1 .. i - 1 PROVE Tail(todo)[j] = ">"
    <3>1. j \in DOMAIN Tail(todo) /\ j + 1 \in 1 .. (i + 1) - 1
      BY <1>1, <2>1
    <3> QED
      BY <1>2, <2>2, <3>1
  <2> QED
    BY <1>1, <2>3, <2>4
<1> QED
  BY <1>1, <1>2, <1>3 DEF PromptRight

\* The prompt goes before what is left to print.
LEMMA PromptedIs ==
  ASSUME NEW todo \in Todos, \A i \in DOMAIN todo : todo[i] # "prompt",
         NEW new, new = << ">", ">", "prompt" >> \o todo
  PROVE  new \in Todos /\ PromptRight(new) /\ new # << >>
<1>1. PICK p : p = << ">", ">", "prompt" >>
  OBVIOUS
<1>2. p \in Todos /\ Len(p) = 3 /\ p[1] = ">" /\ p[2] = ">" /\ p[3] = "prompt"
  BY <1>1, Constants DEF Todos
<1>3. /\ new \in Todos /\ Len(new) = 3 + Len(todo) /\ Len(todo) \in Nat
      /\ DOMAIN new = 1 .. 3 + Len(todo) /\ DOMAIN todo = 1 .. Len(todo)
      /\ \A i \in 1 .. 3 + Len(todo) : new[i] = IF i <= 3 THEN p[i] ELSE todo[i - 3]
  BY <1>1, <1>2 DEF Todos
<1>4. ASSUME NEW i \in DOMAIN new, new[i] = "prompt" PROVE i = 3
  <2>1. CASE i <= 3
    BY <1>2, <1>3, <1>4, <2>1
  <2>2. CASE ~(i <= 3)
    <3>1. i - 3 \in DOMAIN todo /\ new[i] = todo[i - 3]
      BY <1>3, <2>2
    <3> QED
      BY <1>4, <3>1
  <2> QED
    BY <2>1, <2>2
<1>5. \A j \in 1 .. 3 - 1 : new[j] = ">"
  BY <1>2, <1>3
<1> QED
  BY <1>3, <1>4, <1>5 DEF PromptRight

\* Reading on from a page takes from what is left of it, or gives it back.
LEMMA SpendIs ==
  ASSUME NEW s \in State, Listed(s), NEW n \in Int
  PROVE  /\ Spend(s, n) \in State
         /\ Spend(s, n).row = s.row /\ Spend(s, n).column = s.column
         /\ Spend(s, n).stopped = s.stopped /\ Listed(Spend(s, n))
         /\ s.buffer = Screen => Spend(s, n) = s
<1>1. CASE s.buffer = Screen
  BY <1>1 DEF Spend
<1>2. CASE s.buffer # Screen
  <2> DEFINE left == [s.left EXCEPT ![s.head] = @ - n]
  <2>1. s.head \in Page /\ s.left \in [Page -> Int]
    BY <1>2, Fields, Constants DEF Listed, NULL
  <2>2. left \in [Page -> Int]
    BY <2>1
  <2>3. Spend(s, n) = [s EXCEPT !.left = left]
    BY <1>2 DEF Spend
  <2> HIDE DEF left
  <2> QED
    BY <1>2, <2>2, <2>3 DEF State, Listed
<1> QED
  BY <1>1, <1>2

\* What every step of the kernel keeps.
Base(s, l) ==
  /\ s \in State /\ l \in Progress
  /\ TodoRight(l) /\ Listed(s) /\ Placed(s, l)

\* Between two characters.
LEMMA RestKeeps ==
  ASSUME NEW s \in State, Listed(s), s.row < Height, s.column < Width,
         NEW todo \in Todos, PromptRight(todo)
  PROVE  Base(s, Rest(todo))
<1>1. /\ Rest(todo) \in Progress /\ Rest(todo).todo = todo /\ Between(Rest(todo))
      /\ Rest(todo).pc = IF todo = << >> THEN "idle" ELSE "put"
  BY RestIs
<1>2. Rest(todo).pc \in {"idle", "put"}
  BY <1>1
<1>3. TodoRight(Rest(todo))
  BY <1>1, <1>2 DEF TodoRight, Lines, Chars
<1>4. Placed(s, Rest(todo))
  BY <1>2 DEF Placed
<1> QED
  BY <1>1, <1>3, <1>4 DEF Base

\* In the middle of one: the kernel goes on with the same string.
OnAt(l, pc) == l \in Progress /\ l.pc = pc /\ l.todo = k.todo

\* The next place in the same character has to print what it should.
LEMMA OnKeeps ==
  ASSUME k \in Progress, TodoRight(k), k.pc # "idle", NEW l, NEW pc, OnAt(l, pc),
         pc \notin {"idle", "put"},
         Head(k.todo) # "prompt",
         pc \in Lines => NewLine,
         pc \in Chars => ~NewLine
  PROVE  TodoRight(l) /\ l.todo # << >> /\ Head(l.todo) = Char
BY DEF OnAt, TodoRight, Between, NewLine, Char

\* Where the characters come from.
LEMMA TodoIs ==
  ASSUME k \in Progress, TodoRight(k), k.pc # "idle"
  PROVE  /\ k.todo \in Todos /\ k.todo # << >> /\ PromptRight(k.todo)
         /\ ~Between(k) => Char # "prompt" /\ Char \in Printable
         /\ Char # "prompt" => Char \in Printable
         /\ Tail(k.todo) \in Todos /\ PromptRight(Tail(k.todo))
         /\ Char # ">" => Promptless(Tail(k.todo))
<1>1. k.todo \in Todos /\ k.todo # << >> /\ PromptRight(k.todo)
  BY DEF Progress, Todos, TodoRight
<1> QED
  BY <1>1, TailIs DEF TodoRight, Char, Promptless

\* The steps between two characters.
LEMMA CharacterKeeps ==
  ASSUME Base(t, k), Printk \/ Begin \/ EndPrompt
  PROVE  Base(t, k)'
<1>1. /\ t \in State /\ k \in Progress /\ TodoRight(k) /\ Listed(t) /\ Placed(t, k)
  BY DEF Base
<1>2. Between(k) /\ t.row < Height /\ t.column < Width
  BY <1>1, TerminalAssumption, Fields
     DEF Printk, Begin, EndPrompt, Kernel, Between, Placed, OverEdge, OverFoot
<1>3. CASE Printk
  <2>1. PICK item \in Items : t' = t /\ k' = Rest(Printed(item))
    BY <1>3 DEF Printk, To
  <2>2. Printed(item) \in Todos /\ \A i \in DOMAIN Printed(item) : Printed(item)[i] # "prompt"
    <3>1. Printed(item) \in Seq(Printable \ {"backspace", "prompt"})
      BY PrintsAssumption
    <3> HIDE DEF Printed
    <3> QED
      BY <3>1 DEF Todos
  <2>3. PromptRight(Printed(item))
    BY <2>2 DEF PromptRight
  <2>4. Base(t, Rest(Printed(item)))
    BY <1>1, <1>2, <2>2, <2>3, RestKeeps
  <2> QED
    BY <2>1, <2>4
<1>4. CASE Begin
  <2>1. PICK pc \in {"erase", "index"} : pc = IF NewLine THEN "erase" ELSE "index"
    OBVIOUS
  <2>2. t' = LoadHead(t) /\ k' = Goto(pc) /\ k.pc = "put" /\ Char # "prompt"
    BY <1>4, <2>1 DEF Begin, To, Kernel
  <2>3. OnAt(Goto(pc), pc) /\ pc \in Places
    BY <1>1, <2>1, GotoIs DEF OnAt, Places
  <2>4. TodoRight(Goto(pc))
    BY <1>1, <2>1, <2>2, <2>3, OnKeeps DEF Char, Lines, Chars
  <2>5. Handles(t, LoadHead(t))
    BY <1>1, LoadHeadHandles
  <2>6. Placed(LoadHead(t), Goto(pc))
    BY <1>2, <2>1, <2>3, <2>5 DEF Placed, Handles, OnAt
  <2>7. Base(LoadHead(t), Goto(pc))
    BY <2>3, <2>4, <2>5, <2>6 DEF Base, Handles, OnAt
  <2> QED
    BY <2>2, <2>7
<1>5. CASE EndPrompt
  <2>1. t' = Prompt(t) /\ k' = Rest(Tail(k.todo)) /\ k.pc = "put"
    BY <1>5 DEF EndPrompt, To, Kernel
  <2>2. Tail(k.todo) \in Todos /\ PromptRight(Tail(k.todo))
    BY <1>1, <2>1, TodoIs
  <2>3. Prompt(t) \in State /\ OnScreen(t, Prompt(t))
    BY <1>1, PromptIs
  <2>4. Base(Prompt(t), Rest(Tail(k.todo)))
    BY <1>1, <1>2, <2>2, <2>3, RestKeeps DEF OnScreen, Listed
  <2> QED
    BY <2>1, <2>4
<1> QED
  BY <1>3, <1>4, <1>5

\* The kernel in the middle of a character that is no new line.
LEMMA OnCharKeeps ==
  ASSUME k \in Progress, TodoRight(k), k.pc \in Chars, NEW s \in State, Listed(s),
         NEW l, NEW pc \in Chars \cup {"choose", "save", "clear"}, OnAt(l, pc), Placed(s, l)
  PROVE  Base(s, l)
<1>1. Char # "prompt" /\ ~NewLine /\ k.pc # "idle"
  BY DEF TodoRight, Chars, Between, NewLine, Char
<1>2. pc \notin Lines /\ pc \notin {"idle", "put"}
  BY DEF Chars, Lines
<1>3. TodoRight(l)
  BY <1>1, <1>2, OnKeeps DEF Char
<1> QED
  BY <1>3 DEF Base, OnAt

\* The kernel where it draws the cursor.
DrawAt(res) == [Goto("draw") EXCEPT !.res = res]

\* The kernel gets there with what it has in its local variables.
LEMMA DrawAtIs ==
  ASSUME k \in Progress, NEW res \in 0 .. 2
  PROVE  /\ OnAt(DrawAt(res), "draw") /\ DrawAt(res).res = res
         /\ DrawAt(res).idx = k.idx /\ DrawAt(res).last = k.last
BY DEF DrawAt, Goto, Progress, OnAt, Places

\* The steps of terminal_move_, to the right.
LEMMA AdvanceKeeps ==
  ASSUME Base(t, k),
         TakeIndex \/ FetchColumn \/ StoreColumn \/ TestColumn \/ StoreRow \/ TestRow \/ Draw
  PROVE  Base(t, k)'
<1>1. /\ t \in State /\ k \in Progress /\ TodoRight(k) /\ Listed(t) /\ Placed(t, k)
      /\ t.row \in Nat /\ t.column \in Nat /\ Width \in Nat /\ Width > 2
      /\ Height \in Nat \ {0}
  BY Fields, TerminalAssumption DEF Base
<1>2. k.reg \in Nat /\ Pos(t) \in Nat /\ k.last \in Nat /\ k.res \in 0 .. 2
  BY <1>1, PosIs DEF Progress
<1>3. CASE TakeIndex
  <2>1. PICK l : l = [Goto("fetch") EXCEPT !.idx = Pos(t)]
    OBVIOUS
  <2>2. t' = Spend(t, 1) /\ k' = l /\ k.pc = "index"
    BY <1>3, <2>1 DEF TakeIndex, To, Kernel
  <2>3. OnAt(l, "fetch")
    BY <1>1, <1>2, <2>1 DEF Goto, Progress, OnAt, Places
  <2>4. Spend(t, 1) \in State /\ Spend(t, 1).row = t.row /\ Spend(t, 1).column = t.column
        /\ Listed(Spend(t, 1))
    BY <1>1, SpendIs
  <2>5. Placed(Spend(t, 1), l)
    BY <1>1, <2>2, <2>3, <2>4 DEF Placed, OverEdge, OverFoot, OnAt
  <2>6. Base(Spend(t, 1), l)
    BY <1>1, <2>2, <2>3, <2>4, <2>5, OnCharKeeps DEF Chars
  <2> QED
    BY <2>2, <2>6
<1>4. CASE FetchColumn
  <2>1. PICK l : l = [Goto("column") EXCEPT !.last = Pos(t), !.reg = t.column]
    OBVIOUS
  <2>2. t' = t /\ k' = l /\ k.pc = "fetch"
    BY <1>4, <2>1 DEF FetchColumn, To, Kernel
  <2>3. OnAt(l, "column") /\ l.reg = t.column
    BY <1>1, <1>2, <2>1 DEF Goto, Progress, OnAt, Places
  <2>4. Placed(t, l)
    BY <1>1, <2>2, <2>3 DEF Placed, OverEdge, OverFoot, OnAt
  <2>5. Base(t, l)
    BY <1>1, <2>2, <2>3, <2>4, OnCharKeeps DEF Chars
  <2> QED
    BY <2>2, <2>5
<1>5. CASE StoreColumn
  <2>1. PICK s : s = [t EXCEPT !.column = k.reg + 1]
    OBVIOUS
  <2>2. t' = s /\ k' = Goto("edge") /\ k.pc = "column"
    BY <1>5, <2>1 DEF StoreColumn, To, Kernel
  <2>3. Puts(t, s, t.row, k.reg + 1)
    BY <2>1 DEF Puts
  <2>4. Moves(t, s) /\ s.row = t.row /\ s.column = k.reg + 1
    BY <1>1, <1>2, <2>3, PlacedType
  <2>5. OnAt(Goto("edge"), "edge")
    BY <1>1, GotoIs DEF OnAt, Places
  <2>6. Placed(s, Goto("edge"))
    BY <1>1, <2>2, <2>4, <2>5 DEF Placed, OverEdge, OverFoot, OnAt
  <2>7. Base(s, Goto("edge"))
    BY <1>1, <2>2, <2>4, <2>5, <2>6, OnCharKeeps DEF Chars, Moves, Listed
  <2> QED
    BY <2>2, <2>7
<1>6. CASE TestColumn
  <2>1. k.pc = "edge" /\ t.row < Height
    BY <1>1, <1>6 DEF TestColumn, Kernel, Placed, OverFoot
  <2>2. CASE AtEdge(t)
    <3>1. PICK s, l : s = [t EXCEPT !.column = 0] /\ l = [Goto("row") EXCEPT !.reg = t.row]
      OBVIOUS
    <3>2. t' = s /\ k' = l
      BY <1>6, <2>2, <3>1 DEF TestColumn, To
    <3>3. Puts(t, s, t.row, 0)
      BY <3>1 DEF Puts
    <3>4. Moves(t, s) /\ s.row = t.row /\ s.column = 0
      BY <1>1, <3>3, PlacedType
    <3>5. OnAt(l, "row") /\ l.reg = t.row
      BY <1>1, <3>1 DEF Goto, Progress, OnAt, Places
    <3>6. Placed(s, l)
      BY <1>1, <2>1, <3>4, <3>5 DEF Placed, OverEdge, OverFoot, OnAt
    <3>7. Base(s, l)
      BY <1>1, <2>1, <3>4, <3>5, <3>6, OnCharKeeps DEF Chars, Moves, Listed
    <3> QED
      BY <3>2, <3>7
  <2>3. CASE ~AtEdge(t)
    <3>1. PICK l : l = DrawAt(0)
      OBVIOUS
    <3>2. t' = t /\ k' = l
      BY <1>6, <2>3, <3>1 DEF TestColumn, To, DrawAt
    <3>3. OnAt(l, "draw")
      BY <1>1, <3>1, DrawAtIs
    <3>4. Placed(t, l)
      BY <1>1, <2>1, <2>3, <3>3 DEF Placed, OverEdge, OverFoot, OnAt, AtEdge
    <3>5. Base(t, l)
      BY <1>1, <2>1, <3>3, <3>4, OnCharKeeps DEF Chars
    <3> QED
      BY <3>2, <3>5
  <2> QED
    BY <2>2, <2>3
<1>7. CASE StoreRow
  <2>1. PICK s : s = [t EXCEPT !.row = k.reg + 1]
    OBVIOUS
  <2>2. t' = s /\ k' = Goto("foot") /\ k.pc = "row"
    BY <1>7, <2>1 DEF StoreRow, To, Kernel
  <2>3. Puts(t, s, k.reg + 1, t.column)
    BY <2>1 DEF Puts
  <2>4. Moves(t, s) /\ s.column = t.column
    BY <1>1, <1>2, <2>3, PlacedType
  <2>5. OnAt(Goto("foot"), "foot")
    BY <1>1, GotoIs DEF OnAt, Places
  <2>6. Placed(s, Goto("foot"))
    BY <1>1, <2>2, <2>4, <2>5 DEF Placed, OverEdge, OverFoot, OnAt
  <2>7. Base(s, Goto("foot"))
    BY <1>1, <2>2, <2>4, <2>5, <2>6, OnCharKeeps DEF Chars, Moves, Listed
  <2> QED
    BY <2>2, <2>7
<1>8. CASE TestRow
  <2>1. k.pc = "foot" /\ t.column < Width
    BY <1>1, <1>8 DEF TestRow, Kernel, Placed, OverEdge
  <2>2. CASE AtFoot(t)
    <3>1. PICK s, l : s = [t EXCEPT !.row = 0] /\ l = DrawAt(2)
      OBVIOUS
    <3>2. t' = s /\ k' = l
      BY <1>8, <2>2, <3>1 DEF TestRow, To, DrawAt
    <3>3. Puts(t, s, 0, t.column)
      BY <3>1 DEF Puts
    <3>4. Moves(t, s) /\ s.row = 0 /\ s.column = t.column
      BY <1>1, <3>3, PlacedType
    <3>5. OnAt(l, "draw")
      BY <1>1, <3>1, DrawAtIs
    <3>6. Placed(s, l)
      BY <1>1, <2>1, <3>4, <3>5 DEF Placed, OverEdge, OverFoot, OnAt
    <3>7. Base(s, l)
      BY <1>1, <2>1, <3>4, <3>5, <3>6, OnCharKeeps DEF Chars, Moves, Listed
    <3> QED
      BY <3>2, <3>7
  <2>3. CASE ~AtFoot(t)
    <3>1. PICK l : l = DrawAt(1)
      OBVIOUS
    <3>2. t' = t /\ k' = l
      BY <1>8, <2>3, <3>1 DEF TestRow, To, DrawAt
    <3>3. OnAt(l, "draw")
      BY <1>1, <3>1, DrawAtIs
    <3>4. Placed(t, l)
      BY <1>1, <2>1, <2>3, <3>3 DEF Placed, OverEdge, OverFoot, OnAt, AtFoot
    <3>5. Base(t, l)
      BY <1>1, <2>1, <3>3, <3>4, OnCharKeeps DEF Chars
    <3> QED
      BY <3>2, <3>5
  <2> QED
    BY <2>2, <2>3
<1>9. CASE Draw
  <2>1. PICK pc \in {"char", "clear", "choose"} : pc = After(k.res)
    BY <1>2 DEF After
  <2>2. t' = DrawCursor(t, k.last) /\ k' = Goto(pc) /\ k.pc = "draw"
    BY <1>9, <2>1 DEF Draw, To, Kernel
  <2>3. OnAt(Goto(pc), pc)
    BY <1>1, <2>1, GotoIs DEF OnAt, Places
  <2>4. Writes(t, DrawCursor(t, k.last))
    BY <1>1, <1>2, DrawCursorType
  <2>5. Placed(DrawCursor(t, k.last), Goto(pc))
    BY <1>1, <2>1, <2>2, <2>3, <2>4 DEF Placed, OverEdge, OverFoot, OnAt, Writes
  <2>6. Base(DrawCursor(t, k.last), Goto(pc))
    BY <1>1, <2>1, <2>2, <2>3, <2>4, <2>5, OnCharKeeps DEF Chars, Writes, Listed
  <2> QED
    BY <2>2, <2>6
<1> QED
  BY <1>3, <1>4, <1>5, <1>6, <1>7, <1>8, <1>9

\* The kernel in the middle of a character.
LEMMA MidKeeps ==
  ASSUME k \in Progress, TodoRight(k), ~Between(k), NEW s \in State, Listed(s),
         NEW l, NEW pc, pc \notin {"idle", "put"}, OnAt(l, pc), Placed(s, l),
         pc \in Lines => NewLine, pc \in Chars => ~NewLine
  PROVE  Base(s, l)
<1>1. Char # "prompt" /\ k.pc # "idle"
  BY DEF TodoRight, Between, Char
<1>2. TodoRight(l)
  BY <1>1, OnKeeps DEF Char
<1> QED
  BY <1>2 DEF Base, OnAt

\* The steps of terminal_save_state, and of what follows it.
LEMMA SavingKeeps ==
  ASSUME Base(t, k), Choose \/ SaveTo \/ Clear \/ SetIt
  PROVE  Base(t, k)'
<1>1. /\ t \in State /\ k \in Progress /\ TodoRight(k) /\ Listed(t) /\ Placed(t, k)
      /\ t.row \in Nat /\ t.column \in Nat /\ Width \in Nat /\ Width > 2
      /\ Height \in Nat \ {0}
  BY Fields, TerminalAssumption DEF Base
<1>2. k.pc \in {"choose", "save", "clear", "char"} /\ ~Between(k) /\ ~t.stopped
  BY DEF Choose, SaveTo, Clear, SetIt, Kernel, Between
<1>3. CASE Choose
  <2>1. PICK s, l : s = ChoosePage(t) /\ l = [Goto("save") EXCEPT !.new = s.head]
    OBVIOUS
  <2>2. t' = s /\ k' = l /\ k.pc = "choose"
    BY <1>3, <2>1 DEF Choose, To, Kernel
  <2>3. Chooses(t, s) /\ s \in State /\ (~s.stopped => s.head \in Page) /\ Listed(s)
    <3>1. t.head \in 0 .. Pages /\ (Kept(t) => t.head \in Page)
      BY <1>1, Fields, Constants DEF Kept, NULL
    <3>2. \A p \in Page : p # NULL
      BY Constants DEF Page, NULL
    <3> QED
      BY <1>1, <2>1, <3>1, <3>2, ChooseIs DEF NewPage, Chooses, Listed
  <2>4. OnAt(l, "save") /\ l.new = s.head /\ l.res = k.res
    <3>1. s.head \in 0 .. Pages
      BY <2>3, Fields
    <3> QED
      BY <1>1, <2>1, <3>1 DEF Goto, Progress, OnAt, Places
  <2>5. Placed(s, l)
    BY <1>1, <2>2, <2>3, <2>4 DEF Placed, OverEdge, OverFoot, OnAt, Chooses
  <2>6. Base(s, l)
    BY <1>1, <1>2, <2>3, <2>4, <2>5, MidKeeps DEF Lines, Chars
  <2> QED
    BY <2>2, <2>6
<1>4. CASE SaveTo
  <2>1. PICK s : s = SavePage(t, k.new)
    OBVIOUS
  <2>2. t' = s /\ k' = Goto("clear") /\ k.pc = "save" /\ k.new \in Page
    BY <1>1, <1>2, <1>4, <2>1 DEF SaveTo, To, Kernel, Placed
  <2>3. Saves(t, s) /\ Listed(s)
    BY <1>1, <2>1, <2>2, SavePageListed
  <2>5. OnAt(Goto("clear"), "clear") /\ Goto("clear").res = k.res
    BY <1>1, GotoIs DEF OnAt, Places
  <2>6. Placed(s, Goto("clear"))
    BY <1>1, <2>2, <2>3, <2>5 DEF Placed, OverEdge, OverFoot, OnAt, Saves
  <2>7. Base(s, Goto("clear"))
    BY <1>1, <1>2, <2>3, <2>5, <2>6, MidKeeps DEF Lines, Chars, Saves
  <2> QED
    BY <2>2, <2>7
<1>5. CASE Clear /\ NewLine
  <2>1. PICK u : u = IF k.res = 2 THEN RowTo(t, 0) ELSE t
    OBVIOUS
  <2>2. PICK todo : todo = << ">", ">", "prompt" >> \o Tail(k.todo)
    OBVIOUS
  <2>3. t' = ClearRow(u) /\ k' = Rest(todo) /\ k.pc = "clear"
    BY <1>5, <2>1, <2>2 DEF Clear, To, Kernel, RowTo
  <2>4. u \in State /\ Listed(u) /\ u.row < Height /\ u.column < Width
    <3>1. CASE k.res = 2
      <4>1. Moves(t, u) /\ u.row = 0 /\ u.column = t.column
        BY <1>1, <2>1, <3>1, RowIs
      <4>2. t.column < Width
        BY <1>1, <2>3 DEF Placed, OverEdge
      <4> QED
        BY <1>1, <4>1, <4>2 DEF Moves, Listed
    <3>2. CASE k.res # 2
      BY <1>1, <2>1, <2>3, <3>2 DEF Placed, OverEdge, OverFoot
    <3> QED
      BY <3>1, <3>2
  <2>5. Writes(u, ClearRow(u))
    BY <2>4, ClearRowType
  <2>6. todo \in Todos /\ PromptRight(todo)
    <3>1. Tail(k.todo) \in Todos /\ Promptless(Tail(k.todo))
      BY <1>1, <1>2, <1>5, TodoIs DEF NewLine
    <3> QED
      BY <2>2, <3>1, PromptedIs DEF Promptless
  <2>7. Base(ClearRow(u), Rest(todo))
    BY <2>4, <2>5, <2>6, RestKeeps DEF Writes, Listed
  <2> QED
    BY <2>3, <2>7
<1>6. CASE Clear /\ ~NewLine
  <2>1. t' = ClearRow(t) /\ k' = Goto("char") /\ k.pc = "clear"
    BY <1>6 DEF Clear, To, Kernel
  <2>2. Writes(t, ClearRow(t))
    BY <1>1, ClearRowType
  <2>3. OnAt(Goto("char"), "char")
    BY <1>1, GotoIs DEF OnAt, Places
  <2>4. Placed(ClearRow(t), Goto("char"))
    BY <1>1, <1>6, <2>1, <2>2, <2>3
       DEF Placed, OverEdge, OverFoot, OnAt, Writes, NewLine, Char
  <2>5. Base(ClearRow(t), Goto("char"))
    BY <1>1, <1>2, <1>6, <2>2, <2>3, <2>4, MidKeeps DEF Lines, Chars, Writes, Listed
  <2> QED
    BY <2>1, <2>5
<1>7. CASE SetIt
  <2>1. t' = SetChar(t, k.idx, Char) /\ k' = Rest(Tail(k.todo)) /\ k.pc = "char"
    BY <1>7 DEF SetIt, To, Kernel
  <2>2. Char \in Printable /\ Tail(k.todo) \in Todos /\ PromptRight(Tail(k.todo))
    BY <1>1, <1>2, <2>1, TodoIs
  <2>3. Writes(t, SetChar(t, k.idx, Char))
    <3>1. k.idx \in Int /\ Char \in Glyph
      BY <1>1, <2>2, Constants DEF Progress
    <3> QED
      BY <1>1, <3>1, SetCharType
  <2>4. t.row < Height /\ t.column < Width
    BY <1>1, <2>1 DEF Placed, OverEdge, OverFoot
  <2>5. Base(SetChar(t, k.idx, Char), Rest(Tail(k.todo)))
    BY <1>1, <2>2, <2>3, <2>4, RestKeeps DEF Writes, Listed
  <2> QED
    BY <2>1, <2>5
<1> QED
  BY <1>3, <1>4, <1>5, <1>6, <1>7

\* The steps of terminal_next_line.
LEMMA LineKeeps ==
  ASSUME Base(t, k), Erase \/ Return \/ Line \/ TestLine
  PROVE  Base(t, k)'
<1>1. /\ t \in State /\ k \in Progress /\ TodoRight(k) /\ Listed(t) /\ Placed(t, k)
      /\ t.row \in Nat /\ t.column \in Nat /\ Width \in Nat /\ Width > 2
      /\ Height \in Nat \ {0}
  BY Fields, TerminalAssumption DEF Base
<1>2. k.pc \in Lines /\ ~Between(k) /\ NewLine /\ k.reg \in Nat
  BY <1>1 DEF Erase, Return, Line, TestLine, Kernel, Between, Lines, TodoRight, NewLine, Char,
              Progress
<1>3. CASE Erase
  <2>1. PICK s : s = IF t.buffer # Screen THEN Spend(t, Width - t.column)
                     ELSE SetVga(t, Pos(t), t.under)
    OBVIOUS
  <2>2. t' = s /\ k' = Goto("return") /\ k.pc = "erase"
    BY <1>3, <2>1 DEF Erase, To, Kernel
  <2>3. s \in State /\ Listed(s) /\ s.row = t.row /\ s.column = t.column
    <3>1. Width - t.column \in Int /\ Pos(t) \in Int /\ t.under \in Glyph
      BY <1>1, PosIs, Fields
    <3>2. CASE t.buffer # Screen
      <4>1. s = Spend(t, Width - t.column)
        BY <2>1, <3>2
      <4> QED
        BY <1>1, <3>1, <4>1, SpendIs
    <3>3. CASE t.buffer = Screen
      <4>1. s = SetVga(t, Pos(t), t.under)
        BY <2>1, <3>3
      <4>2. s \in State /\ OnScreen(t, s)
        BY <1>1, <3>1, <4>1, SetVgaIs
      <4> QED
        BY <1>1, <4>2 DEF OnScreen, Listed
    <3> QED
      BY <3>2, <3>3
  <2>4. OnAt(Goto("return"), "return")
    BY <1>1, GotoIs DEF OnAt, Places
  <2>5. Placed(s, Goto("return"))
    BY <1>1, <2>2, <2>3, <2>4 DEF Placed, OverEdge, OverFoot, OnAt
  <2>6. Base(s, Goto("return"))
    BY <1>1, <1>2, <2>3, <2>4, <2>5, MidKeeps DEF Lines, Chars
  <2> QED
    BY <2>2, <2>6
<1>4. CASE Return
  <2>1. PICK s, l : s = [t EXCEPT !.column = 0] /\ l = [Goto("line") EXCEPT !.reg = t.row]
    OBVIOUS
  <2>2. t' = s /\ k' = l /\ k.pc = "return"
    BY <1>4, <2>1 DEF Return, To, Kernel
  <2>3. Puts(t, s, t.row, 0)
    BY <2>1 DEF Puts
  <2>4. Moves(t, s) /\ s.row = t.row /\ s.column = 0
    BY <1>1, <2>3, PlacedType
  <2>5. OnAt(l, "line") /\ l.reg = t.row
    BY <1>1, <2>1 DEF Goto, Progress, OnAt, Places
  <2>6. Placed(s, l)
    BY <1>1, <2>2, <2>4, <2>5 DEF Placed, OverEdge, OverFoot, OnAt
  <2>7. Base(s, l)
    BY <1>1, <1>2, <2>4, <2>5, <2>6, MidKeeps DEF Lines, Chars, Moves, Listed
  <2> QED
    BY <2>2, <2>7
<1>5. CASE Line
  <2>1. PICK s : s = [t EXCEPT !.row = k.reg + 1]
    OBVIOUS
  <2>2. t' = s /\ k' = Goto("bottom") /\ k.pc = "line"
    BY <1>5, <2>1 DEF Line, To, Kernel
  <2>3. Puts(t, s, k.reg + 1, t.column)
    BY <2>1 DEF Puts
  <2>4. Moves(t, s) /\ s.column = t.column
    BY <1>1, <1>2, <2>3, PlacedType
  <2>5. OnAt(Goto("bottom"), "bottom")
    BY <1>1, GotoIs DEF OnAt, Places
  <2>6. Placed(s, Goto("bottom"))
    BY <1>1, <2>2, <2>4, <2>5 DEF Placed, OverEdge, OverFoot, OnAt
  <2>7. Base(s, Goto("bottom"))
    BY <1>1, <1>2, <2>4, <2>5, <2>6, MidKeeps DEF Lines, Chars, Moves, Listed
  <2> QED
    BY <2>2, <2>7
<1>6. CASE TestLine
  <2>1. PICK pc \in {"choose", "clear"}, res \in 0 .. 2 :
               /\ pc = IF AtFoot(t) THEN "choose" ELSE "clear"
               /\ res = IF AtFoot(t) THEN 2 ELSE 1
    OBVIOUS
  <2>2. PICK l : l = [Goto(pc) EXCEPT !.res = res]
    OBVIOUS
  <2>3. t' = t /\ k' = l /\ k.pc = "bottom"
    BY <1>6, <2>1, <2>2 DEF TestLine, To, Kernel
  <2>4. OnAt(l, pc) /\ l.res = res
    BY <1>1, <2>1, <2>2 DEF Goto, Progress, OnAt, Places
  <2>5. Placed(t, l)
    BY <1>1, <1>2, <2>1, <2>3, <2>4
       DEF Placed, OverEdge, OverFoot, OnAt, AtFoot, NewLine, Char
  <2>6. Base(t, l)
    BY <1>1, <1>2, <2>1, <2>4, <2>5, MidKeeps DEF Lines, Chars
  <2> QED
    BY <2>3, <2>6
<1> QED
  BY <1>3, <1>4, <1>5, <1>6

\* A handler leaves the kernel where it was.
LEMMA HandlerKeeps ==
  ASSUME Base(t, k), Remark \/ Keyboard
  PROVE  Base(t, k)'
<1>1. /\ t \in State /\ k \in Progress /\ TodoRight(k) /\ Listed(t) /\ Placed(t, k)
  BY DEF Base
<1>2. PICK s : Handles(t, s) /\ t' = s /\ k' = k /\ ~t.stopped
  <2>1. CASE Remark
    <3>1. PICK remark \in Remarks : Interrupt({PutString(t, remark)[n] : n \in 1 .. Len(remark)},
                                              PutString(t, remark)[Len(remark)])
      BY <2>1 DEF Remark
    <3>2. remark \in Seq(Printable) /\ Len(remark) \in 0 .. Len(remark)
      BY PrintsAssumption
    <3>3. Handles(t, PutString(t, remark)[Len(remark)])
      BY <1>1, <3>2, PutStringType
    <3> QED
      BY <3>1, <3>3 DEF Interrupt
  <2>2. CASE Keyboard
    <3>1. PICK key \in Keys : Interrupt({Pressed(t, key)}, Pressed(t, key))
      BY <2>2 DEF Keyboard
    <3>2. Handles(t, Pressed(t, key))
      BY <1>1, PressedType
    <3> QED
      BY <3>1, <3>2 DEF Interrupt
  <2> QED
    BY <2>1, <2>2
<1>3. /\ t.row \in Nat /\ t.column \in Nat /\ Width \in Nat /\ Height \in Nat
  BY <1>1, Fields, TerminalAssumption
<1>4. Placed(s, k)
  BY <1>1, <1>2, <1>3 DEF Placed, Handles
<1>5. Base(s, k)
  BY <1>1, <1>2, <1>4 DEF Base, Handles
<1> QED
  BY <1>2, <1>5

\* terminal_init.
LEMMA InitBase ==
  ASSUME Init
  PROVE  Base(t, k) /\ Stored(t) /\ PagesRight(t) /\ t.vga = Empty /\ t.buffer = Screen
         /\ t.head = NULL /\ ~t.stopped /\ k.todo = << >> /\ k.pc = "idle"
<1>1. PICK junk \in {NULL, Wild, Unmapped} :
         t = [row |-> 0, column |-> 0, buffer |-> Screen, vga |-> Empty, under |-> Blank,
            head |-> NULL, cur |-> NULL, pages |-> 0,
            page |-> [p \in Page |-> Empty], left |-> [p \in Page |-> 0],
            next |-> [p \in Page |-> junk], prev |-> [p \in Page |-> NULL],
            strayed |-> {}, stopped |-> FALSE]
  BY DEF Init
<1>2. PICK page : page = [p \in Page |-> Empty]
  OBVIOUS
<1>3. PICK left : left = [p \in Page |-> 0]
  OBVIOUS
<1>4. PICK next : next = [p \in Page |-> junk]
  OBVIOUS
<1>5. PICK prev : prev = [p \in Page |-> NULL]
  OBVIOUS
<1>6. page \in [Page -> [Cell -> Glyph]] /\ left \in [Page -> Int]
  BY <1>2, <1>3, EmptyType
<1>7. next \in [Page -> -2 .. Pages] /\ prev \in [Page -> 0 .. Pages]
  <2>1. junk \in -2 .. Pages /\ NULL \in 0 .. Pages
    BY Constants DEF NULL, Wild, Unmapped
  <2> QED
    BY <1>4, <1>5, <2>1
<1>8. Blank \in Glyph /\ 0 \in 0 .. Pages /\ Empty \in [Cell -> Glyph]
  BY Constants, EmptyType
<1>9. /\ t.row = 0 /\ t.column = 0 /\ t.buffer = Screen /\ t.vga = Empty /\ t.under = Blank
      /\ t.head = NULL /\ t.cur = NULL /\ t.pages = 0 /\ t.page = page /\ t.left = left
      /\ t.next = next /\ t.prev = prev /\ t.strayed = {} /\ t.stopped = FALSE
  BY <1>1, <1>2, <1>3, <1>4, <1>5
<1>10. t \in State
  <2>1. t = [row |-> 0, column |-> 0, buffer |-> Screen, vga |-> Empty, under |-> Blank,
            head |-> NULL, cur |-> NULL, pages |-> 0,
            page |-> page, left |-> left, next |-> next, prev |-> prev,
            strayed |-> {}, stopped |-> FALSE]
    BY <1>1, <1>2, <1>3, <1>4, <1>5
  <2> QED
    BY <1>6, <1>7, <1>8, <2>1 DEF State, Screen, NULL
<1>11. k \in Progress /\ k.pc = "idle" /\ k.todo = << >>
  <2>1. << >> \in Todos /\ k = Rest(<< >>)
    BY DEF Init, Todos, Rest
  <2> QED
    BY <2>1, RestIs
<1>12. TodoRight(k)
  BY <1>11 DEF TodoRight, PromptRight, Between, Lines, Chars
<1>13. Placed(t, k)
  BY <1>9, <1>11, TerminalAssumption DEF Placed
<1>14. Stored(t)
  <2>1. Blank # Cursor /\ \A p \in Page, i \in Cell : page[p][i] = Blank
    BY <1>2, Constants, EmptyType
  <2> QED
    BY <1>9, <2>1 DEF Stored
<1>15. PagesRight(t)
  <2>1. \A p \in Page : p # 0 /\ p \in Int /\ ~(p < 0)
                      /\ next[p] \in {NULL, Wild, Unmapped} /\ prev[p] = NULL
    BY <1>4, <1>5, Constants DEF Page
  <2>2. 1 .. 0 = {} /\ 2 .. 0 = {} /\ 0 <= 0
    OBVIOUS
  <2> QED
    BY <1>9, <2>1, <2>2 DEF PagesRight, NULL, Screen
<1> QED
  BY <1>9, <1>10, <1>11, <1>12, <1>13, <1>14, <1>15 DEF Base, Listed

-----------------------------------------------------------------------------
(* The cursor is on the screen *)

\* Every step keeps the terminal a terminal and the cursor where its increments may put it.
LEMMA BaseKept ==
  ASSUME Base(t, k), [Next]_vars
  PROVE  Base(t, k)'
<1>1. CASE UNCHANGED vars
  BY <1>1 DEF vars
<1>2. CASE Step
  BY <1>2, CharacterKeeps, AdvanceKeeps, SavingKeeps, LineKeeps DEF Step
<1>3. CASE Remark \/ Keyboard
  BY <1>3, HandlerKeeps
<1> QED
  BY <1>1, <1>2, <1>3 DEF Next

\* terminal_row and terminal_column are on the screen between two characters, wherever
\* handlers have come in the middle of one.
THEOREM CursorOnScreen == Spec => []InGrid
<1>1. Init => Base(t, k)
  BY InitBase
<1>2. Base(t, k) /\ [Next]_vars => Base(t, k)'
  BY BaseKept
<1>3. Base(t, k) => InGrid
  <2>1. ASSUME Base(t, k), Between(k)
        PROVE  t.row \in 0 .. Height - 1 /\ t.column \in 0 .. Width - 1
    <3>1. /\ t.row \in Nat /\ t.column \in Nat /\ Width \in Nat /\ Height \in Nat
      BY <2>1, Fields, TerminalAssumption DEF Base
    <3>2. t.row < Height /\ t.column < Width
      BY <2>1 DEF Base, Placed, OverEdge, OverFoot, Between
    <3> QED
      BY <3>1, <3>2
  <2> QED
    BY <2>1 DEF InGrid
<1> QED
  BY <1>1, <1>2, <1>3, PTL DEF Spec

-----------------------------------------------------------------------------
(* On the screen, nothing is written elsewhere *)

\* Nothing is changed but the text on the screen, and what is under the cursor.
Rewrites(s, r) ==
  /\ Writes(s, r) /\ r.page = s.page /\ r.stopped = s.stopped
  /\ r.strayed \subseteq s.strayed \cup {-1}

\* terminal_set_char on the screen.
LEMMA SetCharOn ==
  ASSUME NEW s \in State, s.buffer = Screen, NEW i \in Cell \cup {-1}, NEW ch \in Glyph
  PROVE  /\ Rewrites(s, SetChar(s, i, ch)) /\ SetChar(s, i, ch).under = s.under
         /\ i \in Cell => SetChar(s, i, ch).vga = [s.vga EXCEPT ![i] = ch]
         /\ i \notin Cell => SetChar(s, i, ch).vga = s.vga
<1>1. i \in Int
  BY Grid DEF Cell
<1>2. SetChar(s, i, ch) = SetVga(s, i, ch)
  BY DEF SetChar
<1>3. i \notin Cell => i = -1
  OBVIOUS
<1>4. PICK r : r = SetVga(s, i, ch)
  OBVIOUS
<1>5. r \in State /\ OnScreen(s, r) /\ r.under = s.under
  BY <1>1, <1>4, SetVgaIs
<1>6. i \in Cell => r.vga = [s.vga EXCEPT ![i] = ch] /\ r.strayed = s.strayed
  BY <1>4, SetVgaOn
<1>7. i \notin Cell => r.vga = s.vga /\ r.strayed = s.strayed \cup {-1}
  <2>1. i \notin Cell => r.vga = s.vga /\ r.strayed = s.strayed \cup {i}
    BY <1>1, <1>4, SetVgaOff
  <2> QED
    BY <1>3, <2>1
<1>8. r.strayed \subseteq s.strayed \cup {-1}
  BY <1>6, <1>7
<1> QED
  BY <1>2, <1>4, <1>5, <1>6, <1>7, <1>8 DEF Rewrites, Writes, OnScreen

\* A row of the screen.
LEMMA RowIsOn ==
  ASSUME NEW s \in State, s.row < Height
  PROVE  RowOf(s) \subseteq Cell /\ \A i \in RowOf(s) : i >= s.row * Width
<1>1. /\ s.row \in Nat /\ Width \in Nat /\ Width > 2
  BY Fields, TerminalAssumption
<1>2. ASSUME NEW c \in 0 .. Width - 1
      PROVE  s.row * Width + c \in Cell /\ s.row * Width + c >= s.row * Width
  <2>1. PICK r \in Nat : r = s.row
    BY <1>1
  <2>2. c \in Nat /\ c < Width
    BY <1>1
  <2>3. r * Width + c \in Nat /\ r * Width + c < (r + 1) * Width /\ (r + 1) * Width <= Length
        /\ r * Width \in Nat /\ Length \in Nat /\ (r + 1) * Width = r * Width + Width
    BY <2>1, <2>2, Grid
  <2>4. (r + 1) * Width \in Nat
    BY <1>1, <2>3
  <2>5. r * Width + c \in 0 .. Length - 1 /\ r * Width + c >= r * Width
    BY <2>2, <2>3, <2>4
  <2> QED
    BY <2>1, <2>5 DEF Cell
<1> QED
  BY <1>2 DEF RowOf

\* terminal_clear_row on the screen.
LEMMA ClearRowOn ==
  ASSUME NEW s \in State, s.buffer = Screen, s.row < Height
  PROVE  /\ Rewrites(s, ClearRow(s)) /\ ClearRow(s).under = s.under
         /\ \A i \in Cell : ClearRow(s).vga[i] = IF i \in RowOf(s) THEN Blank ELSE s.vga[i]
<1>1. RowOf(s) \subseteq Cell
  BY RowIsOn
<1>2. PICK vga \in [Cell -> Glyph] : vga = [i \in Cell |-> IF i \in RowOf(s) THEN Blank ELSE s.vga[i]]
  <2>1. s.vga \in [Cell -> Glyph] /\ Blank \in Glyph
    BY Fields, Constants
  <2> QED
    BY <2>1
<1>3. ClearRow(s) = [s EXCEPT !.vga = vga]
  BY <1>1, <1>2 DEF ClearRow, RowOf
<1>4. PICK r : r = ClearRow(s)
  OBVIOUS
<1>5. /\ Writes(s, r) /\ r.page = s.page /\ r.stopped = s.stopped /\ r.strayed = s.strayed
      /\ r.under = s.under /\ r.vga = vga
  BY <1>3, <1>4 DEF State, Writes
<1> QED
  BY <1>2, <1>4, <1>5 DEF Rewrites

\* The cursor is drawn on the screen.
LEMMA DrawOn ==
  ASSUME NEW s \in State, s.buffer = Screen, NEW last \in Cell, Pos(s) \in Cell
  PROVE  /\ Rewrites(s, DrawCursor(s, last))
         /\ \A i \in Cell : i # last /\ i # Pos(s) => DrawCursor(s, last).vga[i] = s.vga[i]
         /\ CursorAt(s, last) /\ s.under # Cursor =>
              CursorAt(DrawCursor(s, last), Pos(s)) /\ DrawCursor(s, last).under # Cursor
<1>1. last \in Int /\ Pos(s) \in Int /\ s.under \in Glyph /\ Cursor \in Glyph
      /\ s.vga \in [Cell -> Glyph]
  BY CellIs, Fields, Constants
<1>2. PICK back : back = SetVga(s, last, s.under)
  OBVIOUS
<1>3. back \in State /\ OnScreen(s, back)
  BY <1>1, <1>2, SetVgaIs
<1>4. back.vga = [s.vga EXCEPT ![last] = s.under] /\ back.strayed = s.strayed
  BY <1>1, <1>2, SetVgaOn
<1>5. Pos(back) = Pos(s)
  BY <1>3 DEF Pos, OnScreen
<1>6. PICK seen : seen = [back EXCEPT !.under = back.vga[Pos(s)]]
  OBVIOUS
<1>7. back.vga \in [Cell -> Glyph] /\ back.vga[Pos(s)] \in Glyph
  BY <1>3, Fields
<1>8. /\ seen \in State /\ OnScreen(back, seen) /\ seen.vga = back.vga
      /\ seen.strayed = back.strayed /\ seen.under = back.vga[Pos(s)]
  BY <1>3, <1>6, <1>7 DEF State, OnScreen
<1>9. PICK r : r = SetVga(seen, Pos(s), Cursor)
  OBVIOUS
<1>10. /\ r \in State /\ OnScreen(seen, r) /\ r.under = seen.under
  BY <1>1, <1>8, <1>9, SetVgaFrame
<1>11. r.vga = [seen.vga EXCEPT ![Pos(s)] = Cursor] /\ r.strayed = seen.strayed
  BY <1>1, <1>8, <1>9, SetVgaOn
<1>12. DrawCursor(s, last) = r
  <2>1. VgaAt(back, Pos(s)) = back.vga[Pos(s)]
    BY DEF VgaAt
  <2> QED
    BY <1>2, <1>5, <1>6, <1>9, <2>1 DEF DrawCursor
<1>13. Rewrites(s, r)
  BY <1>3, <1>4, <1>8, <1>10, <1>11 DEF Rewrites, Writes, OnScreen
<1>14. \A i \in Cell : /\ r.vga[i] = IF i = Pos(s) THEN Cursor ELSE back.vga[i]
                       /\ back.vga[i] = IF i = last THEN s.under ELSE s.vga[i]
  BY <1>1, <1>4, <1>7, <1>8, <1>11
<1>15. r.under = back.vga[Pos(s)]
  BY <1>8, <1>10
<1>16. ASSUME CursorAt(s, last), s.under # Cursor
       PROVE  CursorAt(r, Pos(s)) /\ r.under # Cursor
  <2>1. \A i \in Cell : back.vga[i] # Cursor
    BY <1>14, <1>16 DEF CursorAt
  <2> QED
    BY <1>14, <1>15, <2>1 DEF CursorAt
<1> QED
  BY <1>12, <1>13, <1>14, <1>16

\* The cursor is on the screen, the pages are in order, and hold no cursor.
Sheet(s) ==
  s \in State /\ Listed(s) /\ s.row < Height /\ s.column < Width /\ Sound(s)

\* And the screen shows it once.
Clean(s) == Sheet(s) /\ Drawn(s)

\* No cursor is on the pages that are shown.
Bare(s) == s.buffer # Screen => NoCursor(s)

\* Characters that are no cursor are written.
LEMMA RewritesSheet ==
  ASSUME NEW s, Sheet(s), NEW r, Rewrites(s, r), r.under # Cursor
  PROVE  Sheet(r) /\ Pos(r) = Pos(s) /\ r.buffer = s.buffer
<1>1. Stored(r)
  BY DEF Sheet, Sound, Stored, Rewrites
<1>2. ~r.stopped => PagesRight(r)
  BY DEF Sheet, Sound, PagesRight, Rewrites, Writes
<1> QED
  BY <1>1, <1>2 DEF Sheet, Sound, Rewrites, Writes, Listed, Pos

\* A cursor that is moved, and not drawn yet, touches no page.
LEMMA MovesSound ==
  ASSUME NEW s, Sound(s), NEW r, Moves(s, r)
  PROVE  Sound(r) /\ (Listed(s) => Listed(r))
<1>1. Stored(r)
  BY DEF Sound, Stored, Moves
<1>2. ~r.stopped => PagesRight(r)
  BY DEF Sound, PagesRight, Moves
<1> QED
  BY <1>1, <1>2 DEF Sound, Moves, Listed

\* terminal_move_ takes the cursor along: the screen shows it once, where it is then.
LEMMA MoveClean ==
  ASSUME NEW s, Clean(s), ~s.stopped, NEW m \in Directions(s)
  PROVE  Clean(Move(s, m)) /\ (Bare(s) => Bare(Move(s, m))) /\ ~Move(s, m).stopped
         /\ Move(s, m).buffer = s.buffer
<1>1. s \in State /\ Pos(s) \in Cell /\ Sound(s) /\ Listed(s) /\ s.row < Height /\ s.column < Width
  BY PosIs DEF Clean, Sheet
<1>2. Moves(s, m.to) /\ m.to.row < Height /\ m.to.column < Width
  BY <1>1, DirectionType
<1>3. Sheet(m.to)
  BY <1>1, <1>2, MovesSound DEF Sheet, Moves
<1>4. CASE s.buffer = Screen
  <2>1. Pos(m.to) \in Cell /\ m.to \in State /\ m.to.buffer = Screen
    BY <1>2, <1>3, <1>4, PosIs DEF Sheet, Moves
  <2>2. CursorAt(m.to, Pos(s)) /\ m.to.under # Cursor
    BY <1>1, <1>2, <1>4 DEF Clean, Drawn, CursorAt, Moves, Sound, Stored
  <2>3. PICK r : r = DrawCursor(m.to, Pos(s))
    OBVIOUS
  <2>4. Rewrites(m.to, r)
    BY <1>1, <2>1, <2>3, DrawOn
  <2>5. CursorAt(r, Pos(m.to)) /\ r.under # Cursor
    BY <1>1, <2>1, <2>2, <2>3, DrawOn
  <2>6. Sheet(r) /\ Pos(r) = Pos(m.to) /\ r.buffer = Screen
    BY <1>3, <2>1, <2>4, <2>5, RewritesSheet
  <2>7. Clean(r) /\ Bare(r) /\ ~r.stopped
    BY <1>2, <2>4, <2>5, <2>6 DEF Clean, Drawn, Bare, Rewrites, Moves
  <2> QED
    BY <1>4, <2>3, <2>6, <2>7 DEF Move
<1>5. CASE s.buffer # Screen
  <2>1. Move(s, m) = m.to
    BY <1>2, <1>5 DEF Move, DrawCursor, Moves
  <2>2. Drawn(m.to) /\ (Bare(s) => Bare(m.to))
    BY <1>2, <1>5 DEF Clean, Drawn, Bare, Moves, CursorAt, NoCursor
  <2> QED
    BY <1>2, <1>3, <2>1, <2>2 DEF Clean, Moves
<1> QED
  BY <1>4, <1>5

\* terminal_load_head brings the text back, without a cursor.
LEMMA AtClean ==
  ASSUME NEW s, Clean(s), ~s.stopped
  PROVE  /\ Clean(At(s)) /\ ~At(s).stopped /\ At(s).buffer = Screen
         /\ At(s).row = s.row /\ At(s).column = s.column
         /\ At(s).head = s.head /\ At(s).left = s.left /\ At(s).page = s.page
<1>1. s \in State /\ Listed(s) /\ Stored(s) /\ PagesRight(s)
  BY DEF Clean, Sheet, Sound
<1>2. PICK r : r = LoadHead(s)
  OBVIOUS
<1>3. Loads(s, r) /\ r.buffer = Screen /\ Listed(r)
  BY <1>1, <1>2, LoadHeadIs
<1>4. CASE s.buffer = Screen
  <2>1. r = s
    BY <1>1, <1>2, <1>4, LoadHeadIs
  <2> QED
    BY <1>2, <1>4, <2>1 DEF At
<1>5. CASE s.buffer # Screen
  <2>1. s.head \in Page /\ r.cur = s.head
    BY <1>1, <1>2, <1>5, LoadHeadIs
  <2>2. Used(s, s.head) \in 0 .. Length
    <3>1. s.head \in 1 .. s.pages
      BY <1>1, <2>1 DEF PagesRight, Page
    <3>2. s.left[s.head] \in 0 .. Length /\ Length \in Nat
      BY <1>1, <3>1, Grid DEF PagesRight
    <3> QED
      BY <3>2 DEF Used
  <2>3. r.vga = Paged(s, s.head, Empty) /\ r.strayed = s.strayed /\ r.stopped = s.stopped
    BY <1>1, <1>2, <1>5, <2>2, LoadHeadIs
  <2>4. NoCursor(r)
    BY <1>1, <2>1, <2>3, EmptyType, Constants DEF NoCursor, Paged, Stored
  <2>5. Stored(r)
    BY <1>1, <1>3, <2>3 DEF Stored, Loads
  <2>6. PagesRight(r)
    <3>1. r.cur = s.pages /\ r.buffer = 0 /\ s.pages \in Nat
      BY <1>1, <1>3, <2>1, Fields, Constants DEF PagesRight, Screen
    <3> QED
      BY <1>1, <1>3, <3>1 DEF PagesRight, Loads, Screen
  <2>7. Clean(r) /\ ~r.stopped
    BY <1>3, <2>3, <2>4, <2>5, <2>6
       DEF Clean, Sheet, Sound, Loads, Drawn, NoCursor, CursorAt
  <2> QED
    BY <1>2, <1>3, <2>7 DEF At, Loads
<1> QED
  BY <1>4, <1>5

\* A page is chosen and written from the screen.  What it had is as much as it had when
\* it was the head already, and nothing in a new page.
Had(s) == IF Kept(s) THEN Used(s, s.head) ELSE 0

Saved(s, r) ==
  /\ r \in State /\ Listed(r) /\ r.row = s.row /\ r.column = s.column /\ r.cur = s.cur
  /\ r.buffer = Screen /\ Sound(r) /\ r.under # Cursor
  /\ \A i \in Cell : r.vga[i] = s.vga[i] \/ r.vga[i] = Blank

\* A new page comes after the others.
LEMMA ChooseRight ==
  ASSUME NEW s \in State, PagesRight(s), NEW c, c = ChoosePage(s), ~s.stopped
  PROVE  /\ ~c.stopped => PagesRight(c) /\ c.head \in Page
         /\ ~c.stopped => Used(c, c.head) = Had(s) /\ c.left[c.head] \in 0 .. Length
         /\ Kept(s) => c.head = s.head
         /\ ~c.stopped => s.head <= c.head
<1>1. /\ s.head \in 0 .. Pages /\ s.cur \in 0 .. Pages /\ s.buffer \in 0 .. Pages
      /\ s.pages \in 0 .. Pages /\ s.left \in [Page -> Int] /\ s.next \in [Page -> -2 .. Pages]
      /\ Pages \in Nat /\ Length \in Nat /\ s.prev \in [Page -> 0 .. Pages]
  BY Fields, Constants, Grid
<1>2. \A p \in Page : p \in Int /\ p > 0 /\ p <= Pages
  BY <1>1 DEF Page
<1>3. CASE Kept(s)
  <2>1. c = s /\ s.head \in Page
    BY <1>1, <1>3, ChooseIs, Constants DEF Kept, NULL
  <2>2. s.left[s.head] \in 0 .. Length
    BY <1>2, <2>1 DEF PagesRight
  <2>3. s.head <= s.head
    BY <1>1
  <2> QED
    BY <1>3, <2>1, <2>2, <2>3 DEF Had
<1>4. CASE ~Kept(s) /\ s.pages = Pages
  BY <1>4, ChooseIs
<1>5. CASE ~Kept(s) /\ s.pages # Pages
  <2>1. Chooses(s, c) /\ NewPage(s, c)
    BY <1>5, ChooseIs
  <2>2. PICK p \in Page : p = c.head
    BY <2>1 DEF NewPage
  <2>3. /\ p = s.pages + 1 /\ c.pages = p /\ s.head = s.pages /\ ~c.stopped
        /\ c.left = [s.left EXCEPT ![p] = Length]
    BY <2>1, <2>2 DEF NewPage, PagesRight
  <2>4. \A q \in Page : c.left[q] = IF q = p THEN Length ELSE s.left[q]
    BY <1>1, <2>3
  <2>5. \A q \in 1 .. c.pages : c.left[q] \in 0 .. Length
    <3>1. ASSUME NEW q \in 1 .. c.pages PROVE c.left[q] \in 0 .. Length
      <4>1. q \in Page /\ (q = p \/ q \in 1 .. s.pages)
        <5>1. p \in Int /\ p <= Pages /\ p = s.pages + 1 /\ c.pages = p
          BY <1>2, <2>2, <2>3
        <5>2. Pages \in Int /\ s.pages \in Int
          BY <1>1
        <5>3. q \in Int /\ 1 <= q /\ q <= p
          BY <5>1
        <5> QED
          BY <5>1, <5>2, <5>3 DEF Page
      <4>2. s.left[q] \in 0 .. Length \/ q = p
        BY <4>1 DEF PagesRight
      <4> QED
        BY <1>1, <2>4, <4>1, <4>2
    <3> QED
      BY <3>1
  <2>6. /\ \A q \in Page : c.next[q] \in {q - 1, NULL, Wild, Unmapped}
        /\ \A q \in 2 .. c.pages : c.next[q] = q - 1
    <3>1. c.next = [s.next EXCEPT ![p] = IF s.head # NULL THEN s.head ELSE @]
      BY <2>1, <2>2 DEF NewPage
    <3>2. \A q \in Page : q # p => c.next[q] = s.next[q]
      BY <1>1, <3>1
    <3>3. c.next[p] = IF s.head # NULL THEN s.head ELSE s.next[p]
      BY <1>1, <3>1
    <3>4. s.head = p - 1 /\ c.pages = p /\ s.pages = p - 1
      BY <1>1, <2>3
    <3>5. \A q \in Page : c.next[q] \in {q - 1, NULL, Wild, Unmapped}
      BY <3>2, <3>3, <3>4 DEF PagesRight
    <3>6. ASSUME NEW q \in 2 .. p
          PROVE  c.next[q] = q - 1
      <4>1. q \in Page /\ (q = p \/ q \in 2 .. p - 1)
        BY <1>1, <1>2 DEF Page
      <4>2. q = p => s.head # NULL
        BY <1>1, <1>2, <3>4 DEF NULL
      <4>3. q \in 2 .. s.pages => s.next[q] = q - 1
        BY DEF PagesRight
      <4> QED
        BY <3>2, <3>3, <3>4, <4>1, <4>2, <4>3
    <3> QED
      BY <3>4, <3>5, <3>6
  <2>7. \A q \in Page : c.prev[q] = IF q < c.pages THEN q + 1 ELSE NULL
    <3>1. ASSUME NEW q \in Page PROVE c.prev[q] = IF q < p THEN q + 1 ELSE NULL
      <4>1. c.prev[q] = IF q = p THEN NULL ELSE IF q = s.head THEN p ELSE s.prev[q]
        BY <2>1, <2>2 DEF NewPage
      <4>2. s.prev[q] = IF q < s.pages THEN q + 1 ELSE NULL
        BY DEF PagesRight
      <4>3. s.pages = p - 1 /\ s.head = p - 1
        BY <1>1, <2>3
      <4> QED
        BY <1>2, <4>1, <4>2, <4>3
    <3> QED
      BY <2>3, <3>1
  <2>8. PagesRight(c)
    <3>1. c.cur = s.cur /\ c.buffer = s.buffer /\ s.cur <= s.pages /\ s.buffer <= s.pages
          /\ (s.buffer # Screen => s.cur # NULL)
      BY <2>1 DEF Chooses, PagesRight
    <3>2. s.cur <= p /\ s.buffer <= p
      BY <1>1, <2>3, <3>1
    <3> QED
      BY <2>2, <2>3, <2>5, <2>6, <2>7, <3>1, <3>2 DEF PagesRight
  <2>9. c.left[p] = Length /\ Length - Length = 0
    BY <1>1, <2>4
  <2>10. s.head <= p /\ Length \in 0 .. Length
    BY <1>1, <2>3
  <2> QED
    BY <1>5, <2>2, <2>3, <2>8, <2>9, <2>10 DEF Had, Used
<1> QED
  BY <1>3, <1>4, <1>5

\* The page has the text before the cursor, and the screen is clear.
SavedTo(s, r) ==
  /\ r.head \in Page /\ s.head <= r.head /\ r.vga = Empty
  /\ r.left[r.head] \in 0 .. Length
  /\ Used(r, r.head) = IF Had(s) < Pos(s) THEN Pos(s) ELSE Had(s)
  /\ \A i \in Cell : i < Had(s) => r.page[r.head][i] = s.page[s.head][i]
  /\ \A i \in Cell : Had(s) <= i /\ i < Pos(s) => r.page[r.head][i] = s.vga[i]

\* The second half of terminal_save_state, from the screen.
LEMMA SavePageOn ==
  ASSUME NEW s \in State, s.buffer = Screen, ~s.stopped, Sound(s), Pos(s) <= Length,
         CursorAt(s, Pos(s)), s.head \in Page, NEW r, r = SavePage(s, s.head)
  PROVE  /\ Saved(s, r) /\ ~r.stopped /\ r.head = s.head /\ r.vga = Empty
         /\ r.left[s.head] \in 0 .. Length
         /\ Used(r, s.head) = IF Used(s, s.head) < Pos(s) THEN Pos(s) ELSE Used(s, s.head)
         /\ \A i \in Cell : r.page[s.head][i] = IF Used(s, s.head) <= i /\ i < Pos(s)
                                                  THEN s.vga[i] ELSE s.page[s.head][i]
<1> DEFINE p == s.head
           from == Used(s, p)
<1>1. /\ Pos(s) \in Nat /\ Length \in Nat /\ s.left \in [Page -> Int] /\ p \in 0 .. Pages
      /\ s.page \in [Page -> [Cell -> Glyph]] /\ p # NULL
  BY PosIs, CellIs, Fields, Constants DEF NULL
<1>2. s.left[p] \in 0 .. Length /\ from \in 0 .. Length
  <2>1. p \in 1 .. s.pages
    BY <1>1 DEF Sound, PagesRight, Page
  <2>2. s.left[p] \in 0 .. Length
    BY <2>1 DEF Sound, PagesRight
  <2> QED
    BY <1>1, <2>2 DEF Used
<1>0. SavesPage(s, s.head, r)
  BY SavePageIs
<1>3. Saves(s, r) /\ r.buffer = Screen
  BY <1>0 DEF SavesPage
<1>4. r.head = p /\ r.vga = Empty /\ r.strayed = s.strayed /\ r.stopped = s.stopped
  BY <1>0 DEF SavesPage
<1>5. from < Pos(s) => /\ r.page = Filled(s, p, from)
                       /\ r.left = [s.left EXCEPT ![p] = Length - Pos(s)]
  BY <1>0 DEF SavesPage
<1>6. ~(from < Pos(s)) => r.page = s.page /\ r.left = s.left
  BY <1>0 DEF SavesPage
<1>7. \A q \in Page : r.left[q] = IF q = p /\ from < Pos(s) THEN Length - Pos(s) ELSE s.left[q]
  BY <1>1, <1>5, <1>6
<1>8. \A q \in Page, i \in Cell :
        r.page[q][i] = IF q = p /\ from <= i /\ i < Pos(s) THEN s.vga[i] ELSE s.page[q][i]
  <2>1. CASE from < Pos(s)
    <3>1. r.page = Filled(s, p, from)
      BY <1>5, <2>1
    <3>2. \A i \in Cell : i \in from .. Pos(s) - 1 <=> from <= i /\ i < Pos(s)
      BY <1>1, <1>2, CellIs
    <3>3. PICK text : text = [i \in Cell |-> IF i \in from .. Pos(s) - 1 THEN s.vga[i] ELSE s.page[p][i]]
      OBVIOUS
    <3>4. r.page = [s.page EXCEPT ![p] = text]
      BY <3>1, <3>3 DEF Filled
    <3>5. \A i \in Cell : text[i] = IF from <= i /\ i < Pos(s) THEN s.vga[i] ELSE s.page[p][i]
      BY <3>2, <3>3
    <3>6. \A q \in Page : r.page[q] = IF q = p THEN text ELSE s.page[q]
      BY <1>1, <3>4
    <3> HIDE DEF from
    <3> QED
      BY <2>1, <3>5, <3>6
  <2>2. CASE ~(from < Pos(s))
    <3>1. r.page = s.page
      BY <1>6, <2>2
    <3>2. \A i \in Cell : ~(from <= i /\ i < Pos(s))
      BY <1>1, <1>2, <2>2, CellIs
    <3> QED
      BY <3>1, <3>2
  <2> QED
    BY <2>1, <2>2
<1>9. r.left[p] \in 0 .. Length /\ Used(r, p) = IF from < Pos(s) THEN Pos(s) ELSE from
  BY <1>1, <1>2, <1>7 DEF Used
<1>10. Stored(r)
  <2>1. \A i \in Cell : i < Pos(s) => s.vga[i] # Cursor
    BY <1>1, CellIs DEF CursorAt
  <2>2. \A q \in Page, i \in Cell : s.page[q][i] # Cursor
    BY DEF Sound, Stored
  <2>3. \A q \in Page, i \in Cell : r.page[q][i] # Cursor
    BY <1>8, <2>1, <2>2
  <2> QED
    BY <1>3, <1>4, <2>3 DEF Stored, Sound, Saves
<1>11. PagesRight(r)
  <2>1. PagesRight(s)
    BY DEF Sound
  <2>2. \A q \in 1 .. s.pages : r.left[q] \in 0 .. Length
    <3>1. \A q \in 1 .. s.pages : q \in Page /\ s.left[q] \in 0 .. Length
      BY <2>1, Fields, Constants DEF PagesRight, Page
    <3>2. \A q \in 1 .. s.pages : r.left[q] = s.left[q] \/ r.left[q] = r.left[p]
      BY <1>7, <3>1
    <3> QED
      BY <1>9, <3>1, <3>2
  <2> QED
    BY <1>3, <1>4, <2>1, <2>2 DEF PagesRight, Saves
<1>12. \A i \in Cell : r.vga[i] = Blank
  BY <1>4, EmptyType
<1>13. Listed(r)
  BY <1>1, <1>4 DEF Listed
<1>14. Saved(s, r) /\ ~r.stopped
  BY <1>3, <1>4, <1>10, <1>11, <1>12, <1>13 DEF Saved, Sound, Saves, Stored
<1> QED
  BY <1>4, <1>8, <1>9, <1>14

\* terminal_save_state from the screen.
LEMMA SaveOn ==
  ASSUME NEW s \in State, Listed(s), s.buffer = Screen, ~s.stopped, Sound(s), Pos(s) <= Length,
         CursorAt(s, Pos(s)), NEW r, r = Save(s)
  PROVE  /\ Saved(s, r)
         /\ ~r.stopped => SavedTo(s, r)
         /\ Kept(s) => r.head = s.head
<1> DEFINE c == ChoosePage(s)
<1>1. Chooses(s, c) /\ c \in State /\ Pos(c) = Pos(s)
  BY ChooseIs DEF Chooses, Pos
<1>2. Stored(s) /\ PagesRight(s) /\ Stored(c)
  BY <1>1 DEF Sound, Stored, Chooses
<1>3. CASE c.stopped
  <2>1. r = c
    BY <1>3 DEF Save
  <2>2. ~Kept(s) /\ c.head = s.head
    BY <1>3, ChooseIs DEF NewPage
  <2>3. Listed(c)
    BY <1>1, <2>2 DEF Listed, Chooses
  <2> HIDE DEF c
  <2> QED
    BY <1>1, <1>2, <1>3, <2>1, <2>2, <2>3 DEF Saved, Sound, Chooses, Stored
<1>4. CASE ~c.stopped
  <2>1. /\ PagesRight(c) /\ c.head \in Page
        /\ Used(c, c.head) = Had(s) /\ s.head <= c.head
        /\ Kept(s) => c.head = s.head
    BY <1>2, <1>4, ChooseRight
  <2>2. r = SavePage(c, c.head)
    BY <1>4 DEF Save
  <2>3. Sound(c) /\ c.buffer = Screen /\ CursorAt(c, Pos(c)) /\ Pos(c) <= Length
    BY <1>1, <1>2, <2>1 DEF Sound, Chooses, CursorAt
  <2> HIDE DEF c
  <2>4. /\ Saved(c, r) /\ ~r.stopped /\ r.head = c.head /\ r.vga = Empty
        /\ r.left[c.head] \in 0 .. Length
        /\ Used(r, c.head) = IF Used(c, c.head) < Pos(c) THEN Pos(c) ELSE Used(c, c.head)
        /\ \A i \in Cell : r.page[c.head][i] = IF Used(c, c.head) <= i /\ i < Pos(c)
                                                 THEN c.vga[i] ELSE c.page[c.head][i]
    BY <1>1, <1>4, <2>1, <2>2, <2>3, SavePageOn
  <2>5. Saved(s, r)
    BY <1>1, <2>4 DEF Saved, Chooses
  <2>6. \A i \in Cell : i < Had(s) => r.page[r.head][i] = s.page[s.head][i]
    <3>1. ASSUME NEW i \in Cell, i < Had(s) PROVE r.page[r.head][i] = s.page[s.head][i]
      <4>1. Kept(s)
        BY <3>1, CellIs DEF Had
      <4>2. c.head = s.head /\ c.page = s.page
        BY <1>1, <2>1, <4>1 DEF Chooses
      <4>3. Had(s) \in Int /\ i \in Int
        <5>1. s.left[s.head] \in Int
          BY <2>1, <4>2, Fields
        <5> QED
          BY <4>1, <5>1, CellIs DEF Had, Used
      <4>4. ~(Used(c, c.head) <= i)
        BY <2>1, <3>1, <4>3
      <4> QED
        BY <2>4, <4>2, <4>4
    <3> QED
      BY <3>1
  <2>7. \A i \in Cell : Had(s) <= i /\ i < Pos(s) => r.page[r.head][i] = s.vga[i]
    BY <1>1, <2>1, <2>4 DEF Chooses
  <2>8. SavedTo(s, r)
    BY <1>1, <2>1, <2>4, <2>6, <2>7 DEF SavedTo
  <2> QED
    BY <2>1, <2>4, <2>5, <2>8
<1> QED
  BY <1>3, <1>4

\* The pages stay as they are, and the text but for where the cursor was and is.
Steps(s, r) ==
  /\ r.head = s.head /\ r.cur = s.cur /\ r.left = s.left /\ r.page = s.page
  /\ r.buffer = s.buffer
  /\ \A i \in Cell : i # Pos(s) /\ i # Pos(r) => r.vga[i] = s.vga[i]

\* And it changes nothing else.
LEMMA MoveSteps ==
  ASSUME NEW s, Clean(s), ~s.stopped, NEW m \in Directions(s)
  PROVE  /\ Steps(s, Move(s, m))
         /\ Move(s, m).row = m.to.row /\ Move(s, m).column = m.to.column
<1>1. s \in State /\ Pos(s) \in Cell /\ s.row < Height /\ s.column < Width
  BY PosIs DEF Clean, Sheet
<1>2. Moves(s, m.to) /\ m.to.row < Height /\ m.to.column < Width
  BY <1>1, DirectionType
<1>3. CASE s.buffer = Screen
  <2>1. Pos(m.to) \in Cell /\ m.to \in State /\ m.to.buffer = Screen
    BY <1>2, <1>3, PosIs DEF Moves
  <2>2. PICK r : r = DrawCursor(m.to, Pos(s))
    OBVIOUS
  <2>3. Rewrites(m.to, r)
    BY <1>1, <2>1, <2>2, DrawOn
  <2>4. \A i \in Cell : i # Pos(s) /\ i # Pos(m.to) => r.vga[i] = m.to.vga[i]
    BY <1>1, <2>1, <2>2, DrawOn
  <2>5. Pos(r) = Pos(m.to)
    BY <2>3 DEF Rewrites, Writes, Pos
  <2> QED
    BY <1>2, <2>2, <2>3, <2>4, <2>5 DEF Move, Steps, Rewrites, Writes, Moves
<1>4. CASE s.buffer # Screen
  <2>1. Move(s, m) = m.to
    BY <1>2, <1>4 DEF Move, DrawCursor, Moves
  <2> QED
    BY <1>2, <2>1 DEF Steps, Moves
<1> QED
  BY <1>3, <1>4

\* One cell to the right: the next cell, or the first one.
LEMMA RightIs ==
  ASSUME NEW s \in State, s.row < Height, s.column < Width, NEW m, m = Right(s)
  PROVE  /\ s.column + 1 < Width => m.res = 0 /\ m.to.row = s.row /\ m.to.column = s.column + 1
         /\ m.res = 0 => Pos(m.to) = Pos(s) + 1
         /\ m.res = 1 => Pos(m.to) = Pos(s) + 1 /\ m.to.column = 0 /\ m.to.row * Width = Pos(s) + 1
         /\ m.res = 2 => Pos(m.to) = 0 /\ m.to.column = 0 /\ m.to.row = 0
         /\ m.res \in 0 .. 2
<1>1. PICK row \in Nat, column \in Nat : row = s.row /\ column = s.column
  BY Fields
<1>2. Width \in Nat /\ Height \in Nat /\ row * Width \in Nat /\ (row + 1) * Width = row * Width + Width
      /\ Pos(s) = row * Width + column /\ row < Height /\ column < Width
  BY <1>1, Grid, TerminalAssumption DEF Pos
<1>3. CASE column + 1 < Width
  <2>1. m.res = 0 /\ m.to = [s EXCEPT !.column = column + 1]
    BY <1>1, <1>3 DEF Right
  <2>2. Puts(s, m.to, row, column + 1)
    BY <1>1, <2>1 DEF Puts
  <2>3. m.to.row = row /\ m.to.column = column + 1
    BY <1>1, <2>2, PlacedType
  <2>4. Pos(m.to) = row * Width + (column + 1)
    BY <2>3 DEF Pos
  <2> QED
    BY <1>1, <1>2, <2>1, <2>3, <2>4
<1>4. CASE ~(column + 1 < Width) /\ row + 1 < Height
  <2>1. m.res = 1 /\ m.to = [s EXCEPT !.column = 0, !.row = row + 1]
    BY <1>1, <1>4 DEF Right
  <2>2. Puts(s, m.to, row + 1, 0)
    BY <2>1 DEF Puts
  <2>3. m.to.row = row + 1 /\ m.to.column = 0
    BY <1>1, <2>2, PlacedType
  <2>4. Pos(m.to) = (row + 1) * Width + 0 /\ column + 1 = Width
    BY <1>2, <1>4, <2>3 DEF Pos
  <2>5. (row + 1) * Width = Pos(s) + 1
    BY <1>2, <2>4
  <2>6. Pos(m.to) = Pos(s) + 1
    BY <1>2, <2>4, <2>5
  <2> QED
    BY <1>1, <1>4, <2>1, <2>3, <2>5, <2>6
<1>5. CASE ~(column + 1 < Width) /\ ~(row + 1 < Height)
  <2>1. m.res = 2 /\ m.to = [s EXCEPT !.column = 0, !.row = 0]
    BY <1>1, <1>5 DEF Right
  <2>2. Puts(s, m.to, 0, 0)
    BY <2>1 DEF Puts
  <2>3. m.to.row = 0 /\ m.to.column = 0
    BY <2>2, PlacedType
  <2>4. Pos(m.to) = 0 * Width + 0 /\ 0 * Width = 0
    BY <1>2, <2>3 DEF Pos
  <2> QED
    BY <1>1, <1>5, <2>1, <2>3, <2>4
<1> QED
  BY <1>3, <1>4, <1>5

\* The cells of a screen that only lost characters.
\* terminal_advance_one.
LEMMA AdvancedClean ==
  ASSUME NEW s, Clean(s), ~s.stopped
  PROVE  /\ Clean(Advanced(s)) /\ ~Advanced(s).stopped /\ Advanced(s).buffer = Screen
         /\ Steps(At(s), Advanced(s))
         /\ Advanced(s).row = Right(At(s)).to.row /\ Advanced(s).column = Right(At(s)).to.column
         /\ Pos(Advanced(s)) = Pos(Right(At(s)).to)
<1>1. Clean(At(s)) /\ ~At(s).stopped /\ At(s).buffer = Screen
  BY AtClean
<1>2. PICK m \in Directions(At(s)) : m = Right(At(s))
  BY DEF Directions
<1>3. Advanced(s) = Move(At(s), m)
  BY <1>2 DEF Advanced, Move
<1>4. Clean(Move(At(s), m)) /\ ~Move(At(s), m).stopped /\ Move(At(s), m).buffer = At(s).buffer
  BY <1>1, MoveClean
<1>5. Steps(At(s), Move(At(s), m)) /\ Move(At(s), m).row = m.to.row /\ Move(At(s), m).column = m.to.column
  BY <1>1, MoveSteps
<1> QED
  BY <1>1, <1>2, <1>3, <1>4, <1>5 DEF Pos

\* The place of the cursor, the pages, and whether the kernel has stopped are as before.
Stays(s, r) ==
  /\ r.row = s.row /\ r.column = s.column /\ r.buffer = s.buffer
  /\ r.head = s.head /\ r.cur = s.cur /\ r.left = s.left /\ r.page = s.page
  /\ r.stopped = s.stopped

\* Saving the screen clears it.
LEMMA SaveClean ==
  ASSUME NEW s, Clean(s), ~s.stopped, s.buffer = Screen
  PROVE  /\ Clean(Save(s)) /\ Save(s).buffer = Screen
         /\ Save(s).row = s.row /\ Save(s).column = s.column
<1>1. /\ s \in State /\ Listed(s) /\ Sound(s) /\ Pos(s) \in Cell /\ CursorAt(s, Pos(s))
      /\ s.row < Height /\ s.column < Width
  BY PosIs DEF Clean, Sheet, Drawn
<1>2. Pos(s) <= Length
  BY <1>1, CellIs
<1>3. PICK r : r = Save(s)
  OBVIOUS
<1>4. Saved(s, r)
  BY <1>1, <1>2, <1>3, SaveOn
<1>5. CursorAt(r, Pos(r))
  BY <1>1, <1>4, Constants DEF Saved, CursorAt, Pos
<1> QED
  BY <1>1, <1>3, <1>4, <1>5 DEF Saved, Clean, Sheet, Drawn

\* Clearing a row takes nothing but characters away.
LEMMA ClearRowClean ==
  ASSUME NEW s, Clean(s), s.buffer = Screen
  PROVE  /\ Clean(ClearRow(s)) /\ Stays(s, ClearRow(s))
         /\ NoCursor(s) => NoCursor(ClearRow(s))
         /\ \A i \in Cell : i < s.row * Width => ClearRow(s).vga[i] = s.vga[i]
<1>1. /\ s \in State /\ Listed(s) /\ Sound(s) /\ CursorAt(s, Pos(s)) /\ s.row < Height
      /\ s.row \in Nat /\ Width \in Nat /\ s.under # Cursor
  BY Fields, TerminalAssumption DEF Clean, Sheet, Drawn, Sound, Stored
<1>2. PICK r : r = ClearRow(s)
  OBVIOUS
<1>3. /\ Rewrites(s, r) /\ r.under = s.under
      /\ \A i \in Cell : r.vga[i] = IF i \in RowOf(s) THEN Blank ELSE s.vga[i]
  BY <1>1, <1>2, ClearRowOn
<1>4. Sheet(r) /\ Pos(r) = Pos(s)
  BY <1>1, <1>3, RewritesSheet DEF Clean
<1>5. CursorAt(r, Pos(s)) /\ (NoCursor(s) => NoCursor(r))
  BY <1>1, <1>3, Constants DEF CursorAt, NoCursor
<1>6. \A i \in Cell : i < s.row * Width => i \notin RowOf(s)
  <2>1. s.row * Width \in Int
    BY <1>1
  <2>2. \A i \in RowOf(s) : i >= s.row * Width
    BY <1>1, RowIsOn
  <2> QED
    BY <2>1, <2>2, CellIs
<1> QED
  BY <1>2, <1>3, <1>4, <1>5, <1>6 DEF Clean, Drawn, Stays, Rewrites, Writes

\* A character is written, or a blank before the first cell.
LEMMA SetCharClean ==
  ASSUME NEW s, Clean(s), s.buffer = Screen, NEW i \in Cell \cup {-1}, NEW ch \in Glyph,
         ch # Cursor
  PROVE  /\ Clean(SetChar(s, i, ch)) /\ Stays(s, SetChar(s, i, ch))
         /\ \A j \in Cell : j # i => SetChar(s, i, ch).vga[j] = s.vga[j]
<1>1. s \in State /\ CursorAt(s, Pos(s)) /\ s.under # Cursor /\ s.vga \in [Cell -> Glyph]
  BY Fields DEF Clean, Sheet, Drawn, Sound, Stored
<1>2. PICK r : r = SetChar(s, i, ch)
  OBVIOUS
<1>3. Rewrites(s, r) /\ r.under = s.under
  BY <1>1, <1>2, SetCharOn
<1>4. \A j \in Cell : r.vga[j] = IF j = i THEN ch ELSE s.vga[j]
  <2>1. CASE i \in Cell
    <3>1. r.vga = [s.vga EXCEPT ![i] = ch]
      BY <1>1, <1>2, <2>1, SetCharOn
    <3> QED
      BY <1>1, <3>1
  <2>2. CASE i \notin Cell
    <3>1. r.vga = s.vga
      BY <1>1, <1>2, <2>2, SetCharOn
    <3> QED
      BY <2>2, <3>1
  <2> QED
    BY <2>1, <2>2
<1>5. Sheet(r) /\ Pos(r) = Pos(s)
  BY <1>1, <1>3, RewritesSheet DEF Clean
<1>6. CursorAt(r, Pos(s))
  BY <1>1, <1>4 DEF CursorAt
<1> QED
  BY <1>2, <1>3, <1>4, <1>5, <1>6 DEF Clean, Drawn, Stays, Rewrites, Writes

\* terminal_put_char.
LEMMA PutCharClean ==
  ASSUME NEW s, Clean(s), ~s.stopped, NEW ch \in Printable
  PROVE  Clean(PutChar(s, ch)) /\ PutChar(s, ch).buffer = Screen
<1>1. s \in State /\ Listed(s)
  BY DEF Clean, Sheet
<1>2. Clean(At(s)) /\ Pos(At(s)) \in Cell
  BY AtClean, PosIs DEF Clean, Sheet
<1>3. Clean(Scrolled(s)) /\ Scrolled(s).buffer = Screen
  BY AdvancedClean, SaveClean DEF Scrolled
<1>4. Clean(Cleared(s)) /\ Cleared(s).buffer = Screen
  BY <1>3, ClearRowClean DEF Cleared, Stays
<1>5. ch \in Glyph /\ ch # Cursor
  BY Constants
<1>6. Clean(SetChar(Cleared(s), Pos(At(s)), ch)) /\ SetChar(Cleared(s), Pos(At(s)), ch).buffer = Screen
  BY <1>2, <1>4, <1>5, SetCharClean DEF Stays
<1> QED
  BY <1>1, <1>3, <1>6, PutCharIs

\* terminal_delete_one.
LEMMA DeleteOneClean ==
  ASSUME NEW s, Clean(s), ~s.stopped
  PROVE  Clean(DeleteOne(s)) /\ DeleteOne(s).buffer = Screen
<1>1. s \in State /\ Listed(s)
  BY DEF Clean, Sheet
<1>2. Clean(At(s)) /\ Pos(At(s)) \in Cell /\ At(s).buffer = Screen /\ ~At(s).stopped
  BY AtClean, PosIs DEF Clean, Sheet
<1>3. Pos(At(s)) - 1 \in Cell \cup {-1}
  <2>1. PICK c \in Cell : c = Pos(At(s))
    BY <1>2
  <2>2. c \in Nat /\ c < Length /\ Length \in Nat
    BY CellIs
  <2>3. c - 1 \in 0 .. Length - 1 \/ c - 1 = -1
    BY <2>2
  <2> QED
    BY <2>1, <2>3 DEF Cell
<1>4. Clean(Wiped(s)) /\ Wiped(s).buffer = Screen /\ ~Wiped(s).stopped
  BY <1>2, <1>3, Constants, SetCharClean DEF Wiped, Stays
<1>5. Clean(Move(Wiped(s), Left(Wiped(s)))) /\ Move(Wiped(s), Left(Wiped(s))).buffer = Screen
  BY <1>4, MoveClean DEF Directions
<1> QED
  BY <1>1, <1>5, DeleteOneIs

\* A character that does not end its line.
LEMMA PutCharSimple ==
  ASSUME NEW s, Clean(s), ~s.stopped, s.buffer = Screen, s.column + 1 < Width,
         NEW ch \in Printable, NEW r, r = PutChar(s, ch)
  PROVE  /\ ~r.stopped /\ r.buffer = Screen /\ r.row = s.row /\ r.column = s.column + 1
         /\ r.head = s.head /\ r.cur = s.cur /\ r.left = s.left /\ r.page = s.page
         /\ \A i \in Cell : i < Pos(s) => r.vga[i] = s.vga[i]
<1>1. s \in State /\ Listed(s) /\ s.row < Height /\ s.column < Width /\ Pos(s) \in Cell
  BY PosIs DEF Clean, Sheet
<1>2. At(s) = s
  BY DEF At, LoadHead
<1>3. Right(s).res = 0 /\ Right(s).to.row = s.row /\ Right(s).to.column = s.column + 1
      /\ Pos(Right(s).to) = Pos(s) + 1
  BY <1>1, RightIs
<1>4. PICK u : u = Advanced(s)
  OBVIOUS
<1>5. /\ Clean(u) /\ ~u.stopped /\ u.buffer = Screen /\ Steps(s, u)
      /\ u.row = s.row /\ u.column = s.column + 1 /\ Pos(u) = Pos(s) + 1
  BY <1>2, <1>3, <1>4, AdvancedClean
<1>6. Scrolled(s) = u /\ Cleared(s) = u
  BY <1>2, <1>3, <1>4 DEF Scrolled, Cleared
<1>7. r = SetChar(u, Pos(s), ch)
  BY <1>1, <1>2, <1>5, <1>6, PutCharIs
<1>8. ch \in Glyph /\ ch # Cursor
  BY Constants
<1>9. Stays(u, r) /\ \A j \in Cell : j # Pos(s) => r.vga[j] = u.vga[j]
  BY <1>1, <1>5, <1>7, <1>8, SetCharClean
<1>10. \A i \in Cell : i < Pos(s) => i # Pos(s) /\ i # Pos(u)
  <2>1. Pos(s) \in Nat
    BY <1>1, CellIs
  <2> QED
    BY <1>5, <2>1, CellIs
<1> QED
  BY <1>5, <1>9, <1>10 DEF Stays, Steps

\* terminal_next_line, when the cursor is on the line below.
LEMMA DownClean ==
  ASSUME NEW s, Clean(s), ~s.stopped, NEW d, d = LineBelow(s)
  PROVE  /\ d \in State /\ Listed(d) /\ Sound(d) /\ ~d.stopped /\ d.buffer = Screen
         /\ NoCursor(d) /\ d.column = 0 /\ d.row = s.row + 1 /\ d.row <= Height
         /\ Pos(d) = d.row * Width /\ Pos(d) <= Length /\ Pos(s) < Pos(d)
         /\ d.head = s.head /\ d.cur = At(s).cur /\ d.left = s.left /\ d.page = s.page
         /\ \A i \in Cell : i # Pos(s) => d.vga[i] = At(s).vga[i]
<1> DEFINE a == At(s)
<1>1. /\ Clean(a) /\ ~a.stopped /\ a.buffer = Screen /\ a.row = s.row /\ a.column = s.column
      /\ a.head = s.head /\ a.left = s.left /\ a.page = s.page
  BY AtClean
<1>2. /\ a \in State /\ Listed(a) /\ Sound(a) /\ a.under # Cursor /\ CursorAt(a, Pos(a))
      /\ a.row < Height /\ a.column < Width /\ Pos(a) \in Cell /\ Pos(a) = Pos(s)
      /\ s \in State /\ Listed(s) /\ a.row \in Nat /\ a.column \in Nat
  BY <1>1, PosIs, Fields DEF Clean, Sheet, Drawn, Sound, Stored, Pos
<1> HIDE DEF a
<1>3. PICK off : off = SetVga(a, Pos(a), a.under)
  OBVIOUS
<1>4. off \in State /\ OnScreen(a, off) /\ off.under = a.under
  <2>1. a.under \in Glyph /\ Pos(a) \in Int
    BY <1>2, CellIs, Fields
  <2> QED
    BY <1>2, <1>3, <2>1, SetVgaIs
<1>5. off.vga = [a.vga EXCEPT ![Pos(a)] = a.under] /\ off.strayed = a.strayed
  BY <1>2, <1>3, SetVgaOn, Fields
<1>6. \A i \in Cell : off.vga[i] = IF i = Pos(a) THEN a.under ELSE a.vga[i]
  BY <1>2, <1>5, Fields
<1>7. NoCursor(off)
  BY <1>2, <1>6 DEF NoCursor, CursorAt
<1>8. Sound(off) /\ Listed(off) /\ ~off.stopped
  <2>1. Rewrites(a, off)
    BY <1>4, <1>5 DEF Rewrites, Writes, OnScreen
  <2>2. Sheet(a)
    BY <1>1 DEF Clean
  <2> QED
    BY <1>1, <1>2, <1>4, <2>1, <2>2, RewritesSheet DEF Sheet, Rewrites
<1>9. Off(s) = off
  BY <1>3 DEF Off, a
<1>10. Moves(off, d) /\ d.column = 0 /\ d.row = s.row + 1
  <2>1. Moves(Off(s), LineBelow(s)) /\ LineBelow(s).column = 0 /\ LineBelow(s).row = At(s).row + 1
    BY <1>2, DownIs
  <2> QED
    BY <1>1, <1>9, <2>1 DEF a
<1>11. Sound(d) /\ Listed(d)
  BY <1>8, <1>10, MovesSound
<1>12. d.row <= Height /\ Pos(d) = d.row * Width /\ Pos(d) <= Length /\ Pos(s) < Pos(d)
  <2>1. PICK row \in Nat, column \in Nat : row = a.row /\ column = a.column
    BY <1>2
  <2>2. row < Height /\ column < Width /\ d.row = row + 1 /\ Pos(a) = row * Width + column
    BY <1>1, <1>2, <1>10, <2>1 DEF Pos
  <2>3. (row + 1) * Width <= Length /\ row * Width + column < (row + 1) * Width
    BY <2>2, Grid
  <2>4. Pos(d) = (row + 1) * Width + 0 /\ (row + 1) * Width \in Nat
    <3>1. row + 1 \in Nat /\ Width \in Nat
      BY TerminalAssumption
    <3>2. (row + 1) * Width \in Nat
      BY <3>1
    <3> QED
      BY <1>10, <2>2, <3>2 DEF Pos
  <2>5. row + 1 <= Height
    BY <2>2, TerminalAssumption
  <2> QED
    BY <1>2, <2>2, <2>3, <2>4, <2>5
<1> QED
  BY <1>1, <1>2, <1>4, <1>6, <1>7, <1>8, <1>10, <1>11, <1>12
     DEF Moves, OnScreen, NoCursor, a

\* And when it is on the new line.
LEMMA NewLineClean ==
  ASSUME NEW s, Clean(s), ~s.stopped, NEW n, n = NewLineOf(s)
  PROVE  /\ Clean(n) /\ NoCursor(n) /\ n.buffer = Screen /\ n.column = 0
<1>1. PICK d : d = LineBelow(s)
  OBVIOUS
<1>2. /\ d \in State /\ Listed(d) /\ Sound(d) /\ ~d.stopped /\ d.buffer = Screen
      /\ NoCursor(d) /\ d.column = 0 /\ d.row <= Height /\ Pos(d) <= Length
  BY <1>1, DownClean
<1>3. d.row \in Nat /\ Height \in Nat \ {0} /\ Width \in Nat /\ 0 < Width
  BY <1>2, Fields, TerminalAssumption
<1>4. CASE d.row >= Height
  <2>1. PICK r : r = Save(d)
    OBVIOUS
  <2>2. Saved(d, r)
    BY <1>2, <2>1, SaveOn DEF NoCursor, CursorAt
  <2>3. n = RowTo(r, 0)
    BY <1>1, <1>4, <2>1 DEF NewLineOf, RowTo
  <2>4. Moves(r, n) /\ n.row = 0 /\ n.column = 0
    BY <1>2, <2>2, <2>3, RowIs DEF Saved
  <2>5. Sound(n) /\ Listed(n)
    BY <2>2, <2>4, MovesSound DEF Saved
  <2>6. NoCursor(n)
    BY <1>2, <2>2, <2>4, Constants DEF NoCursor, Saved, Moves
  <2>7. n \in State /\ n.buffer = Screen
    BY <2>2, <2>4 DEF Moves, Saved
  <2> QED
    BY <1>3, <2>4, <2>5, <2>6, <2>7 DEF Clean, Sheet, Drawn, NoCursor, CursorAt
<1>5. CASE ~(d.row >= Height)
  <2>1. n = d /\ d.row < Height
    BY <1>1, <1>3, <1>5 DEF NewLineOf
  <2> QED
    BY <1>2, <1>3, <2>1 DEF Clean, Sheet, Drawn, NoCursor, CursorAt
<1> QED
  BY <1>4, <1>5

\* The new prompt, after which the cursor is drawn.
LEMMA PromptClean ==
  ASSUME NEW s, Clean(s), s.buffer = Screen
  PROVE  /\ Clean(Prompt(s)) /\ Stays(s, Prompt(s))
         /\ \A i \in Cell : i # Pos(s) => Prompt(s).vga[i] = s.vga[i]
<1>1. /\ s \in State /\ Pos(s) \in Cell /\ CursorAt(s, Pos(s)) /\ s.vga \in [Cell -> Glyph]
  BY PosIs, Fields DEF Clean, Sheet, Drawn
<1>2. PICK r : r = Prompt(s)
  OBVIOUS
<1>3. r \in State /\ r.under = Blank /\ OnScreen(s, r)
  BY <1>1, <1>2, PromptIs
<1>4. r.vga = [s.vga EXCEPT ![Pos(s)] = Cursor] /\ r.strayed = s.strayed
  BY <1>1, <1>2, PromptIs
<1>5. \A i \in Cell : i # Pos(s) => r.vga[i] = s.vga[i]
  BY <1>1, <1>4
<1>6. Rewrites(s, r)
  BY <1>3, <1>4 DEF Rewrites, Writes, OnScreen
<1>7. Sheet(r) /\ Pos(r) = Pos(s)
  BY <1>3, <1>6, RewritesSheet, Constants DEF Clean
<1>8. CursorAt(r, Pos(s))
  BY <1>1, <1>5 DEF CursorAt
<1> QED
  BY <1>2, <1>3, <1>5, <1>7, <1>8 DEF Clean, Drawn, Stays, OnScreen

\* The new line with its prompt.
LEMMA PromptedClean ==
  ASSUME NEW n, Clean(n), ~n.stopped, n.buffer = Screen, n.column = 0,
         NEW r, r = Prompt(PutChar(PutChar(ClearRow(n), ">"), ">"))
  PROVE  /\ Clean(r) /\ ~r.stopped /\ r.buffer = Screen
         /\ r.head = n.head /\ r.cur = n.cur /\ r.left = n.left /\ r.page = n.page
         /\ \A i \in Cell : i < n.row * Width => r.vga[i] = n.vga[i]
<1>1. n.row \in Nat /\ Width \in Nat /\ Width > 2 /\ n.row * Width \in Nat /\ ">" \in Printable
  <2>1. n.row \in Nat /\ Width \in Nat /\ Width > 2
    BY Fields, TerminalAssumption DEF Clean, Sheet
  <2>2. \A a, b \in Nat : a * b \in Nat
    OBVIOUS
  <2> QED
    BY <2>1, <2>2, Constants
<1>2. PICK u : u = ClearRow(n)
  OBVIOUS
<1>3. /\ Clean(u) /\ Stays(n, u)
      /\ \A i \in Cell : i < n.row * Width => u.vga[i] = n.vga[i]
  BY <1>2, ClearRowClean
<1>4. /\ ~u.stopped /\ u.buffer = Screen /\ u.row = n.row /\ u.column = 0
      /\ u.head = n.head /\ u.cur = n.cur /\ u.left = n.left /\ u.page = n.page
  BY <1>3 DEF Stays
<1>5. PICK v : v = PutChar(u, ">")
  OBVIOUS
<1>6. /\ ~v.stopped /\ v.buffer = Screen /\ v.row = u.row /\ v.column = u.column + 1
      /\ v.head = u.head /\ v.cur = u.cur /\ v.left = u.left /\ v.page = u.page
      /\ \A i \in Cell : i < Pos(u) => v.vga[i] = u.vga[i]
  BY <1>1, <1>3, <1>4, <1>5, PutCharSimple
<1>7. Clean(v)
  BY <1>1, <1>3, <1>4, <1>5, PutCharClean
<1>8. PICK w : w = PutChar(v, ">")
  OBVIOUS
<1>9. /\ ~w.stopped /\ w.buffer = Screen /\ w.row = v.row /\ w.column = v.column + 1
      /\ w.head = v.head /\ w.cur = v.cur /\ w.left = v.left /\ w.page = v.page
      /\ \A i \in Cell : i < Pos(v) => w.vga[i] = v.vga[i]
  <2>1. v.column + 1 < Width
    BY <1>1, <1>4, <1>6
  <2> QED
    BY <1>1, <1>6, <1>7, <1>8, <2>1, PutCharSimple
<1>10. Clean(w)
  BY <1>1, <1>6, <1>7, <1>8, PutCharClean
<1>11. Clean(r) /\ Stays(w, r) /\ \A i \in Cell : i # Pos(w) => r.vga[i] = w.vga[i]
  BY <1>2, <1>5, <1>8, <1>9, <1>10, PromptClean
<1>12. Pos(u) = n.row * Width /\ Pos(v) = n.row * Width + 1 /\ Pos(w) = n.row * Width + 2
  <2>1. PICK x \in Nat : x = n.row * Width
    BY <1>1
  <2>2. Pos(u) = x + 0 /\ Pos(v) = x + (0 + 1) /\ Pos(w) = x + ((0 + 1) + 1)
    BY <1>4, <1>6, <1>9, <2>1 DEF Pos
  <2> QED
    BY <2>1, <2>2
<1>13. ASSUME NEW i \in Cell, i < n.row * Width
       PROVE  r.vga[i] = n.vga[i]
  <2>1. i < Pos(u) /\ i < Pos(v) /\ i # Pos(w)
    BY <1>1, <1>12, <1>13, CellIs
  <2> QED
    BY <1>3, <1>6, <1>9, <1>11, <1>13, <2>1
<1> QED
  BY <1>4, <1>6, <1>9, <1>11, <1>13 DEF Stays

\* terminal_next_line.
LEMMA NextLineClean ==
  ASSUME NEW s, Clean(s), ~s.stopped
  PROVE  Clean(NextLine(s)) /\ NextLine(s).buffer = Screen
<1>1. PICK n : n = NewLineOf(s)
  OBVIOUS
<1>2. Clean(n) /\ n.buffer = Screen /\ n.column = 0
  BY <1>1, NewLineClean
<1>3. NextLine(s) = IF n.stopped THEN n ELSE Prompt(PutChar(PutChar(ClearRow(n), ">"), ">"))
  BY <1>1, NextLineIs
<1> QED
  BY <1>2, <1>3, PromptedClean

\* A character.
LEMMA PutClean ==
  ASSUME NEW s, Clean(s), ~s.stopped, NEW ch \in Printable
  PROVE  Clean(Put(s, ch)) /\ Put(s, ch).buffer = Screen
<1>1. CASE ch = "newline"
  <2>1. Put(s, ch) = NextLine(s)
    BY <1>1 DEF Put
  <2> QED
    BY <2>1, NextLineClean
<1>2. CASE ch = "backspace"
  <2>1. Put(s, ch) = DeleteOne(s)
    BY <1>2 DEF Put
  <2> QED
    BY <2>1, DeleteOneClean
<1>3. CASE ch # "newline" /\ ch # "backspace"
  <2>1. Put(s, ch) = PutChar(s, ch)
    BY <1>3 DEF Put
  <2> QED
    BY <2>1, PutCharClean
<1> QED
  BY <1>1, <1>2, <1>3

\* A page on the screen.
LEMMA ShowOn ==
  ASSUME NEW s \in State, NEW p \in Page, s.left[p] \in 0 .. Length, NEW rest \in [Cell -> Glyph],
         NEW r, r = Show(s, p, rest)
  PROVE  /\ Shows(s, r) /\ r.vga = Paged(s, p, rest)
         /\ r.strayed = s.strayed /\ r.stopped = s.stopped
<1>1. Used(s, p) \in 0 .. Length
  <2>1. Length \in Nat
    BY CellIs
  <2> QED
    BY <2>1 DEF Used
<1>2. Shows(s, r)
  BY ShowIs
<1>3. r.vga = Paged(s, p, rest) /\ r.strayed = s.strayed /\ r.stopped = s.stopped
  BY <1>1, ShowIs
<1> QED
  BY <1>2, <1>3

\* The pages are shown in the order of their numbers.
LEMMA PrevRight ==
  ASSUME NEW s \in State, Listed(s), PagesRight(s), Prev(s) # NULL
  PROVE  /\ s.head \in Page /\ s.head \in 1 .. s.pages /\ s.pages \in 0 .. Pages
         /\ Prev(s) \in Page => Prev(s) \in 1 .. s.pages /\ Prev(s) <= s.head
         /\ Leaves(s) => s.buffer = Screen /\ (s.cur = NULL \/ s.cur = s.head)
         /\ s.cur # NULL => Prev(s) # s.cur /\ Prev(s) # s.head
         /\ ~Leaves(s) => s.cur # NULL
<1>1. /\ s.cur \in 0 .. Pages /\ s.head \in 0 .. Pages /\ Pages \in Nat /\ s.pages \in 0 .. Pages
      /\ s.head = s.pages /\ s.cur <= s.pages /\ (s.buffer # Screen => s.cur # NULL)
  BY Fields, Constants DEF PagesRight
<1>2. s.head \in Page
  BY <1>1, PrevType
<1>3. \A p \in Page : p \in Int /\ 0 < p
  BY <1>1 DEF Page
<1>4. s.head \in 1 .. s.pages
  BY <1>1, <1>2, <1>3
<1>5. CASE s.cur = NULL
  <2>1. Prev(s) = s.head
    BY <1>5 DEF Prev
  <2> QED
    BY <1>1, <1>2, <1>4, <1>5, <2>1 DEF Leaves
<1>6. CASE s.cur # NULL
  <2>1. s.cur \in Page
    BY <1>1, <1>6, Constants DEF NULL
  <2>2. Prev(s) = s.next[s.cur] /\ s.next[s.cur] \in {s.cur - 1, NULL, Wild, Unmapped}
    BY <1>6, <2>1 DEF Prev, PagesRight
  <2>3. Prev(s) = s.cur - 1 \/ Prev(s) = -1 \/ Prev(s) = -2
    BY <2>2 DEF Wild, Unmapped
  <2>4. Prev(s) < s.cur /\ s.cur <= s.head
    BY <1>1, <1>3, <2>1, <2>3
  <2>5. Prev(s) # s.cur /\ Prev(s) # s.head /\ Prev(s) <= s.head
    BY <1>1, <1>3, <2>1, <2>3, <2>4
  <2>6. Prev(s) \in Page => Prev(s) \in 1 .. s.pages
    BY <1>1, <1>3, <2>5
  <2> QED
    BY <1>1, <1>2, <1>4, <1>6, <2>5, <2>6 DEF Leaves
<1> QED
  BY <1>5, <1>6

\* Page Up from the live screen, which is saved; and from a page.
Departs(s, r) ==
  /\ Clean(r) /\ ~r.stopped /\ NoCursor(r)
  /\ s.buffer = Screen /\ (s.cur = NULL \/ s.cur = s.head)
  /\ r.buffer # Screen /\ r.cur # s.cur /\ r.row = s.row /\ r.column = s.column
  /\ SavedTo(s, Save(s))
  /\ r.head = Save(s).head /\ r.left = Save(s).left /\ r.page = Save(s).page

Leafs(s, r) ==
  /\ Clean(r) /\ ~r.stopped /\ (Bare(s) => Bare(r))
  /\ r.row = s.row /\ r.column = s.column /\ r.buffer = s.buffer
  /\ r.head = s.head /\ r.left = s.left /\ r.page = s.page
  /\ s.cur # NULL /\ (s.buffer = Screen => s.cur # s.head)
  /\ r.cur # s.cur /\ r.cur # NULL /\ r.cur # r.head

\* Of a page that is shown.
LEMMA ShownClean ==
  ASSUME NEW u \in State, Stored(u), NEW p \in Page, u.left[p] \in 0 .. Length,
         NEW v, v = Show(u, p, u.vga)
  PROVE  /\ Shows(u, v) /\ v.strayed = u.strayed /\ v.stopped = u.stopped
         /\ \A i \in Cell : v.vga[i] = u.vga[i] \/ v.vga[i] # Cursor
<1>1. u.vga \in [Cell -> Glyph]
  BY Fields
<1>2. /\ Shows(u, v) /\ v.vga = Paged(u, p, u.vga)
      /\ v.strayed = u.strayed /\ v.stopped = u.stopped
  BY <1>1, ShowOn
<1>3. \A i \in Cell : v.vga[i] = u.vga[i] \/ v.vga[i] = u.page[p][i]
  BY <1>2 DEF Paged
<1> QED
  BY <1>2, <1>3 DEF Stored

\* Page Up from the live screen saves it, and shows the page at the head.
LEMMA DepartIs ==
  ASSUME NEW s, Clean(s), ~s.stopped, Prev(s) \in Page, Leaves(s), ~Leaving(s).stopped,
         NEW r, r = CurTo(Show(Leaving(s), Prev(s), Leaving(s).vga), Prev(s))
  PROVE  Departs(s, r)
<1>1. s \in State /\ Listed(s) /\ Sound(s) /\ PagesRight(s) /\ s.row < Height /\ s.column < Width
  BY DEF Clean, Sheet, Sound
<1>2. Prev(s) # NULL
  BY Constants DEF Page, NULL
<1>3. /\ s.head \in Page /\ s.head \in 0 .. Pages /\ s.buffer = Screen /\ (s.cur = NULL \/ s.cur = s.head)
      /\ Prev(s) <= s.head
      /\ s.cur # NULL => Prev(s) # s.cur
  BY <1>1, <1>2, PrevRight, PrevType
<1>4. Pos(s) \in Cell /\ Pos(s) <= Length /\ CursorAt(s, Pos(s))
  BY <1>1, <1>3, PosIs, CellIs DEF Clean, Drawn
<1>5. PICK u : u = Save(s)
  OBVIOUS
<1>6. PICK w : w = BufferTo(u, s.head)
  OBVIOUS
<1>7. Leaving(s) = w
  BY <1>5, <1>6 DEF Leaving
<1>8. Saved(s, u) /\ (~u.stopped => SavedTo(s, u))
  BY <1>1, <1>3, <1>4, <1>5, SaveOn
<1>9. Turns(u, w) /\ w.buffer = s.head /\ w.cur = u.cur
  BY <1>3, <1>6, <1>8, BufferIs DEF Saved
<1>10. SavedTo(s, u) /\ ~u.stopped /\ PagesRight(u) /\ Stored(u)
  BY <1>7, <1>8, <1>9 DEF Turns, Saved, Sound
<1>11. Stored(w) /\ w \in State
  BY <1>9, <1>10 DEF Stored, Turns
<1>12. /\ s.head \in Int /\ u.head \in Int /\ u.head = u.pages /\ s.head <= u.head
       /\ Prev(s) \in 1 .. u.pages
  <2>1. /\ s.head \in 0 .. Pages /\ u.head \in 0 .. Pages /\ Pages \in Nat
    BY <1>1, <1>8, Fields, Constants DEF Saved
  <2>2. Prev(s) \in 1 .. Pages
    BY DEF Page
  <2>3. u.head = u.pages /\ s.head <= u.head
    BY <1>10 DEF SavedTo, PagesRight
  <2> QED
    BY <1>3, <2>1, <2>2, <2>3
<1>13. w.left[Prev(s)] \in 0 .. Length
  BY <1>9, <1>10, <1>12 DEF PagesRight, Turns
<1>14. PICK v : v = Show(w, Prev(s), w.vga)
  OBVIOUS
<1>15. /\ Shows(w, v) /\ v.strayed = w.strayed /\ v.stopped = w.stopped
       /\ \A i \in Cell : v.vga[i] = w.vga[i] \/ v.vga[i] # Cursor
  BY <1>11, <1>13, <1>14, ShownClean
<1>16. Prev(s) \in 0 .. Pages
  BY Constants DEF Page
<1>17. Turns(v, r) /\ r.cur = Prev(s) /\ r.buffer = v.buffer
  BY <1>7, <1>14, <1>15, <1>16, CurIs DEF Shows
<1>18. NoCursor(r)
  <2>1. \A i \in Cell : w.vga[i] = Blank
    BY <1>9, <1>10, EmptyType DEF SavedTo, Turns
  <2> QED
    BY <1>15, <1>17, <2>1, Constants DEF NoCursor, Turns
<1>19. Stored(r)
  BY <1>11, <1>15, <1>17 DEF Stored, Shows, Turns
<1>20. PagesRight(r)
  <2>1. /\ r.head = u.head /\ r.pages = u.pages /\ r.left = u.left /\ r.next = u.next /\ r.prev = u.prev
        /\ r.cur = Prev(s) /\ r.buffer = s.head
    BY <1>9, <1>15, <1>17 DEF Shows, Turns
  <2>2. r.cur <= u.pages /\ r.buffer <= u.pages /\ r.cur # NULL
    BY <1>2, <1>12, <2>1
  <2> QED
    BY <1>10, <2>1, <2>2 DEF PagesRight
<1>21. s.head # Screen /\ r.buffer = s.head
  BY <1>3, <1>9, <1>15, <1>17, Constants DEF Shows, Screen
<1>22. Drawn(r)
  <2>1. \E c \in Cell : CursorAt(r, c)
    BY <1>4, <1>18 DEF NoCursor, CursorAt
  <2> QED
    BY <1>21, <2>1 DEF Drawn
<1>23. /\ r \in State /\ Listed(r) /\ r.row = s.row /\ r.column = s.column /\ ~r.stopped
       /\ r.head = u.head /\ r.left = u.left /\ r.page = u.page
  <2>1. u.head # NULL
    BY <1>10, Constants DEF SavedTo, NULL
  <2> QED
    BY <1>8, <1>9, <1>10, <1>15, <1>17, <2>1 DEF Saved, Shows, Turns, Listed
<1>24. r.cur # s.cur
  BY <1>2, <1>3, <1>17
<1>25. Clean(r)
  BY <1>1, <1>19, <1>20, <1>22, <1>23 DEF Clean, Sheet, Sound
<1> QED
  BY <1>3, <1>5, <1>10, <1>18, <1>21, <1>23, <1>24, <1>25 DEF Departs

\* Page Up from a page shows the one before, and saves nothing.
LEMMA LeafIs ==
  ASSUME NEW s, Clean(s), ~s.stopped, Prev(s) \in Page, ~Leaves(s),
         NEW r, r = CurTo(Show(s, Prev(s), s.vga), Prev(s))
  PROVE  Leafs(s, r)
<1>1. s \in State /\ Listed(s) /\ Stored(s) /\ PagesRight(s) /\ s.row < Height /\ s.column < Width
  BY DEF Clean, Sheet, Sound
<1>2. Prev(s) # NULL /\ Prev(s) \in 0 .. Pages
  BY Constants DEF Page, NULL
<1>3. /\ s.cur # NULL /\ Prev(s) # s.cur /\ Prev(s) # s.head
      /\ Prev(s) \in 1 .. s.pages /\ s.pages \in 0 .. Pages
      /\ s.buffer = Screen => s.cur # s.head
  BY <1>1, <1>2, PrevRight DEF Leaves
<1>4. PICK v : v = Show(s, Prev(s), s.vga)
  OBVIOUS
<1>5. /\ Shows(s, v) /\ v.strayed = s.strayed /\ v.stopped = s.stopped
      /\ \A i \in Cell : v.vga[i] = s.vga[i] \/ v.vga[i] # Cursor
  <2>1. s.left[Prev(s)] \in 0 .. Length
    BY <1>1, <1>3 DEF PagesRight
  <2> QED
    BY <1>1, <1>4, <2>1, ShownClean
<1>6. Turns(v, r) /\ r.cur = Prev(s) /\ r.buffer = v.buffer
  BY <1>2, <1>4, <1>5, CurIs DEF Shows
<1>7. /\ r \in State /\ r.row = s.row /\ r.column = s.column /\ r.buffer = s.buffer
      /\ r.head = s.head /\ r.left = s.left /\ r.page = s.page /\ r.pages = s.pages
      /\ r.next = s.next /\ r.prev = s.prev /\ r.under = s.under /\ r.strayed = s.strayed
      /\ r.stopped = s.stopped /\ r.vga = v.vga
  BY <1>5, <1>6 DEF Shows, Turns
<1>8. Stored(r)
  BY <1>1, <1>7 DEF Stored
<1>9. PagesRight(r)
  <2>1. Prev(s) <= s.pages
    BY <1>3
  <2> QED
    BY <1>1, <1>2, <1>6, <1>7, <2>1 DEF PagesRight
<1>10. \A c \in Cell : CursorAt(s, c) => CursorAt(r, c)
  BY <1>5, <1>7 DEF CursorAt
<1>11. Drawn(r) /\ (Bare(s) => Bare(r))
  <2>1. Pos(s) \in Cell /\ Pos(r) = Pos(s)
    BY <1>1, <1>7, PosIs DEF Pos
  <2>2. NoCursor(s) => NoCursor(r)
    BY <1>5, <1>7 DEF NoCursor
  <2> QED
    BY <1>7, <1>10, <2>1, <2>2 DEF Clean, Drawn, Bare
<1>12. Listed(r)
  <2>1. s.head # NULL
    BY <1>1, <1>3 DEF Listed
  <2> QED
    BY <1>7, <2>1 DEF Listed
<1> QED
  BY <1>1, <1>2, <1>3, <1>6, <1>7, <1>8, <1>9, <1>11, <1>12 DEF Leafs, Clean, Sheet, Sound

\* A page that is on the list keeps its place in it while the screen is saved.
LEMMA SaveNext ==
  ASSUME NEW s \in State, Listed(s), PagesRight(s), s.cur # NULL, NEW r, r = Save(s)
  PROVE  r.next[s.cur] = s.next[s.cur]
<1>1. s.cur \in Page /\ s.cur # s.pages + 1
  <2>1. s.cur \in 0 .. Pages /\ s.pages \in 0 .. Pages /\ Pages \in Nat /\ s.cur <= s.pages
    BY Fields, Constants DEF PagesRight
  <2> QED
    BY <2>1, Constants DEF NULL
<1>2. PICK c : c = ChoosePage(s)
  OBVIOUS
<1>3. c \in State /\ c.next[s.cur] = s.next[s.cur] /\ (~c.stopped => c.head \in Page)
  <2>1. c \in State
    BY <1>2, ChooseIs DEF Chooses
  <2>2. CASE Kept(s) /\ c = s
    <3>1. s.head \in Page
      BY <2>2, Fields, Constants DEF Kept, NULL
    <3> QED
      BY <2>2, <3>1
  <2>3. CASE c.stopped /\ c.next = s.next
    BY <2>1, <2>3
  <2>4. CASE NewPage(s, c)
    <3>1. c.head \in Page /\ c.head # s.cur
      BY <1>1, <2>4 DEF NewPage
    <3>2. s.next \in [Page -> -2 .. Pages]
      BY Fields
    <3>3. c.next = [s.next EXCEPT ![c.head] = IF s.head # NULL THEN s.head ELSE @]
      BY <2>4 DEF NewPage
    <3> QED
      BY <1>1, <2>1, <3>1, <3>2, <3>3
  <2> QED
    BY <1>2, <2>2, <2>3, <2>4, ChooseIs
<1>4. CASE c.stopped
  BY <1>2, <1>3, <1>4 DEF Save
<1>5. CASE ~c.stopped
  <2>1. r = SavePage(c, c.head)
    BY <1>2, <1>5 DEF Save
  <2>2. Saves(c, r)
    BY <1>3, <1>5, <2>1, SavePageIs DEF SavesPage
  <2> QED
    BY <1>3, <2>2 DEF Saves
<1> QED
  BY <1>4, <1>5

\* What Page Up leaves before it looks at the page: the screen, as it was or saved.
LEMMA LeavingIs ==
  ASSUME NEW s, Clean(s), ~s.stopped, Prev(s) # NULL, NEW w, w = Leaving(s)
  PROVE  /\ w \in State /\ Listed(w) /\ w.row = s.row /\ w.column = s.column
         /\ Stored(w) /\ Drawn(w) /\ w.cur = s.cur
         /\ s.cur # NULL => w.next[s.cur] = s.next[s.cur]
<1>1. s \in State /\ Listed(s) /\ Sound(s) /\ PagesRight(s) /\ s.row < Height /\ s.column < Width
  BY DEF Clean, Sheet, Sound
<1>2. CASE ~Leaves(s)
  BY <1>1, <1>2 DEF Leaving, Clean, Sound
<1>3. CASE Leaves(s)
  <2>1. s.head \in Page /\ s.head \in 0 .. Pages /\ s.buffer = Screen
    BY <1>1, <1>3, PrevRight, PrevType
  <2>2. Pos(s) \in Cell /\ Pos(s) <= Length /\ CursorAt(s, Pos(s))
    BY <1>1, <2>1, PosIs, CellIs DEF Clean, Drawn
  <2>3. PICK u : u = Save(s)
    OBVIOUS
  <2>4. w = BufferTo(u, s.head)
    BY <1>3, <2>3 DEF Leaving
  <2>5. Saved(s, u)
    BY <1>1, <2>1, <2>2, <2>3, SaveOn
  <2>6. Turns(u, w) /\ w.buffer = s.head /\ w.cur = u.cur
    BY <2>1, <2>4, <2>5, BufferIs DEF Saved
  <2>7. Stored(w)
    BY <2>5, <2>6 DEF Saved, Sound, Stored, Turns
  <2>8. Drawn(w)
    <3>1. CursorAt(w, Pos(s))
      BY <2>2, <2>5, <2>6, Constants DEF CursorAt, Saved, Turns
    <3>2. w.buffer # Screen
      BY <2>1, <2>6, Constants DEF Screen
    <3> QED
      BY <2>2, <3>1, <3>2 DEF Drawn
  <2>9. Listed(w)
    <3>1. w.head \in Page
      BY <1>1, PrevType
    <3>2. w.head # NULL
      BY <3>1, Constants DEF NULL
    <3> QED
      BY <3>2 DEF Listed
  <2>10. s.cur # NULL => w.next[s.cur] = s.next[s.cur]
    BY <1>1, <2>3, <2>6, SaveNext DEF Turns
  <2> QED
    BY <2>5, <2>6, <2>7, <2>8, <2>9, <2>10 DEF Turns, Saved
<1> QED
  BY <1>2, <1>3

\* Page Up, when memory runs out.
LEMMA DepartStops ==
  ASSUME NEW s, Clean(s), ~s.stopped, Prev(s) # NULL, Leaving(s).stopped
  PROVE  Clean(Leaving(s))
<1>1. PICK w : w = Leaving(s)
  OBVIOUS
<1>2. /\ w \in State /\ Listed(w) /\ w.row = s.row /\ w.column = s.column /\ Stored(w) /\ Drawn(w)
      /\ s.row < Height /\ s.column < Width /\ w.stopped
  BY <1>1, LeavingIs DEF Clean, Sheet
<1> QED
  BY <1>1, <1>2 DEF Clean, Sheet, Sound

\* Page Up, when the first page leads to no memory.
LEMMA UnmappedStops ==
  ASSUME NEW s, Clean(s), ~s.stopped, Prev(s) # NULL, NEW r, r = Stops(Leaving(s))
  PROVE  Clean(r) /\ r.stopped
<1>1. PICK w : w = Leaving(s)
  OBVIOUS
<1>2. /\ w \in State /\ Listed(w) /\ w.row = s.row /\ w.column = s.column /\ Stored(w) /\ Drawn(w)
      /\ s.row < Height /\ s.column < Width
  BY <1>1, LeavingIs DEF Clean, Sheet
<1>3. /\ r \in State /\ r.row = w.row /\ r.column = w.column /\ r.buffer = w.buffer
      /\ r.vga = w.vga /\ r.under = w.under /\ r.head = w.head /\ r.cur = w.cur
      /\ r.page = w.page /\ r.strayed = w.strayed /\ r.stopped
  BY <1>1, <1>2, StopIs
<1>4. Stored(r) /\ Listed(r) /\ Drawn(r)
  BY <1>2, <1>3 DEF Stored, Listed, Drawn, CursorAt, Pos
<1> QED
  BY <1>2, <1>3, <1>4 DEF Clean, Sheet, Sound

\* Page Up, when the first page leads to other memory.
LEMMA WildIsFollowed ==
  ASSUME NEW s, Clean(s), ~s.stopped, Prev(s) = Wild, NEW r, r = Follows(Leaving(s))
  PROVE  FollowedWild(r)
<1>1. /\ s \in State /\ PagesRight(s) /\ s.cur \in 0 .. Pages /\ s.head \in 0 .. Pages
      /\ s.pages \in 0 .. Pages /\ Pages \in Nat /\ s.cur <= s.pages
  BY Fields, Constants DEF Clean, Sheet, Sound, PagesRight
<1>2. Prev(s) # NULL /\ s.cur # NULL /\ s.next[s.cur] = Wild
  <2>1. \A p \in 0 .. Pages : p # Wild
    BY <1>1 DEF Wild
  <2> QED
    BY <1>1, <2>1 DEF Prev, Wild, NULL
<1>3. s.cur = 1
  <2>1. s.cur \in 2 .. s.pages => s.next[s.cur] = s.cur - 1
    BY <1>1 DEF PagesRight
  <2>2. s.cur \in 2 .. s.pages => s.cur - 1 # Wild
    BY <1>1 DEF Wild
  <2>3. s.cur = 1 \/ s.cur \in 2 .. s.pages
    BY <1>1, <1>2 DEF NULL
  <2> QED
    BY <1>2, <2>1, <2>2, <2>3
<1>4. PICK w : w = Leaving(s)
  OBVIOUS
<1>5. w \in State /\ w.strayed \subseteq {-1} /\ w.cur = s.cur /\ w.next[s.cur] = s.next[s.cur]
  BY <1>2, <1>4, LeavingIs DEF Stored
<1>6. /\ r.strayed = w.strayed \cup {Anywhere} /\ r.stopped /\ r.cur = w.cur
      /\ r.next = w.next
  BY <1>4, <1>5, FollowIs
<1> QED
  BY <1>2, <1>3, <1>5, <1>6 DEF FollowedWild

\* terminal_load_prev.
LEMMA LoadPrevClean ==
  ASSUME NEW s, Clean(s), ~s.stopped, NEW r, r = LoadPrev(s)
  PROVE  r = s \/ (r.stopped /\ (Clean(r) \/ FollowedWild(r))) \/ Departs(s, r) \/ Leafs(s, r)
<1>1. s \in State /\ Listed(s)
  BY DEF Clean, Sheet
<1>2. CASE Prev(s) # NULL /\ Leaving(s).stopped /\ r = Leaving(s)
  BY <1>2, DepartStops
<1>3. CASE Prev(s) = Unmapped /\ r = Stops(Leaving(s))
  BY <1>3, UnmappedStops DEF Unmapped, NULL
<1>5. CASE Prev(s) = Wild /\ r = Follows(Leaving(s))
  BY <1>5, WildIsFollowed DEF FollowedWild
<1>4. CASE /\ Prev(s) \in Page /\ ~Leaving(s).stopped
           /\ r = CurTo(Show(Leaving(s), Prev(s), Leaving(s).vga), Prev(s))
  <2>1. CASE Leaves(s)
    BY <1>4, <2>1, DepartIs
  <2>2. CASE ~Leaves(s)
    <3>1. Leaving(s) = s
      BY <2>2 DEF Leaving
    <3> QED
      BY <1>4, <2>2, <3>1, LeafIs
  <2> QED
    BY <2>1, <2>2
<1> QED
  BY <1>1, <1>2, <1>3, <1>4, <1>5, PrevIs

\* Page Down, to a page or to the live screen.
Forwards(s, r) ==
  /\ Clean(r) /\ ~r.stopped /\ NoCursor(r)
  /\ r.row = s.row /\ r.column = s.column
  /\ r.head = s.head /\ r.left = s.left /\ r.page = s.page
  /\ r.cur # NULL /\ r.buffer = (IF r.cur = s.head THEN Screen ELSE s.buffer)
  /\ \A i \in Cell : i < Used(s, r.cur) => r.vga[i] = s.page[r.cur][i]

\* Page Down shows the page after, with no cursor on it.
LEMMA LoadNextClean ==
  ASSUME NEW s, Clean(s), ~s.stopped, NEW r, r = LoadNext(s), r # s
  PROVE  Forwards(s, r)
<1> DEFINE p == Following(s)
           b == IF p = s.head THEN Screen ELSE s.buffer
<1>1. s \in State /\ Listed(s) /\ Stored(s) /\ PagesRight(s) /\ s.row < Height /\ s.column < Width
  BY DEF Clean, Sheet, Sound
<1>2. PICK u : u = Show(s, p, Empty)
  OBVIOUS
<1>3. p \in Page /\ s.head \in Page /\ r = TurnTo(u, p, b)
  BY <1>1, <1>2, NextIs
<1>4. p # NULL /\ p \in 0 .. Pages /\ b \in 0 .. Pages /\ s.pages \in 0 .. Pages /\ Pages \in Nat
      /\ s.cur \in 0 .. Pages /\ s.buffer \in 0 .. Pages /\ s.head # NULL
  <2>1. s.buffer \in 0 .. Pages /\ s.pages \in 0 .. Pages /\ s.cur \in 0 .. Pages /\ Pages \in Nat
    BY <1>1, Fields, Constants
  <2>2. p # NULL /\ p \in 0 .. Pages /\ s.head # NULL
    <3>1. \A q \in Page : q # 0 /\ q \in 0 .. Pages
      BY Constants DEF Page
    <3> QED
      BY <1>3, <3>1 DEF NULL
  <2>3. Screen \in 0 .. Pages
    BY <2>1 DEF Screen
  <2> QED
    BY <2>1, <2>2, <2>3
<1>5. p \in 1 .. s.pages
  <2>1. s.cur # NULL /\ p = s.prev[s.cur]
    BY <1>4 DEF Following
  <2>2. s.cur \in Page
    BY <1>4, <2>1, Constants DEF NULL
  <2>3. p = IF s.cur < s.pages THEN s.cur + 1 ELSE NULL
    BY <1>1, <2>1, <2>2 DEF PagesRight
  <2> QED
    BY <1>4, <2>2, <2>3 DEF Page
<1>6. /\ Shows(s, u) /\ u.vga = Paged(s, p, Empty)
      /\ u.strayed = s.strayed /\ u.stopped = s.stopped
  <2>1. s.left[p] \in 0 .. Length
    BY <1>1, <1>5 DEF PagesRight
  <2> QED
    BY <1>1, <1>2, <1>3, <2>1, ShowOn, EmptyType
<1> HIDE DEF b, p
<1>7. Turns(u, r) /\ r.cur = p /\ r.buffer = b
  BY <1>3, <1>4, <1>6, TurnIs DEF Shows
<1>8. /\ r \in State /\ r.row = s.row /\ r.column = s.column
      /\ r.head = s.head /\ r.left = s.left /\ r.page = s.page /\ r.pages = s.pages
      /\ r.next = s.next /\ r.prev = s.prev /\ r.under = s.under /\ r.strayed = s.strayed
      /\ r.stopped = s.stopped /\ r.vga = Paged(s, p, Empty)
  BY <1>6, <1>7 DEF Shows, Turns
<1>9. Stored(r)
  BY <1>1, <1>8 DEF Stored
<1>10. PagesRight(r)
  <2>1. p <= s.pages /\ b <= s.pages
    <3>1. Screen <= s.pages /\ s.buffer <= s.pages
      BY <1>1, <1>4 DEF PagesRight, Screen
    <3> QED
      BY <1>4, <1>5, <3>1 DEF b
  <2> QED
    BY <1>1, <1>4, <1>7, <1>8, <2>1 DEF PagesRight
<1>11. NoCursor(r)
  BY <1>1, <1>3, <1>8, EmptyType, Constants DEF NoCursor, Paged, Stored
<1>12. Drawn(r)
  <2>1. Pos(s) \in Cell
    BY <1>1, PosIs
  <2>2. \E c \in Cell : CursorAt(r, c)
    BY <1>11, <2>1 DEF NoCursor, CursorAt
  <2> QED
    BY <1>11, <2>2 DEF Drawn, NoCursor, CursorAt
<1>13. Listed(r)
  BY <1>4, <1>8 DEF Listed
<1>14. \A i \in Cell : i < Used(s, p) => r.vga[i] = s.page[p][i]
  BY <1>8 DEF Paged
<1> QED
  BY <1>1, <1>4, <1>7, <1>8, <1>9, <1>10, <1>11, <1>12, <1>13, <1>14
     DEF Forwards, Clean, Sheet, Sound, b

\* What a handler leaves to the kernel.
Tends(s, r) == Clean(r) /\ (r.stopped \/ (Bare(s) => Bare(r)))

\* A character leaves one cursor, and none on a page that is shown.
LEMMA PutTends ==
  ASSUME NEW s, Clean(s), NEW ch \in Printable
  PROVE  Tends(s, Put(s, ch))
<1>1. CASE s.stopped
  BY <1>1 DEF Put, Tends
<1>2. CASE ~s.stopped
  BY <1>2, PutClean DEF Tends, Bare
<1> QED
  BY <1>1, <1>2

\* So does every beginning of a string, by induction on its length.
LEMMA PutStringTends ==
  ASSUME NEW s, Clean(s), NEW chars \in Seq(Printable), NEW n \in 0 .. Len(chars)
  PROVE  Tends(s, PutString(s, chars)[n])
<1> DEFINE S == {m \in Nat : m <= Len(chars) => Tends(s, PutString(s, chars)[m])}
<1>1. Len(chars) \in Nat /\ \A m \in 1 .. Len(chars) : chars[m] \in Printable
  OBVIOUS
<1>2. 0 \in S
  BY <1>1, PutStringIs DEF Tends
<1>3. ASSUME NEW m \in Nat, m \in S
      PROVE  m + 1 \in S
  <2>1. SUFFICES ASSUME m + 1 <= Len(chars)
                 PROVE  Tends(s, PutString(s, chars)[m + 1])
    OBVIOUS
  <2>2. m + 1 \in 1 .. Len(chars) /\ (m + 1) - 1 = m /\ m <= Len(chars)
    BY <1>1, <2>1
  <2>3. PICK u : u = PutString(s, chars)[m]
    OBVIOUS
  <2>4. PutString(s, chars)[m + 1] = Put(u, chars[m + 1])
    BY <1>1, <2>2, <2>3, PutStringIs
  <2>5. Tends(s, u)
    BY <1>3, <2>2, <2>3
  <2>6. Tends(u, Put(u, chars[m + 1]))
    BY <1>1, <2>2, <2>5, PutTends DEF Tends
  <2>7. u.stopped => Put(u, chars[m + 1]) = u
    BY DEF Put
  <2> QED
    BY <2>4, <2>5, <2>6, <2>7 DEF Tends
<1>4. Nat \subseteq S
  <2> HIDE DEF S
  <2> QED
    BY <1>2, <1>3, NatSetInduction
<1> QED
  BY <1>1, <1>4

\* So does every key but Page Up at the first page.
LEMMA PressedTends ==
  ASSUME NEW s, Clean(s), ~s.stopped, NEW key
  PROVE  Tends(s, Pressed(s, key)) \/ FollowedWild(Pressed(s, key))
<1>1. Tends(s, s)
  BY DEF Tends
<1>2. Tends(s, LoadPrev(s)) \/ FollowedWild(LoadPrev(s))
  <2>1. PICK r : r = LoadPrev(s)
    OBVIOUS
  <2>2. r = s \/ (r.stopped /\ (Clean(r) \/ FollowedWild(r))) \/ Departs(s, r) \/ Leafs(s, r)
    BY <2>1, LoadPrevClean
  <2> QED
    BY <1>1, <2>1, <2>2 DEF Tends, Departs, Leafs, Bare
<1>3. Tends(s, LoadNext(s))
  BY <1>1, LoadNextClean DEF Tends, Forwards, Bare
<1>4. \A m \in Directions(s) : Tends(s, Move(s, m))
  BY MoveClean DEF Tends
<1>5. \A ch \in Printable : Tends(s, Put(s, ch))
  BY PutTends
<1> QED
  BY <1>1, <1>2, <1>3, <1>4, <1>5, PressedIs

-----------------------------------------------------------------------------
(* Handlers come between two characters *)

\* What holds unless a handler has used the terminal in the middle of a character.
Neat(s, l) == Sound(s) /\ Outside(s, l) /\ Inside(s, l)

\* Or Page Up has ended everything.
Kempt(s, l) == FollowedWild(s) \/ Neat(s, l)

\* What a handler does, as a whole.
LEMMA HandlerIs ==
  ASSUME Base(t, k), Remark \/ Keyboard
  PROVE  /\ ~t.stopped /\ k' = k /\ mixed' = (mixed \/ (t' # t /\ ~Between(k)))
         /\ Clean(t) => Tends(t, t') \/ FollowedWild(t')
<1>1. CASE Remark
  <2>1. PICK remark \in Remarks : Interrupt({PutString(t, remark)[n] : n \in 1 .. Len(remark)},
                                            PutString(t, remark)[Len(remark)])
    BY <1>1 DEF Remark
  <2>2. remark \in Seq(Printable) /\ Len(remark) \in 0 .. Len(remark)
    BY PrintsAssumption
  <2>3. Clean(t) => Tends(t, PutString(t, remark)[Len(remark)])
    BY <2>2, PutStringTends
  <2> QED
    BY <2>1, <2>3 DEF Interrupt
<1>2. CASE Keyboard
  <2>1. PICK key \in Keys : Interrupt({Pressed(t, key)}, Pressed(t, key))
    BY <1>2 DEF Keyboard
  <2>2. ~t.stopped
    BY <2>1 DEF Interrupt
  <2>3. Clean(t) => Tends(t, Pressed(t, key)) \/ FollowedWild(Pressed(t, key))
    BY <2>2, PressedTends
  <2> QED
    BY <2>1, <2>3 DEF Interrupt
<1> QED
  BY <1>1, <1>2

\* Between two characters the terminal is as it should be.
LEMMA CleanBetween ==
  ASSUME Base(t, k), Neat(t, k), Between(k)
  PROVE  Clean(t)
<1>1. t.row < Height /\ t.column < Width
  BY DEF Base, Placed, OverEdge, OverFoot, Between
<1> QED
  BY <1>1 DEF Base, Neat, Clean, Sheet, Outside

\* A handler between two characters of the kernel leaves its invariant.
LEMMA HandlerNeat ==
  ASSUME Base(t, k), ~mixed => Kempt(t, k), Remark \/ Keyboard, ~mixed'
  PROVE  Kempt(t, k)'
<1>1. ~t.stopped /\ k' = k /\ ~mixed /\ (t' = t \/ Between(k))
  BY HandlerIs
<1>0. Neat(t, k)
  BY <1>1 DEF Kempt, FollowedWild
<1>2. CASE t' = t
  BY <1>0, <1>1, <1>2 DEF Kempt
<1>3. CASE Between(k)
  <2>1. Clean(t) /\ Outside(t, k)
    BY <1>0, <1>3, CleanBetween DEF Neat
  <2>2. PICK s : s = t'
    OBVIOUS
  <2>3. Tends(t, s) \/ FollowedWild(s)
    BY <2>1, <2>2, HandlerIs
  <2>4. Tends(t, s) => Outside(s, k)
    BY <1>1, <1>3, <2>1 DEF Outside, Tends, Clean, Bare
  <2>5. Tends(t, s) => Neat(s, k)
    BY <1>3, <2>4 DEF Neat, Tends, Clean, Sheet, Inside
  <2>6. Kempt(s, k)
    BY <2>3, <2>5 DEF Kempt
  <2> QED
    BY <1>1, <2>2, <2>6
<1> QED
  BY <1>1, <1>2, <1>3

\* Outside of a character nothing is in the middle, and the other way round.
LEMMA NeatBetween ==
  ASSUME NEW s, NEW l, Between(l), Clean(s),
         s.buffer # Screen /\ ~s.stopped => NoCursor(s) \/ Promptless(l.todo)
  PROVE  Neat(s, l)
BY DEF Neat, Clean, Sheet, Outside, Inside

\* In the middle of a character it is the terminal that is sound, and the kernel knows the rest.
LEMMA NeatInside ==
  ASSUME NEW s, NEW l, ~Between(l), Sound(s), ~s.stopped => Inside(s, l)
  PROVE  Neat(s, l)
BY DEF Neat, Outside, Inside

\* Where the prompt stands among what is to be printed.
LEMMA CharacterNeat ==
  ASSUME Base(t, k), Neat(t, k), Printk \/ Begin \/ EndPrompt
  PROVE  Neat(t, k)'
<1>1. k \in Progress /\ TodoRight(k) /\ Between(k) /\ ~t.stopped
  BY DEF Base, Printk, Begin, EndPrompt, Kernel, Between
<1>2. Clean(t) /\ (t.buffer # Screen => NoCursor(t) \/ Promptless(k.todo))
  BY <1>1, CleanBetween DEF Neat, Outside
<1>3. CASE Printk
  <2>1. PICK item \in Items : t' = t /\ k' = Rest(Printed(item))
    BY <1>3 DEF Printk, To
  <2>2. Printed(item) \in Todos /\ Promptless(Printed(item))
    <3>1. Printed(item) \in Seq(Printable \ {"backspace", "prompt"})
      BY PrintsAssumption
    <3> HIDE DEF Printed
    <3> QED
      BY <3>1 DEF Todos, Promptless
  <2>3. Between(Rest(Printed(item))) /\ Rest(Printed(item)).todo = Printed(item)
    BY <2>2, RestIs
  <2>4. Neat(t, Rest(Printed(item)))
    BY <1>2, <2>2, <2>3, NeatBetween
  <2> QED
    BY <2>1, <2>4
<1>4. CASE Begin
  <2>1. PICK pc \in {"erase", "index"} : pc = IF NewLine THEN "erase" ELSE "index"
    OBVIOUS
  <2>2. PICK s : s = At(t)
    OBVIOUS
  <2>3. t' = s /\ k' = Goto(pc)
    BY <1>4, <2>1, <2>2 DEF Begin, To, At
  <2>4. Goto(pc).pc = pc
    BY <1>1, <2>1, GotoIs DEF Places
  <2>5. Clean(s) /\ s.buffer = Screen
    BY <1>1, <1>2, <2>2, AtClean
  <2>6. CursorAt(s, Pos(s)) /\ Sound(s)
    BY <2>5 DEF Clean, Drawn, Sheet
  <2>7. Inside(s, Goto(pc))
    BY <2>1, <2>4, <2>5, <2>6 DEF Inside
  <2>8. Neat(s, Goto(pc))
    BY <2>1, <2>4, <2>6, <2>7, NeatInside DEF Between
  <2> QED
    BY <2>3, <2>8
<1>5. CASE EndPrompt
  <2>1. t' = Prompt(t) /\ k' = Rest(Tail(k.todo)) /\ k.pc = "put" /\ Char = "prompt"
    BY <1>5 DEF EndPrompt, To, Kernel
  <2>2. Tail(k.todo) \in Todos /\ Promptless(Tail(k.todo))
    BY <1>1, <2>1, TodoIs
  <2>3. Between(Rest(Tail(k.todo))) /\ Rest(Tail(k.todo)).todo = Tail(k.todo)
    BY <2>2, RestIs
  <2>4. Clean(Prompt(t))
    <3>1. CASE t.buffer = Screen
      BY <1>2, <3>1, PromptClean
    <3>2. CASE t.buffer # Screen
      <4>1. NoCursor(t)
        <5>1. 1 \in DOMAIN k.todo /\ k.todo[1] = "prompt"
          <6>1. k.todo \in Todos /\ k.todo # << >> /\ Char = k.todo[1]
            BY <1>1, <2>1, TodoIs, TailIs DEF Char
          <6> QED
            BY <2>1, <6>1 DEF Todos
        <5> QED
          BY <1>2, <3>2, <5>1 DEF Promptless
      <4>2. t \in State /\ Pos(t) \in Cell /\ t.vga \in [Cell -> Glyph]
        BY <1>2, PosIs, Fields DEF Clean, Sheet
      <4>3. PICK r : r = Prompt(t)
        OBVIOUS
      <4>4. r \in State /\ r.under = Blank /\ OnScreen(t, r)
        BY <4>2, <4>3, PromptIs
      <4>5. r.vga = [t.vga EXCEPT ![Pos(t)] = Cursor] /\ r.strayed = t.strayed
        BY <4>2, <4>3, PromptIs
      <4>6. CursorAt(r, Pos(t))
        BY <4>1, <4>2, <4>5 DEF CursorAt, NoCursor
      <4>7. Rewrites(t, r)
        BY <4>4, <4>5 DEF Rewrites, Writes, OnScreen
      <4>8. Sheet(r) /\ r.buffer = t.buffer
        BY <1>2, <4>4, <4>7, RewritesSheet, Constants DEF Clean
      <4> QED
        BY <3>2, <4>2, <4>3, <4>6, <4>8 DEF Clean, Drawn
    <3> QED
      BY <3>1, <3>2
  <2>5. Neat(Prompt(t), Rest(Tail(k.todo)))
    BY <2>2, <2>3, <2>4, NeatBetween
  <2> QED
    BY <2>1, <2>5
<1> QED
  BY <1>3, <1>4, <1>5

\* What the steps in the middle of a character start from.
Middle(pc) ==
  /\ t \in State /\ k \in Progress /\ Listed(t) /\ Placed(t, k) /\ TodoRight(k)
  /\ k.pc = pc /\ ~t.stopped /\ ~Between(k) /\ Sound(t) /\ Inside(t, k) /\ t.buffer = Screen
  /\ t.row \in Nat /\ t.column \in Nat

\* They start from the invariant.
LEMMA MiddleIs ==
  ASSUME Base(t, k), Neat(t, k), ~t.stopped, ~Between(k)
  PROVE  Middle(k.pc)
<1>1. t.row \in Nat /\ t.column \in Nat
  BY Fields DEF Base
<1> QED
  BY <1>1 DEF Base, Neat, Middle, Inside

\* The place of the cursor, when it is a line and a column.
LEMMA PosAt ==
  ASSUME NEW s, NEW row \in Nat, NEW column \in Nat, s.row = row, s.column = column
  PROVE  /\ Pos(s) \in Nat /\ Pos(s) = row * Width + column /\ row * Width \in Nat
         /\ (row + 1) * Width = row * Width + Width
         /\ column = 0 => Pos(s) = row * Width
         /\ row = 0 /\ column = 0 => Pos(s) = 0
<1>1. row * Width \in Nat /\ (row + 1) * Width = row * Width + Width /\ 0 * Width = 0
  BY Grid, TerminalAssumption
<1>2. Pos(s) = row * Width + column
  BY DEF Pos
<1> QED
  BY <1>1, <1>2

\* The steps of terminal_move_, to the right.
LEMMA AdvanceNeat ==
  ASSUME Base(t, k), Neat(t, k),
         TakeIndex \/ FetchColumn \/ StoreColumn \/ TestColumn \/ StoreRow \/ TestRow \/ Draw
  PROVE  Neat(t, k)'
<1>1. ~t.stopped /\ k.pc \in {"index", "fetch", "column", "edge", "row", "foot", "draw"}
  BY DEF TakeIndex, FetchColumn, StoreColumn, TestColumn, StoreRow, TestRow, Draw, Kernel
<1>2. Middle(k.pc) /\ Width \in Nat /\ Width > 2 /\ Height \in Nat \ {0}
  BY <1>1, MiddleIs, TerminalAssumption DEF Between
<1>3. /\ t \in State /\ k \in Progress /\ t.buffer = Screen /\ Listed(t) /\ Placed(t, k)
      /\ Sound(t) /\ Inside(t, k) /\ ~Between(k) /\ t.row \in Nat /\ t.column \in Nat
      /\ k.reg \in Nat /\ Pos(t) \in Nat /\ k.last \in Nat /\ k.idx \in Nat /\ k.res \in 0 .. 2
  BY <1>2, PosIs DEF Middle, Progress
<1>4. CASE TakeIndex
  <2>1. PICK l : l = [Goto("fetch") EXCEPT !.idx = Pos(t)]
    OBVIOUS
  <2>2. t' = Spend(t, 1) /\ k' = l /\ k.pc = "index"
    BY <1>4, <2>1 DEF TakeIndex, To, Kernel
  <2>3. Spend(t, 1) = t
    BY <1>3 DEF Spend
  <2>4. OnAt(l, "fetch") /\ l.idx = Pos(t)
    BY <1>3, <2>1 DEF Goto, Progress, OnAt, Places
  <2>5. Inside(t, l)
    BY <1>1, <1>3, <2>2, <2>4 DEF Inside, OnAt
  <2>6. Neat(t, l)
    BY <1>3, <2>4, <2>5, NeatInside DEF OnAt, Between
  <2> QED
    BY <2>2, <2>3, <2>6
<1>5. CASE FetchColumn
  <2>1. PICK l : l = [Goto("column") EXCEPT !.last = Pos(t), !.reg = t.column]
    OBVIOUS
  <2>2. t' = t /\ k' = l /\ k.pc = "fetch"
    BY <1>5, <2>1 DEF FetchColumn, To, Kernel
  <2>3. OnAt(l, "column") /\ l.reg = t.column /\ l.last = Pos(t) /\ l.idx = k.idx
    BY <1>3, <2>1 DEF Goto, Progress, OnAt, Places
  <2>4. Pos(t) \in Cell
    BY <1>3, <2>2, PosIs DEF Placed, OverEdge, OverFoot
  <2>5. Inside(t, l)
    BY <1>1, <1>3, <2>2, <2>3, <2>4 DEF Inside, OnAt
  <2>6. Neat(t, l)
    BY <1>3, <2>3, <2>5, NeatInside DEF OnAt, Between
  <2> QED
    BY <2>2, <2>6
<1>6. CASE StoreColumn
  <2>1. PICK s : s = [t EXCEPT !.column = k.reg + 1]
    OBVIOUS
  <2>2. t' = s /\ k' = Goto("edge") /\ k.pc = "column"
    BY <1>6, <2>1 DEF StoreColumn, To, Kernel
  <2>3. Puts(t, s, t.row, k.reg + 1)
    BY <2>1 DEF Puts
  <2>4. Moves(t, s) /\ s.row = t.row /\ s.column = k.reg + 1
    BY <1>3, <2>3, PlacedType
  <2>5. OnAt(Goto("edge"), "edge") /\ Goto("edge").idx = k.idx /\ Goto("edge").last = k.last
    BY <1>3, GotoIs DEF OnAt, Places
  <2>6. /\ k.idx = k.last /\ k.idx \in Cell /\ CursorAt(t, k.last)
        /\ k.last = Pos(t) /\ k.reg = t.column
    BY <1>1, <1>3, <2>2 DEF Inside
  <2>7. Pos(s) = k.last + 1 /\ s.column <= Width
    <3>1. Pos(t) = t.row * Width + t.column /\ t.row * Width \in Nat
      BY <1>3, PosAt
    <3>2. Pos(s) = t.row * Width + (k.reg + 1)
      BY <1>3, <2>4, PosAt
    <3>3. k.reg < Width
      BY <1>3, <2>2 DEF Placed
    <3> QED
      BY <1>2, <1>3, <2>4, <2>6, <3>1, <3>2, <3>3
  <2>8. Inside(s, Goto("edge"))
    BY <1>3, <2>4, <2>5, <2>6, <2>7 DEF Inside, OnAt, Moves, Beyond, CursorAt
  <2>9. Neat(s, Goto("edge"))
    BY <1>3, <2>4, <2>5, <2>8, NeatInside, MovesSound DEF OnAt, Between
  <2> QED
    BY <2>2, <2>9
<1>7. CASE TestColumn
  <2>1. /\ k.pc = "edge" /\ k.idx = k.last /\ k.idx \in Cell /\ CursorAt(t, k.last)
        /\ Pos(t) = k.last + 1 /\ t.column <= Width
    BY <1>1, <1>3, <1>7 DEF TestColumn, Kernel, Inside, Beyond
  <2>2. CASE AtEdge(t)
    <3>1. PICK s, l : s = [t EXCEPT !.column = 0] /\ l = [Goto("row") EXCEPT !.reg = t.row]
      OBVIOUS
    <3>2. t' = s /\ k' = l
      BY <1>7, <2>2, <3>1 DEF TestColumn, To
    <3>3. Puts(t, s, t.row, 0)
      BY <3>1 DEF Puts
    <3>4. Moves(t, s) /\ s.row = t.row /\ s.column = 0
      BY <1>3, <3>3, PlacedType
    <3>5. OnAt(l, "row") /\ l.reg = t.row /\ l.idx = k.idx /\ l.last = k.last
      BY <1>3, <3>1 DEF Goto, Progress, OnAt, Places
    <3>6. (t.row + 1) * Width = k.last + 1
      <4>1. t.column = Width
        BY <1>2, <1>3, <2>1, <2>2 DEF AtEdge
      <4>2. Pos(t) = t.row * Width + t.column /\ (t.row + 1) * Width = t.row * Width + Width
        BY <1>3, PosAt
      <4> QED
        BY <2>1, <4>1, <4>2
    <3>7. Inside(s, l)
      BY <1>3, <2>1, <3>4, <3>5, <3>6 DEF Inside, OnAt, Moves, CursorAt
    <3>8. Neat(s, l)
      BY <1>3, <3>4, <3>5, <3>7, NeatInside, MovesSound DEF OnAt, Between
    <3> QED
      BY <3>2, <3>8
  <2>3. CASE ~AtEdge(t)
    <3>1. PICK l : l = DrawAt(0)
      OBVIOUS
    <3>2. t' = t /\ k' = l
      BY <1>7, <2>3, <3>1 DEF TestColumn, To, DrawAt
    <3>3. OnAt(l, "draw") /\ l.res = 0 /\ l.idx = k.idx /\ l.last = k.last
      BY <1>3, <3>1, DrawAtIs
    <3>4. Inside(t, l)
      BY <1>3, <2>1, <3>3 DEF Inside, OnAt, Wraps, Beyond
    <3>5. Neat(t, l)
      BY <1>3, <3>3, <3>4, NeatInside DEF OnAt, Between
    <3> QED
      BY <3>2, <3>5
  <2> QED
    BY <2>2, <2>3
<1>8. CASE StoreRow
  <2>1. PICK s : s = [t EXCEPT !.row = k.reg + 1]
    OBVIOUS
  <2>2. t' = s /\ k' = Goto("foot") /\ k.pc = "row"
    BY <1>8, <2>1 DEF StoreRow, To, Kernel
  <2>3. Puts(t, s, k.reg + 1, t.column)
    BY <2>1 DEF Puts
  <2>4. Moves(t, s) /\ s.row = k.reg + 1 /\ s.column = t.column
    BY <1>3, <2>3, PlacedType
  <2>5. OnAt(Goto("foot"), "foot") /\ Goto("foot").idx = k.idx /\ Goto("foot").last = k.last
    BY <1>3, GotoIs DEF OnAt, Places
  <2>6. /\ k.idx = k.last /\ k.idx \in Cell /\ CursorAt(t, k.last)
        /\ t.column = 0 /\ k.reg = t.row /\ (t.row + 1) * Width = k.last + 1
    BY <1>1, <1>3, <2>2 DEF Inside
  <2>7. Pos(s) = k.last + 1
    <3>1. PICK row \in Nat : row = t.row + 1
      BY <1>3
    <3>2. Pos(s) = row * Width
      BY <2>4, <2>6, <3>1, PosAt
    <3> QED
      BY <2>6, <3>1, <3>2
  <2>8. Inside(s, Goto("foot"))
    BY <1>3, <2>4, <2>5, <2>6, <2>7 DEF Inside, OnAt, Moves, Beyond, CursorAt
  <2>9. Neat(s, Goto("foot"))
    BY <1>3, <2>4, <2>5, <2>8, NeatInside, MovesSound DEF OnAt, Between
  <2> QED
    BY <2>2, <2>9
<1>9. CASE TestRow
  <2>1. /\ k.pc = "foot" /\ k.idx = k.last /\ k.idx \in Cell /\ CursorAt(t, k.last)
        /\ Pos(t) = k.last + 1 /\ t.column = 0
    BY <1>1, <1>3, <1>9 DEF TestRow, Kernel, Inside, Beyond
  <2>2. CASE AtFoot(t)
    <3>1. PICK s, l : s = [t EXCEPT !.row = 0] /\ l = DrawAt(2)
      OBVIOUS
    <3>2. t' = s /\ k' = l
      BY <1>9, <2>2, <3>1 DEF TestRow, To, DrawAt
    <3>3. Puts(t, s, 0, t.column)
      BY <3>1 DEF Puts
    <3>4. Moves(t, s) /\ s.row = 0 /\ s.column = 0
      BY <1>3, <2>1, <3>3, PlacedType
    <3>5. OnAt(l, "draw") /\ l.res = 2 /\ l.idx = k.idx /\ l.last = k.last
      BY <1>3, <3>1, DrawAtIs
    <3>6. Pos(s) = 0
      BY <3>4, PosAt
    <3>7. Inside(s, l)
      BY <1>3, <2>1, <3>4, <3>5, <3>6 DEF Inside, OnAt, Moves, CursorAt, Wraps, Over
    <3>8. Neat(s, l)
      BY <1>3, <3>4, <3>5, <3>7, NeatInside, MovesSound DEF OnAt, Between
    <3> QED
      BY <3>2, <3>8
  <2>3. CASE ~AtFoot(t)
    <3>1. PICK l : l = DrawAt(1)
      OBVIOUS
    <3>2. t' = t /\ k' = l
      BY <1>9, <2>3, <3>1 DEF TestRow, To, DrawAt
    <3>3. OnAt(l, "draw") /\ l.res = 1 /\ l.idx = k.idx /\ l.last = k.last
      BY <1>3, <3>1, DrawAtIs
    <3>4. Inside(t, l)
      BY <1>3, <2>1, <3>3 DEF Inside, OnAt, Wraps, Beyond
    <3>5. Neat(t, l)
      BY <1>3, <3>3, <3>4, NeatInside DEF OnAt, Between
    <3> QED
      BY <3>2, <3>5
  <2> QED
    BY <2>2, <2>3
<1>10. CASE Draw
  <2>1. PICK s, pc : s = DrawCursor(t, k.last) /\ pc = After(k.res)
    OBVIOUS
  <2>2. t' = s /\ k' = Goto(pc) /\ k.pc = "draw"
    BY <1>10, <2>1 DEF Draw, To, Kernel
  <2>3. pc = IF k.res = 0 THEN "char" ELSE IF k.res = 1 THEN "clear" ELSE "choose"
    BY <1>3, <2>1 DEF After
  <2>4. OnAt(Goto(pc), pc) /\ Goto(pc).res = k.res /\ Goto(pc).idx = k.idx /\ Goto(pc).last = k.last
    BY <1>3, <2>3, GotoIs DEF OnAt, Places
  <2>5. /\ k.idx = k.last /\ k.idx \in Cell /\ CursorAt(t, k.last)
        /\ Wraps(t, k) /\ (k.res > 0 => t.column = 0)
    BY <1>1, <1>3, <2>2 DEF Inside
  <2>6. t.row < Height /\ t.column < Width
    BY <1>3, <2>2 DEF Placed, OverEdge, OverFoot
  <2>7. Pos(t) \in Cell /\ Sheet(t) /\ t.under # Cursor
    BY <1>3, <2>6, PosIs DEF Sheet, Sound, Stored
  <2>8. Rewrites(t, s) /\ CursorAt(s, Pos(t)) /\ s.under # Cursor
    BY <1>3, <2>1, <2>5, <2>7, DrawOn
  <2>9. Sheet(s) /\ Pos(s) = Pos(t) /\ s.buffer = Screen
    BY <1>3, <2>7, <2>8, RewritesSheet
  <2>10. Head(k.todo) # "newline"
    BY <1>2, <2>2 DEF Middle, TodoRight, Chars
  <2>11. Wraps(s, Goto(pc))
    BY <2>4, <2>5, <2>9 DEF Wraps, Over, Beyond
  <2>12. s.column = t.column
    BY <2>8 DEF Rewrites, Writes
  <2>13. Inside(s, Goto(pc))
    BY <1>3, <2>3, <2>4, <2>5, <2>8, <2>9, <2>10, <2>11, <2>12 DEF Inside, OnAt
  <2>14. Neat(s, Goto(pc))
    BY <2>3, <2>4, <2>9, <2>13, NeatInside DEF OnAt, Between, Sheet
  <2> QED
    BY <2>2, <2>14
<1> QED
  BY <1>4, <1>5, <1>6, <1>7, <1>8, <1>9, <1>10

\* The steps of terminal_save_state, and of what follows it.
LEMMA SavingNeat ==
  ASSUME Base(t, k), Neat(t, k), Choose \/ SaveTo \/ Clear \/ SetIt
  PROVE  Neat(t, k)'
<1>1. ~t.stopped /\ k.pc \in {"choose", "save", "clear", "char"}
  BY DEF Choose, SaveTo, Clear, SetIt, Kernel
<1>2. Middle(k.pc) /\ Width \in Nat /\ Width > 2 /\ Height \in Nat \ {0}
  BY <1>1, MiddleIs, TerminalAssumption DEF Between
<1>3. /\ t \in State /\ k \in Progress /\ t.buffer = Screen /\ Listed(t) /\ Placed(t, k)
      /\ Sound(t) /\ Inside(t, k) /\ ~Between(k) /\ t.row \in Nat /\ t.column \in Nat
      /\ Pos(t) \in Nat /\ k.idx \in Nat /\ k.res \in 0 .. 2
  BY <1>2, PosIs DEF Middle, Progress
<1>4. k.pc \in {"choose", "save", "clear"} =>
        /\ t.column = 0
        /\ k.res = 2 \/ (k.pc = "clear" /\ k.res = 1)
        /\ IF NewLine THEN NoCursor(t) /\ (t.row = Height <=> k.res = 2)
                      ELSE Wraps(t, k) /\ CursorAt(t, Pos(t))
  BY <1>1, <1>3 DEF Inside, NewLine, Char
<1>5. ~NewLine \/ k.pc = "char" => Clean(t) /\ Wraps(t, k)
  <2>1. SUFFICES ASSUME ~NewLine \/ k.pc = "char" PROVE Clean(t) /\ Wraps(t, k)
    OBVIOUS
  <2>2. Wraps(t, k) /\ CursorAt(t, Pos(t))
    <3>1. CASE k.pc = "char"
      BY <1>1, <1>3, <3>1 DEF Inside
    <3>2. CASE k.pc # "char"
      BY <1>1, <1>4, <2>1, <3>2
    <3> QED
      BY <3>1, <3>2
  <2>3. t.row < Height /\ t.column < Width
    BY <1>1, <1>3, <2>1 DEF Placed, OverEdge, OverFoot, NewLine, Char
  <2> QED
    BY <1>3, <2>2, <2>3 DEF Clean, Sheet, Drawn
<1>6. CASE Choose
  <2>1. PICK s, l : s = ChoosePage(t) /\ l = [Goto("save") EXCEPT !.new = s.head]
    OBVIOUS
  <2>2. t' = s /\ k' = l /\ k.pc = "choose"
    BY <1>6, <2>1 DEF Choose, To, Kernel
  <2>3. Chooses(t, s) /\ s \in State
    BY <1>3, <2>1, ChooseIs DEF Chooses
  <2>4. /\ OnAt(l, "save") /\ l.new = s.head /\ l.res = k.res
        /\ l.idx = k.idx /\ l.last = k.last
    <3>1. s.head \in 0 .. Pages
      BY <2>3, Fields
    <3> QED
      BY <1>3, <2>1, <3>1 DEF Goto, Progress, OnAt, Places
  <2>5. Sound(s)
    <3>1. ~s.stopped => PagesRight(s)
      BY <1>1, <1>3, <2>1, ChooseRight DEF Sound
    <3> QED
      BY <1>3, <2>3, <3>1 DEF Sound, Stored, Chooses
  <2>6. Pos(s) = Pos(t)
    BY <2>3 DEF Chooses, Pos
  <2>7. Inside(s, l)
    BY <1>3, <1>4, <2>2, <2>3, <2>4, <2>6
       DEF Inside, OnAt, Chooses, CursorAt, NoCursor, Wraps, Over, Beyond, NewLine, Char
  <2>8. Neat(s, l)
    BY <2>4, <2>5, <2>7, NeatInside DEF OnAt, Between
  <2> QED
    BY <2>2, <2>8
<1>7. CASE SaveTo
  <2>1. PICK s : s = SavePage(t, k.new)
    OBVIOUS
  <2>2. t' = s /\ k' = Goto("clear") /\ k.pc = "save"
    BY <1>7, <2>1 DEF SaveTo, To, Kernel
  <2>3. k.new = t.head /\ t.head \in Page
    BY <1>1, <1>3, <2>2 DEF Inside, Placed
  <2>4. CursorAt(t, Pos(t)) /\ Pos(t) <= Length
    <3>1. Length \in Nat /\ Length = Height * Width
      BY Grid, TerminalAssumption DEF Length
    <3>2. CASE NewLine
      <4>1. NoCursor(t) /\ t.row = Height /\ t.column = 0
        BY <1>4, <2>2, <3>2
      <4>2. Pos(t) = Height * Width
        BY <1>2, <4>1, PosAt
      <4> QED
        BY <3>1, <4>1, <4>2 DEF NoCursor, CursorAt
    <3>3. CASE ~NewLine
      <4>1. Wraps(t, k) /\ CursorAt(t, Pos(t)) /\ k.res = 2
        BY <1>4, <2>2, <3>3
      <4>2. Pos(t) = 0
        BY <4>1 DEF Wraps, Over
      <4> QED
        BY <3>1, <4>1, <4>2
    <3> QED
      BY <3>2, <3>3
  <2>5. Saved(t, s) /\ ~s.stopped /\ s.vga = Empty
    BY <1>1, <1>3, <2>1, <2>3, <2>4, SavePageOn
  <2>6. NoCursor(s) /\ CursorAt(s, Pos(s))
    BY <2>5, EmptyType, Constants DEF NoCursor, CursorAt
  <2>7. /\ OnAt(Goto("clear"), "clear") /\ Goto("clear").res = k.res
        /\ Goto("clear").idx = k.idx /\ Goto("clear").last = k.last
    BY <1>3, GotoIs DEF OnAt, Places
  <2>8. Pos(s) = Pos(t)
    BY <2>5 DEF Saved, Pos
  <2>9. Inside(s, Goto("clear"))
    BY <1>3, <1>4, <2>2, <2>5, <2>6, <2>7, <2>8
       DEF Inside, OnAt, Saved, Wraps, Over, Beyond, NewLine, Char
  <2>10. Neat(s, Goto("clear"))
    BY <2>5, <2>7, <2>9, NeatInside DEF OnAt, Between, Saved
  <2> QED
    BY <2>2, <2>10
<1>8. CASE Clear /\ NewLine
  <2>1. PICK u : u = IF k.res = 2 THEN RowTo(t, 0) ELSE t
    OBVIOUS
  <2>2. PICK todo : todo = << ">", ">", "prompt" >> \o Tail(k.todo)
    OBVIOUS
  <2>3. t' = ClearRow(u) /\ k' = Rest(todo) /\ k.pc = "clear"
    BY <1>8, <2>1, <2>2 DEF Clear, To, Kernel, RowTo
  <2>4. NoCursor(t) /\ t.column = 0 /\ (t.row = Height <=> k.res = 2)
    BY <1>4, <1>8, <2>3
  <2>5. Clean(u) /\ u.buffer = Screen
    <3>1. CASE k.res = 2
      <4>1. Moves(t, u) /\ u.row = 0 /\ u.column = 0
        BY <1>3, <2>1, <2>4, <3>1, RowIs
      <4>2. Sound(u) /\ Listed(u)
        BY <1>3, <4>1, MovesSound
      <4>3. NoCursor(u) /\ u.buffer = Screen /\ u \in State
        BY <1>3, <2>4, <4>1 DEF NoCursor, Moves
      <4>4. 0 < Height /\ 0 < Width
        BY <1>2
      <4> QED
        BY <4>1, <4>2, <4>3, <4>4 DEF Clean, Sheet, Drawn, NoCursor, CursorAt
    <3>2. CASE k.res # 2
      <4>1. t.row < Height /\ 0 < Width
        BY <1>2, <1>3, <2>3, <3>2 DEF Placed, OverFoot
      <4> QED
        BY <1>3, <2>1, <2>4, <3>2, <4>1 DEF Clean, Sheet, Drawn, NoCursor, CursorAt
    <3> QED
      BY <3>1, <3>2
  <2>6. Clean(ClearRow(u)) /\ ClearRow(u).buffer = Screen
    BY <2>5, ClearRowClean DEF Stays
  <2>7. todo \in Todos
    <3>1. Tail(k.todo) \in Todos /\ Promptless(Tail(k.todo))
      BY <1>2, <1>3, <1>8, <2>3, TodoIs DEF NewLine, Middle
    <3> QED
      BY <2>2, <3>1, PromptedIs DEF Promptless
  <2>8. Neat(ClearRow(u), Rest(todo))
    BY <2>6, <2>7, RestIs, NeatBetween
  <2> QED
    BY <2>3, <2>8
<1>9. CASE Clear /\ ~NewLine
  <2>1. PICK s : s = ClearRow(t)
    OBVIOUS
  <2>2. t' = s /\ k' = Goto("char") /\ k.pc = "clear"
    BY <1>9, <2>1 DEF Clear, To, Kernel
  <2>3. Clean(s) /\ Stays(t, s)
    BY <1>3, <1>5, <1>9, <2>1, ClearRowClean
  <2>4. /\ OnAt(Goto("char"), "char") /\ Goto("char").res = k.res
        /\ Goto("char").idx = k.idx /\ Goto("char").last = k.last
    BY <1>3, GotoIs DEF OnAt, Places
  <2>5. s.buffer = Screen /\ Pos(s) = Pos(t) /\ CursorAt(s, Pos(s)) /\ Sound(s)
    BY <1>3, <2>3 DEF Stays, Pos, Clean, Drawn, Sheet
  <2>6. Wraps(s, Goto("char"))
    BY <1>5, <1>9, <2>4, <2>5 DEF Wraps, Over, Beyond
  <2>7. Inside(s, Goto("char"))
    BY <2>4, <2>5, <2>6 DEF Inside, OnAt
  <2>8. Neat(s, Goto("char"))
    BY <2>4, <2>5, <2>7, NeatInside DEF OnAt, Between
  <2> QED
    BY <2>2, <2>8
<1>10. CASE SetIt
  <2>1. PICK s : s = SetChar(t, k.idx, Char)
    OBVIOUS
  <2>2. t' = s /\ k' = Rest(Tail(k.todo)) /\ k.pc = "char"
    BY <1>10, <2>1 DEF SetIt, To, Kernel
  <2>3. Char \in Printable /\ Tail(k.todo) \in Todos
    BY <1>2, <1>3, <2>2, TodoIs DEF Middle
  <2>4. Char \in Glyph /\ Char # Cursor
    BY <2>3, Constants
  <2>5. Clean(t) /\ k.idx \in Cell
    BY <1>5, <2>2 DEF Wraps
  <2>6. Clean(s) /\ s.buffer = Screen
    BY <1>3, <2>1, <2>4, <2>5, SetCharClean DEF Stays
  <2>7. Neat(s, Rest(Tail(k.todo)))
    BY <2>3, <2>6, RestIs, NeatBetween
  <2> QED
    BY <2>2, <2>7
<1> QED
  BY <1>6, <1>7, <1>8, <1>9, <1>10

\* The steps of terminal_next_line.
LEMMA LineNeat ==
  ASSUME Base(t, k), Neat(t, k), Erase \/ Return \/ Line \/ TestLine
  PROVE  Neat(t, k)'
<1>1. ~t.stopped /\ k.pc \in Lines
  BY DEF Erase, Return, Line, TestLine, Kernel, Lines
<1>2. Middle(k.pc) /\ Width \in Nat /\ Width > 2 /\ Height \in Nat \ {0}
  BY <1>1, MiddleIs, TerminalAssumption DEF Between, Lines
<1>3. /\ t \in State /\ k \in Progress /\ t.buffer = Screen /\ Listed(t) /\ Placed(t, k)
      /\ Sound(t) /\ Inside(t, k) /\ ~Between(k) /\ t.row \in Nat /\ t.column \in Nat
      /\ k.reg \in Nat /\ Head(k.todo) = "newline"
  BY <1>1, <1>2 DEF Middle, Progress, TodoRight
<1>4. CASE Erase
  <2>1. PICK s : s = SetVga(t, Pos(t), t.under)
    OBVIOUS
  <2>2. t' = s /\ k' = Goto("return") /\ k.pc = "erase"
    BY <1>3, <1>4, <2>1 DEF Erase, To, Kernel
  <2>3. t.row < Height /\ t.column < Width /\ CursorAt(t, Pos(t))
    BY <1>1, <1>3, <2>2 DEF Placed, OverEdge, OverFoot, Inside
  <2>4. /\ Pos(t) \in Cell /\ Pos(t) \in Int /\ t.under \in Glyph /\ t.under # Cursor
        /\ t.vga \in [Cell -> Glyph]
    BY <1>3, <2>3, PosIs, CellIs, Fields DEF Sound, Stored
  <2>5. s \in State /\ OnScreen(t, s) /\ s.under = t.under
    BY <1>3, <2>1, <2>4, SetVgaIs
  <2>6. s.vga = [t.vga EXCEPT ![Pos(t)] = t.under] /\ s.strayed = t.strayed
    BY <1>3, <2>1, <2>4, SetVgaOn
  <2>7. NoCursor(s)
    BY <2>3, <2>4, <2>6 DEF NoCursor, CursorAt
  <2>8. Sound(s) /\ s.buffer = Screen
    <3>1. Rewrites(t, s)
      BY <2>5, <2>6 DEF Rewrites, Writes, OnScreen
    <3>2. Sheet(t)
      BY <1>3, <2>3 DEF Sheet
    <3> QED
      BY <1>3, <2>4, <2>5, <3>1, <3>2, RewritesSheet DEF Sheet
  <2>9. OnAt(Goto("return"), "return")
    BY <1>3, GotoIs DEF OnAt, Places
  <2>10. Inside(s, Goto("return"))
    BY <2>7, <2>8, <2>9 DEF Inside, OnAt
  <2>11. Neat(s, Goto("return"))
    BY <2>8, <2>9, <2>10, NeatInside DEF OnAt, Between
  <2> QED
    BY <2>2, <2>11
<1>5. CASE Return
  <2>1. PICK s, l : s = [t EXCEPT !.column = 0] /\ l = [Goto("line") EXCEPT !.reg = t.row]
    OBVIOUS
  <2>2. t' = s /\ k' = l /\ k.pc = "return"
    BY <1>5, <2>1 DEF Return, To, Kernel
  <2>3. Puts(t, s, t.row, 0)
    BY <2>1 DEF Puts
  <2>4. Moves(t, s) /\ s.row = t.row /\ s.column = 0
    BY <1>3, <2>3, PlacedType
  <2>5. OnAt(l, "line") /\ l.reg = t.row
    BY <1>3, <2>1 DEF Goto, Progress, OnAt, Places
  <2>6. NoCursor(t)
    BY <1>1, <1>3, <2>2 DEF Inside
  <2>7. Inside(s, l)
    BY <1>3, <2>4, <2>5, <2>6 DEF Inside, OnAt, Moves, NoCursor
  <2>8. Neat(s, l)
    BY <1>3, <2>4, <2>5, <2>7, NeatInside, MovesSound DEF OnAt, Between
  <2> QED
    BY <2>2, <2>8
<1>6. CASE Line
  <2>1. PICK s : s = [t EXCEPT !.row = k.reg + 1]
    OBVIOUS
  <2>2. t' = s /\ k' = Goto("bottom") /\ k.pc = "line"
    BY <1>6, <2>1 DEF Line, To, Kernel
  <2>3. Puts(t, s, k.reg + 1, t.column)
    BY <2>1 DEF Puts
  <2>4. Moves(t, s) /\ s.row = k.reg + 1 /\ s.column = t.column
    BY <1>3, <2>3, PlacedType
  <2>5. OnAt(Goto("bottom"), "bottom")
    BY <1>3, GotoIs DEF OnAt, Places
  <2>6. NoCursor(t) /\ t.column = 0
    BY <1>1, <1>3, <2>2 DEF Inside
  <2>7. s.row <= Height
    <3>1. k.reg < Height
      BY <1>3, <2>2 DEF Placed
    <3> QED
      BY <1>2, <1>3, <2>4, <3>1
  <2>8. Inside(s, Goto("bottom"))
    BY <1>3, <2>4, <2>5, <2>6, <2>7 DEF Inside, OnAt, Moves, NoCursor
  <2>9. Neat(s, Goto("bottom"))
    BY <1>3, <2>4, <2>5, <2>8, NeatInside, MovesSound DEF OnAt, Between
  <2> QED
    BY <2>2, <2>9
<1>7. CASE TestLine
  <2>1. PICK pc \in {"choose", "clear"}, res \in 0 .. 2 :
               /\ pc = IF AtFoot(t) THEN "choose" ELSE "clear"
               /\ res = IF AtFoot(t) THEN 2 ELSE 1
    OBVIOUS
  <2>2. PICK l : l = [Goto(pc) EXCEPT !.res = res]
    OBVIOUS
  <2>3. t' = t /\ k' = l /\ k.pc = "bottom"
    BY <1>7, <2>1, <2>2 DEF TestLine, To, Kernel
  <2>4. OnAt(l, pc) /\ l.res = res
    BY <1>3, <2>1, <2>2 DEF Goto, Progress, OnAt, Places
  <2>5. NoCursor(t) /\ t.column = 0 /\ t.row <= Height
    BY <1>1, <1>3, <2>3 DEF Inside
  <2>6. t.row = Height <=> res = 2
    BY <1>2, <1>3, <2>1, <2>5 DEF AtFoot
  <2>7. Inside(t, l)
    BY <1>3, <2>1, <2>4, <2>5, <2>6 DEF Inside, OnAt
  <2>8. Neat(t, l)
    BY <1>3, <2>1, <2>4, <2>7, NeatInside DEF OnAt, Between
  <2> QED
    BY <2>3, <2>8
<1> QED
  BY <1>4, <1>5, <1>6, <1>7

\* The terminal starts without a cursor.
LEMMA InitNeat ==
  ASSUME Init
  PROVE  Neat(t, k)
<1>1. /\ Base(t, k) /\ Stored(t) /\ PagesRight(t) /\ t.vga = Empty /\ t.buffer = Screen
      /\ k.pc = "idle"
  BY InitBase
<1>2. NoCursor(t)
  BY <1>1, EmptyType, Constants DEF NoCursor
<1>3. Between(k) /\ Drawn(t)
  BY <1>1, <1>2 DEF Between, Drawn, NoCursor, CursorAt
<1> QED
  BY <1>1, <1>3 DEF Neat, Sound, Outside, Inside

\* Every step keeps the terminal in order, unless it is a handler in the middle of a
\* character.
LEMMA NeatKept ==
  ASSUME Base(t, k), ~mixed => Kempt(t, k), [Next]_vars
  PROVE  ~mixed' => Kempt(t, k)'
<1>1. CASE UNCHANGED vars
  BY <1>1 DEF vars
<1>2. CASE Step
  <2>1. mixed' = mixed /\ ~t.stopped
    BY <1>2 DEF Step, Printk, Begin, EndPrompt, TakeIndex, FetchColumn, StoreColumn, TestColumn,
                StoreRow, TestRow, Draw, Choose, SaveTo, Clear, SetIt, Erase, Return, Line,
                TestLine, Kernel
  <2>2. Neat(t, k) => Neat(t, k)'
    BY <1>2, CharacterNeat, AdvanceNeat, SavingNeat, LineNeat DEF Step
  <2>3. ~mixed => Neat(t, k)
    BY <2>1 DEF Kempt, FollowedWild
  <2> QED
    BY <2>1, <2>2, <2>3 DEF Kempt
<1>3. CASE Remark \/ Keyboard
  BY <1>3, HandlerNeat
<1> QED
  BY <1>1, <1>2, <1>3 DEF Next

\* Nothing is written outside of the screen or of a page, but by a backspace at the first
\* cell of the screen, by Page Up at the first page when the pointer there leads to other
\* memory, or after a handler has come in the middle of a character.
THEOREM StraysHaveCause == Spec => []StraysForCause
<1>1. Init => Base(t, k) /\ (~mixed => Kempt(t, k))
  BY InitBase, InitNeat DEF Kempt
<1>2. Base(t, k) /\ (~mixed => Kempt(t, k)) /\ [Next]_vars => Base(t, k)' /\ (~mixed' => Kempt(t, k)')
  BY BaseKept, NeatKept
<1>3. (~mixed => Kempt(t, k)) => StraysForCause
  <2>1. Neat(t, k) => t.strayed \subseteq {-1, Anywhere} /\ Anywhere \notin t.strayed
    BY DEF Neat, Sound, Stored, Anywhere
  <2> QED
    BY <2>1 DEF Kempt, FollowedWild, StraysForCause
<1> QED
  BY <1>1, <1>2, <1>3, PTL DEF Spec

\* The screen shows at most one cursor between two characters that are printed, until a
\* handler has come in the middle of a character or other memory has been copied.
THEOREM OneCursorShown == Spec => []OneCursor
<1>1. Init => Base(t, k) /\ (~mixed => Kempt(t, k))
  BY InitBase, InitNeat DEF Kempt
<1>2. Base(t, k) /\ (~mixed => Kempt(t, k)) /\ [Next]_vars => Base(t, k)' /\ (~mixed' => Kempt(t, k)')
  BY BaseKept, NeatKept
<1>3. (~mixed => Kempt(t, k)) => OneCursor
  <2>1. ASSUME Neat(t, k), Between(k)
        PROVE  \E c : CursorAt(t, c)
    BY <2>1 DEF Neat, Outside, Drawn
  <2>2. FollowedWild(t) => Anywhere \in t.strayed
    BY DEF FollowedWild
  <2> QED
    BY <2>1, <2>2 DEF Kempt, OneCursor, CursorAt
<1> QED
  BY <1>1, <1>2, <1>3, PTL DEF Spec

-----------------------------------------------------------------------------
(* What the head page has stays on the screen *)

\* The pages are as they were.
Holds(s, r) ==
  /\ r.head = s.head /\ r.cur = s.cur /\ r.left = s.left /\ r.page = s.page
  /\ r.buffer = s.buffer

\* The text before a cell is as it was, and the head page has no more.
LEMMA SameOn ==
  ASSUME NEW s \in State, NEW r, Holds(s, r), Same(s), NEW n \in Int, Upto(s, n),
         \A i \in Cell : i < n => r.vga[i] = s.vga[i]
  PROVE  Same(r) /\ Upto(r, n)
<1>1. Upto(r, n)
  BY DEF Upto, Kept, Used, Holds
<1>2. ASSUME Kept(s), NEW i \in 0 .. Used(s, s.head) - 1
      PROVE  i \in Cell /\ i < n
  <2>1. s.head \in Page /\ s.left[s.head] \in Int /\ Length \in Nat
    BY <1>2, Fields, Constants, CellIs DEF Kept, NULL
  <2>2. s.left[s.head] > 0 /\ Used(s, s.head) <= n /\ Used(s, s.head) = Length - s.left[s.head]
    BY <1>2 DEF Kept, Upto, Used
  <2>3. i \in Int /\ 0 <= i /\ i < Used(s, s.head)
    BY <1>2, <2>1, <2>2
  <2>4. i \in 0 .. Length - 1 /\ i < n
    BY <2>1, <2>2, <2>3
  <2> QED
    BY <2>4 DEF Cell
<1>3. Kept(r) => Kept(s) /\ Used(r, r.head) = Used(s, s.head)
  BY DEF Kept, Used, Holds
<1>4. ASSUME Kept(r), r.buffer = Screen, r.cur \in {NULL, r.head}, NEW i \in 0 .. Used(r, r.head) - 1
      PROVE  r.page[r.head][i] = r.vga[i]
  <2>1. Kept(s) /\ i \in 0 .. Used(s, s.head) - 1 /\ s.buffer = Screen /\ s.cur \in {NULL, s.head}
    BY <1>3, <1>4 DEF Holds
  <2>2. s.page[s.head][i] = s.vga[i]
    BY <2>1 DEF Same
  <2>3. r.vga[i] = s.vga[i]
    BY <1>2, <2>1
  <2> QED
    BY <2>2, <2>3 DEF Holds
<1> QED
  BY <1>1, <1>4 DEF Same

\* A page that has nothing.
LEMMA SameNone ==
  ASSUME NEW s \in State, NEW n \in Int, n <= 0, Upto(s, n)
  PROVE  Same(s)
<1>1. ASSUME Kept(s) PROVE Used(s, s.head) \in Int /\ Used(s, s.head) <= 0
  <2>1. s.head \in Page /\ s.left[s.head] \in Int /\ Length \in Nat
    BY <1>1, Fields, Constants, CellIs DEF Kept, NULL
  <2>2. Used(s, s.head) \in Int /\ Used(s, s.head) <= n
    BY <1>1, <2>1 DEF Used, Upto
  <2> QED
    BY <2>2
<1> QED
  BY <1>1 DEF Same

\* A cursor that has not gone back leaves what the head page has.
Fit(s) == ~s.stopped => Same(s) /\ Upto(s, Pos(s))

\* terminal_load_head.
LEMMA AtFit ==
  ASSUME NEW s, Clean(s), ~s.stopped, Fit(s)
  PROVE  Same(At(s)) /\ Upto(At(s), Pos(s)) /\ Pos(At(s)) = Pos(s)
<1>1. /\ At(s).row = s.row /\ At(s).column = s.column
      /\ At(s).head = s.head /\ At(s).left = s.left /\ At(s).page = s.page
  BY AtClean
<1>2. Pos(At(s)) = Pos(s) /\ Upto(At(s), Pos(s))
  BY <1>1 DEF Pos, Fit, Upto, Kept, Used
<1>3. CASE s.buffer = Screen
  <2>1. At(s) = s
    BY <1>3 DEF At, LoadHead
  <2> QED
    BY <1>2, <2>1 DEF Fit
<1>4. CASE s.buffer # Screen
  <2>1. s \in State /\ Listed(s) /\ PagesRight(s)
    BY DEF Clean, Sheet, Sound
  <2>2. PICK r : r = LoadHead(s)
    OBVIOUS
  <2>3. s.head \in Page /\ (Used(s, s.head) \in 0 .. Length => r.vga = Paged(s, s.head, Empty))
    BY <1>4, <2>1, <2>2, LoadHeadIs
  <2>4. s.left[s.head] \in 0 .. Length /\ Length \in Nat
    <3>1. s.head \in 1 .. s.pages
      BY <2>1, <2>3 DEF PagesRight, Page
    <3> QED
      BY <2>1, <3>1, CellIs DEF PagesRight
  <2>5. Used(s, s.head) \in 0 .. Length
    BY <2>4 DEF Used
  <2>6. ASSUME NEW i \in 0 .. Used(s, s.head) - 1 PROVE s.page[s.head][i] = r.vga[i]
    <3>1. i \in 0 .. Length - 1 /\ i < Used(s, s.head)
      BY <2>4, <2>5
    <3> QED
      BY <2>3, <2>5, <3>1 DEF Paged, Cell
  <2>7. Same(r)
    BY <1>1, <2>2, <2>6 DEF Same, At, Used
  <2> QED
    BY <1>2, <2>2, <2>7 DEF At
<1> QED
  BY <1>3, <1>4

\* The arrows.
LEMMA MoveFit ==
  ASSUME NEW s, Clean(s), ~s.stopped, Fit(s), NEW m \in Directions(s), NEW r, r = Move(s, m),
         Upto(r, Pos(r))
  PROVE  Fit(r)
<1>1. Steps(s, r) /\ s \in State /\ r \in State
  BY MoveSteps, MoveClean DEF Clean, Sheet
<1>2. Pos(s) \in Nat /\ Pos(r) \in Nat
  BY <1>1, PosIs
<1>3. PICK n \in Nat : n <= Pos(s) /\ n <= Pos(r) /\ (n = Pos(s) \/ n = Pos(r))
  BY <1>2
<1>4. Upto(s, n)
  <2>1. Upto(s, Pos(s)) /\ Upto(s, Pos(r))
    BY <1>1 DEF Fit, Upto, Kept, Used, Steps
  <2> QED
    BY <1>3, <2>1
<1>5. \A i \in Cell : i < n => r.vga[i] = s.vga[i]
  <2>1. \A i \in Cell : i < n => i # Pos(s) /\ i # Pos(r)
    BY <1>2, <1>3, CellIs
  <2> QED
    BY <1>1, <2>1 DEF Steps
<1>6. Holds(s, r) /\ Same(s)
  BY <1>1 DEF Holds, Steps, Fit
<1>7. Same(r)
  BY <1>1, <1>4, <1>5, <1>6, SameOn
<1> QED
  BY <1>7 DEF Fit

\* terminal_put_char.
LEMMA PutCharFit ==
  ASSUME NEW s, Clean(s), ~s.stopped, Fit(s), NEW ch \in Printable, NEW r, r = PutChar(s, ch),
         Upto(r, Pos(r)), ~r.stopped
  PROVE  Same(r)
<1>1. PICK a : a = At(s)
  OBVIOUS
<1>2. /\ Clean(a) /\ ~a.stopped /\ a.buffer = Screen /\ Same(a) /\ Upto(a, Pos(a))
      /\ a \in State /\ a.row < Height /\ a.column < Width /\ Pos(a) \in Cell
      /\ s \in State /\ Listed(s)
  <2>1. Clean(a) /\ ~a.stopped /\ a.buffer = Screen
    BY <1>1, AtClean
  <2>2. Same(a) /\ Upto(a, Pos(a))
    BY <1>1, AtFit
  <2>3. a \in State /\ a.row < Height /\ a.column < Width
    BY <2>1 DEF Clean, Sheet
  <2> QED
    BY <2>1, <2>2, <2>3, PosIs DEF Clean, Sheet
<1>3. PICK m : m = Right(a)
  OBVIOUS
<1>4. PICK u : u = Advanced(s)
  OBVIOUS
<1>5. /\ Clean(u) /\ ~u.stopped /\ u.buffer = Screen /\ Steps(a, u)
      /\ u.row = m.to.row /\ u.column = m.to.column /\ Pos(u) = Pos(m.to)
  BY <1>1, <1>3, <1>4, AdvancedClean
<1>6. /\ m.res \in {0, 1} => Pos(u) = Pos(a) + 1
      /\ m.res = 1 => u.row * Width = Pos(a) + 1
      /\ m.res = 2 => Pos(u) = 0
      /\ m.res \in 0 .. 2
  BY <1>2, <1>3, <1>5, RightIs
<1>7. ch \in Glyph /\ ch # Cursor /\ Pos(a) \in Nat
  BY <1>2, Constants, CellIs
<1>8. CASE m.res = 2
  <2>1. PICK v : v = Save(u)
    OBVIOUS
  <2>2. Clean(v) /\ v.buffer = Screen /\ v.row = u.row /\ v.column = u.column
    BY <1>5, <2>1, SaveClean
  <2>3. PICK w : w = ClearRow(v)
    OBVIOUS
  <2>4. Clean(w) /\ Stays(v, w)
    BY <2>2, <2>3, ClearRowClean
  <2>5. Scrolled(s) = v /\ Cleared(s) = w
    BY <1>1, <1>3, <1>4, <1>8, <2>1, <2>3 DEF Scrolled, Cleared
  <2>6. r = SetChar(w, Pos(a), ch)
    BY <1>1, <1>2, <2>5, PutCharIs
  <2>7. Clean(r) /\ Stays(w, r)
    BY <1>2, <1>7, <2>2, <2>4, <2>6, SetCharClean DEF Stays
  <2>8. Pos(r) = 0 /\ r \in State
    BY <1>6, <1>8, <2>2, <2>4, <2>7 DEF Pos, Stays, Clean, Sheet
  <2> QED
    BY <2>8, SameNone
<1>9. CASE m.res # 2
  <2>1. Pos(u) = Pos(a) + 1 /\ (m.res = 1 => u.row * Width = Pos(a) + 1)
    BY <1>6, <1>9
  <2>2. Scrolled(s) = u
    BY <1>1, <1>3, <1>4, <1>9 DEF Scrolled
  <2>3. PICK w : w = Cleared(s)
    OBVIOUS
  <2>4. /\ Clean(w) /\ Stays(u, w)
        /\ \A i \in Cell : i < Pos(a) => w.vga[i] = u.vga[i]
    <3>1. CASE m.res = 1
      <4>1. w = ClearRow(u)
        BY <1>1, <1>3, <2>2, <2>3, <3>1 DEF Cleared
      <4>2. \A i \in Cell : i < Pos(a) => i < u.row * Width
        BY <1>7, <2>1, <3>1, CellIs
      <4> QED
        BY <1>5, <4>1, <4>2, ClearRowClean
    <3>2. CASE m.res = 0
      <4>1. w = u
        BY <1>1, <1>3, <2>2, <2>3, <3>2 DEF Cleared
      <4> QED
        BY <1>5, <4>1 DEF Stays
    <3> QED
      BY <1>6, <1>9, <3>1, <3>2
  <2>5. r = SetChar(w, Pos(a), ch)
    BY <1>1, <1>2, <1>5, <2>2, <2>3, PutCharIs
  <2>6. w.buffer = Screen
    BY <1>5, <2>4 DEF Stays
  <2>7. Stays(w, r) /\ \A j \in Cell : j # Pos(a) => r.vga[j] = w.vga[j]
    BY <1>2, <1>7, <2>4, <2>5, <2>6, SetCharClean
  <2>8. \A i \in Cell : i < Pos(a) => r.vga[i] = a.vga[i]
    <3>1. \A i \in Cell : i < Pos(a) => i # Pos(a) /\ i # Pos(u)
      BY <1>7, <2>1, CellIs
    <3> QED
      BY <1>5, <2>4, <2>7, <3>1 DEF Steps
  <2>9. Holds(a, r)
    BY <1>5, <2>4, <2>7 DEF Holds, Steps, Stays
  <2> QED
    BY <1>2, <1>7, <2>8, <2>9, SameOn
<1> QED
  BY <1>8, <1>9

\* One cell to the left.
LEMMA LeftIs ==
  ASSUME NEW s \in State, s.row < Height, s.column < Width, NEW m, m = Left(s), Pos(s) > 0
  PROVE  Pos(m.to) = Pos(s) - 1
<1>1. PICK row \in Nat, column \in Nat : row = s.row /\ column = s.column
  BY Fields
<1>2. Width \in Nat /\ Width > 2 /\ Height \in Nat
  BY TerminalAssumption
<1>3. /\ Pos(s) = row * Width + column /\ (row = 0 /\ column = 0 => Pos(s) = 0)
      /\ column = 0 => Pos(s) = row * Width
  BY <1>1, PosAt
<1>4. CASE column > 0
  <2>1. m.to = [s EXCEPT !.column = column - 1]
    BY <1>1, <1>4 DEF Left
  <2>2. Puts(s, m.to, row, column - 1) /\ column - 1 \in Nat
    BY <1>1, <1>4, <2>1 DEF Puts
  <2>3. m.to.row = row /\ m.to.column = column - 1
    BY <1>1, <2>2, PlacedType
  <2>4. Pos(m.to) = row * Width + (column - 1) /\ row * Width \in Nat
    BY <2>2, <2>3, PosAt
  <2> QED
    BY <1>3, <2>4
<1>5. CASE ~(column > 0)
  <2>1. column = 0 /\ row > 0 /\ row - 1 \in Nat /\ Width - 1 \in Nat
    BY <1>2, <1>3, <1>5
  <2>2. m.to = [s EXCEPT !.column = Width - 1, !.row = row - 1]
    BY <1>1, <2>1 DEF Left
  <2>3. Puts(s, m.to, row - 1, Width - 1)
    BY <2>2 DEF Puts
  <2>4. m.to.row = row - 1 /\ m.to.column = Width - 1
    BY <1>1, <2>1, <2>3, PlacedType
  <2>5. PICK up \in Nat : up = row - 1
    BY <2>1
  <2>6. /\ Pos(m.to) = up * Width + (Width - 1) /\ up * Width \in Nat
        /\ (up + 1) * Width = up * Width + Width
    BY <2>1, <2>4, <2>5, PosAt
  <2>7. row = up + 1 /\ Pos(s) = (up + 1) * Width
    <3>1. row = up + 1
      BY <2>5
    <3>2. Pos(s) = row * Width
      BY <1>3, <2>1
    <3> QED
      BY <3>1, <3>2
  <2> QED
    BY <1>2, <2>6, <2>7
<1> QED
  BY <1>4, <1>5

\* terminal_delete_one.
LEMMA DeleteOneFit ==
  ASSUME NEW s, Clean(s), ~s.stopped, Fit(s), NEW r, r = DeleteOne(s), Upto(r, Pos(r))
  PROVE  Same(r)
<1>1. PICK a : a = At(s)
  OBVIOUS
<1>2. /\ Clean(a) /\ ~a.stopped /\ a.buffer = Screen /\ Same(a) /\ Upto(a, Pos(a))
      /\ a \in State /\ a.row < Height /\ a.column < Width /\ Pos(a) \in Cell
      /\ s \in State /\ Listed(s)
  <2>1. Clean(a) /\ ~a.stopped /\ a.buffer = Screen
    BY <1>1, AtClean
  <2>2. Same(a) /\ Upto(a, Pos(a))
    BY <1>1, AtFit
  <2>3. a \in State /\ a.row < Height /\ a.column < Width
    BY <2>1 DEF Clean, Sheet
  <2> QED
    BY <2>1, <2>2, <2>3, PosIs DEF Clean, Sheet
<1>3. PICK x \in Nat : x = Pos(a)
  BY <1>2, CellIs
<1>4. x - 1 \in Cell \cup {-1}
  <2>1. x < Length /\ Length \in Nat
    BY <1>2, <1>3, CellIs
  <2>2. x - 1 \in 0 .. Length - 1 \/ x - 1 = -1
    BY <2>1
  <2> QED
    BY <2>2 DEF Cell
<1>5. PICK w : w = Wiped(s)
  OBVIOUS
<1>6. w = SetChar(a, x - 1, Blank)
  BY <1>1, <1>3, <1>5 DEF Wiped
<1>7. Clean(w) /\ Stays(a, w) /\ \A j \in Cell : j # x - 1 => w.vga[j] = a.vga[j]
  BY <1>2, <1>4, <1>6, Constants, SetCharClean
<1>8. w.buffer = Screen /\ ~w.stopped /\ Pos(w) = x
  BY <1>2, <1>3, <1>7 DEF Stays, Pos
<1>9. PICK m \in Directions(w) : m = Left(w)
  BY DEF Directions
<1>10. r = Move(w, m)
  BY <1>2, <1>5, <1>9, DeleteOneIs
<1>11. Steps(w, r) /\ r.row = m.to.row /\ r.column = m.to.column /\ Clean(r)
  BY <1>7, <1>8, <1>10, MoveSteps, MoveClean
<1>12. Pos(r) = Pos(m.to) /\ r \in State
  BY <1>11 DEF Pos, Clean, Sheet
<1>13. Holds(a, r)
  BY <1>7, <1>11 DEF Holds, Stays, Steps
<1>14. CASE x = 0
  <2>1. Upto(r, 0)
    BY <1>2, <1>3, <1>13, <1>14 DEF Upto, Kept, Used, Holds
  <2> QED
    BY <1>12, <2>1, SameNone
<1>15. CASE x # 0
  <2>1. Pos(r) = x - 1 /\ x - 1 \in Int
    <3>1. Pos(w) > 0 /\ w \in State /\ w.row < Height /\ w.column < Width
      BY <1>3, <1>7, <1>8, <1>15 DEF Clean, Sheet
    <3> QED
      BY <1>8, <1>9, <1>12, <3>1, LeftIs
  <2>2. Upto(a, x - 1)
    BY <1>13, <2>1 DEF Upto, Kept, Used, Holds
  <2>3. \A i \in Cell : i < x - 1 => r.vga[i] = a.vga[i]
    <3>1. \A i \in Cell : i < x - 1 => i # x - 1 /\ i # x
      BY <1>3, CellIs
    <3> QED
      BY <1>7, <1>8, <1>11, <2>1, <3>1 DEF Steps
  <2> QED
    BY <1>2, <1>13, <2>1, <2>2, <2>3, SameOn
<1> QED
  BY <1>14, <1>15

\* terminal_next_line.
LEMMA NextLineFit ==
  ASSUME NEW s, Clean(s), ~s.stopped, Fit(s), NEW r, r = NextLine(s), ~r.stopped
  PROVE  Same(r)
<1>1. PICK a, d, n : a = At(s) /\ d = LineBelow(s) /\ n = NewLineOf(s)
  OBVIOUS
<1>2. Same(a) /\ Upto(a, Pos(s)) /\ a.buffer = Screen /\ a \in State
      /\ a.head = s.head /\ a.left = s.left /\ a.page = s.page
  BY <1>1, AtClean, AtFit DEF Clean, Sheet
<1>3. /\ d \in State /\ Listed(d) /\ Sound(d) /\ ~d.stopped /\ d.buffer = Screen
      /\ NoCursor(d) /\ d.row = s.row + 1 /\ d.row <= Height
      /\ Pos(d) = d.row * Width /\ Pos(d) <= Length /\ Pos(s) < Pos(d)
      /\ d.head = s.head /\ d.cur = a.cur /\ d.left = s.left /\ d.page = s.page
      /\ \A i \in Cell : i # Pos(s) => d.vga[i] = a.vga[i]
  BY <1>1, DownClean
<1>4. Pos(s) \in Nat /\ Pos(d) \in Nat /\ d.row \in Nat /\ Height \in Nat /\ Length \in Nat
      /\ Length = Height * Width
  <2>1. s \in State
    BY DEF Clean, Sheet
  <2> QED
    BY <1>3, <2>1, PosIs, Fields, CellIs, Grid, TerminalAssumption DEF Length
<1>5. Clean(n) /\ n.buffer = Screen /\ n.column = 0
  BY <1>1, NewLineClean
<1>6. ~n.stopped /\ r = Prompt(PutChar(PutChar(ClearRow(n), ">"), ">"))
  BY <1>1, NextLineIs
<1>7. /\ Clean(r) /\ r.buffer = Screen
      /\ r.head = n.head /\ r.cur = n.cur /\ r.left = n.left /\ r.page = n.page
      /\ \A i \in Cell : i < n.row * Width => r.vga[i] = n.vga[i]
  BY <1>5, <1>6, PromptedClean
<1>8. CASE d.row >= Height
  <2>1. PICK u : u = Save(d)
    OBVIOUS
  <2>2. Saved(d, u) /\ (~u.stopped => SavedTo(d, u))
    BY <1>3, <2>1, SaveOn DEF NoCursor, CursorAt
  <2>3. n = RowTo(u, 0)
    BY <1>1, <1>8, <2>1 DEF NewLineOf, RowTo
  <2>4. Moves(u, n)
    BY <2>2, <2>3, RowIs DEF Saved
  <2>5. SavedTo(d, u) /\ u \in State
    BY <1>6, <2>2, <2>4 DEF Moves, Saved
  <2>6. Pos(d) = Length
    <3>1. d.row = Height
      BY <1>3, <1>4, <1>8
    <3> QED
      BY <1>3, <1>4, <3>1
  <2>7. u.left[u.head] <= 0
    <3>1. u.left[u.head] \in 0 .. Length /\ Used(u, u.head) = Length - u.left[u.head]
      BY <2>5 DEF SavedTo, Used
    <3>2. CASE Had(d) < Pos(d)
      <4>1. Used(u, u.head) = Length
        BY <2>5, <2>6, <3>2 DEF SavedTo
      <4> QED
        BY <1>4, <3>1, <4>1
    <3>3. CASE ~(Had(d) < Pos(d))
      <4>1. Used(u, u.head) = Had(d)
        BY <2>5, <3>3 DEF SavedTo
      <4>2. Kept(d) => d.left[d.head] \in Int /\ d.left[d.head] > 0
        <5>1. Kept(d) => d.head \in Page
          BY <1>3, Fields, Constants DEF Kept, NULL
        <5> QED
          BY <1>3, <5>1, Fields DEF Kept
      <4>3. Had(d) \in Int /\ (Kept(d) => Had(d) < Length)
        BY <1>4, <4>2 DEF Had, Used
      <4>4. ~Kept(d)
        BY <1>4, <2>6, <3>3, <4>3
      <4>5. Had(d) = 0 /\ Length = 0
        BY <1>4, <2>6, <3>3, <4>4 DEF Had
      <4> QED
        BY <3>1, <4>5
    <3> QED
      BY <3>2, <3>3
  <2>8. r.head = u.head /\ r.left = u.left
    BY <1>7, <2>4 DEF Moves
  <2>9. u.left[u.head] \in Int
    BY <1>4, <2>5 DEF SavedTo
  <2>10. ~Kept(r)
    BY <2>7, <2>8, <2>9 DEF Kept
  <2> QED
    BY <2>10 DEF Same
<1>9. CASE ~(d.row >= Height)
  <2>1. n = d
    BY <1>1, <1>9 DEF NewLineOf
  <2>2. \A i \in Cell : i < Pos(s) => r.vga[i] = a.vga[i]
    <3>1. \A i \in Cell : i < Pos(s) => i # Pos(s) /\ i < d.row * Width
      BY <1>3, <1>4, CellIs
    <3> QED
      BY <1>3, <1>7, <2>1, <3>1
  <2>3. Holds(a, r)
    BY <1>2, <1>3, <1>7, <2>1 DEF Holds
  <2> QED
    BY <1>2, <1>4, <2>2, <2>3, SameOn
<1> QED
  BY <1>8, <1>9

\* A character.
LEMMA PutFit ==
  ASSUME NEW s, Clean(s), Fit(s), NEW ch \in Printable, NEW r, r = Put(s, ch), Upto(r, Pos(r))
  PROVE  Fit(r)
<1>1. CASE s.stopped
  BY <1>1 DEF Put
<1>2. CASE ~s.stopped /\ ch = "newline"
  <2>1. r = NextLine(s)
    BY <1>2 DEF Put
  <2> QED
    BY <1>2, <2>1, NextLineFit DEF Fit
<1>3. CASE ~s.stopped /\ ch = "backspace"
  <2>1. r = DeleteOne(s)
    BY <1>3 DEF Put
  <2> QED
    BY <1>3, <2>1, DeleteOneFit DEF Fit
<1>4. CASE ~s.stopped /\ ch # "newline" /\ ch # "backspace"
  <2>1. r = PutChar(s, ch)
    BY <1>4 DEF Put
  <2> QED
    BY <1>4, <2>1, PutCharFit DEF Fit
<1> QED
  BY <1>1, <1>2, <1>3, <1>4

\* A string that a handler prints, which does not go back over what the head page has.
LEMMA PutStringFit ==
  ASSUME NEW s, Clean(s), Fit(s), NEW chars \in Seq(Printable),
         \A n \in 1 .. Len(chars) : Upto(PutString(s, chars)[n], Pos(PutString(s, chars)[n])),
         NEW n \in 0 .. Len(chars)
  PROVE  Fit(PutString(s, chars)[n])
<1> DEFINE S == {m \in Nat : m <= Len(chars) => Fit(PutString(s, chars)[m])}
<1>1. Len(chars) \in Nat /\ \A m \in 1 .. Len(chars) : chars[m] \in Printable
  OBVIOUS
<1>2. 0 \in S
  BY <1>1, PutStringIs
<1>3. ASSUME NEW m \in Nat, m \in S
      PROVE  m + 1 \in S
  <2>1. SUFFICES ASSUME m + 1 <= Len(chars)
                 PROVE  Fit(PutString(s, chars)[m + 1])
    OBVIOUS
  <2>2. m + 1 \in 1 .. Len(chars) /\ (m + 1) - 1 = m /\ m <= Len(chars) /\ m \in 0 .. Len(chars)
    BY <1>1, <2>1
  <2>3. PICK u, r : u = PutString(s, chars)[m] /\ r = PutString(s, chars)[m + 1]
    OBVIOUS
  <2>4. r = Put(u, chars[m + 1])
    BY <1>1, <2>2, <2>3, PutStringIs
  <2>5. Fit(u)
    BY <1>3, <2>2, <2>3
  <2>6. Clean(u)
    BY <2>2, <2>3, PutStringTends DEF Tends
  <2>7. Upto(r, Pos(r))
    BY <2>2, <2>3
  <2>8. Fit(r)
    BY <1>1, <2>2, <2>4, <2>5, <2>6, <2>7, PutFit
  <2> QED
    BY <2>3, <2>8
<1>4. Nat \subseteq S
  <2> HIDE DEF S
  <2> QED
    BY <1>2, <1>3, NatSetInduction
<1> QED
  BY <1>1, <1>4

\* A key.
LEMMA PressedFit ==
  ASSUME NEW s, Clean(s), ~s.stopped, Fit(s), NEW key, NEW r, r = Pressed(s, key), Upto(r, Pos(r))
  PROVE  Fit(r)
<1>1. CASE r = LoadPrev(s)
  <2>1. r = s \/ r.stopped \/ Departs(s, r) \/ Leafs(s, r)
    BY <1>1, LoadPrevClean
  <2>2. Departs(s, r) \/ Leafs(s, r) => Same(r)
    BY DEF Departs, Leafs, Same
  <2> QED
    BY <2>1, <2>2 DEF Fit
<1>2. CASE r = LoadNext(s)
  <2>1. CASE r = s
    BY <2>1
  <2>2. CASE r # s
    <3>1. Forwards(s, r)
      BY <1>2, <2>2, LoadNextClean
    <3>2. CASE r.cur = s.head
      <4>1. ASSUME Kept(r), NEW i \in 0 .. Used(r, r.head) - 1
            PROVE  i \in Cell /\ i < Used(r, r.head)
        <5>1. r \in State
          BY <3>1 DEF Forwards, Clean, Sheet
        <5>2. r.head \in Page /\ r.left[r.head] \in Int /\ Length \in Nat
          BY <4>1, <5>1, Fields, Constants, CellIs DEF Kept, NULL
        <5>3. r.left[r.head] > 0 /\ Used(r, r.head) = Length - r.left[r.head]
          BY <4>1 DEF Kept, Used
        <5>4. i \in 0 .. Length - 1 /\ i < Used(r, r.head)
          BY <4>1, <5>2, <5>3
        <5> QED
          BY <5>4 DEF Cell
      <4>2. /\ r.head = s.head /\ r.page = s.page /\ Used(s, r.cur) = Used(r, r.head)
            /\ \A i \in Cell : i < Used(s, r.cur) => r.vga[i] = s.page[r.cur][i]
        BY <3>1, <3>2 DEF Forwards, Used
      <4>3. Same(r)
        BY <3>2, <4>1, <4>2 DEF Same
      <4> QED
        BY <4>3 DEF Fit
    <3>3. CASE r.cur # s.head
      BY <3>1, <3>3 DEF Fit, Same, Forwards
    <3> QED
      BY <3>2, <3>3
  <2> QED
    BY <2>1, <2>2
<1>3. ASSUME NEW m \in Directions(s), r = Move(s, m)
      PROVE  Fit(r)
  BY <1>3, MoveFit
<1>4. ASSUME NEW ch \in Printable, r = Put(s, ch)
      PROVE  Fit(r)
  BY <1>4, PutFit
<1> QED
  BY <1>1, <1>2, <1>3, <1>4, PressedIs

\* Between two characters.
LEMMA FitBetween ==
  ASSUME NEW s, NEW l, Between(l)
  PROVE  Safe(s, l) <=> Fit(s)
BY DEF Between, Safe, Fit, Wrapped

\* A cursor that has not gone back.
LEMMA RewindIs ==
  ASSUME NEW s \in State, NEW l, Between(l), ~Rewinds(s, l)
  PROVE  Upto(s, Pos(s))
<1>1. ASSUME Kept(s) PROVE Used(s, s.head) <= Pos(s)
  <2>1. s.head \in Page /\ s.left[s.head] \in Int /\ Length \in Nat /\ Pos(s) \in Nat
    BY <1>1, Fields, Constants, CellIs, PosIs DEF Kept, NULL
  <2>2. ~(Pos(s) < Used(s, s.head)) /\ Used(s, s.head) \in Int
    BY <1>1, <2>1 DEF Rewinds, Kept, Used
  <2> QED
    BY <2>1, <2>2
<1> QED
  BY <1>1 DEF Upto

\* Where a step of the kernel ends.
LEMMA ToIs ==
  ASSUME NEW s, NEW l, To(s, l), ~rewound'
  PROVE  ~rewound /\ ~Rewinds(s, l) /\ t' = s /\ k' = l
BY DEF To

\* Between two characters the text that is saved stays where it is.
LEMMA CharacterSafe ==
  ASSUME Base(t, k), Neat(t, k), Safe(t, k), Printk \/ Begin \/ EndPrompt, ~rewound'
  PROVE  Safe(t, k)'
<1>1. k \in Progress /\ TodoRight(k) /\ Between(k) /\ ~t.stopped /\ t \in State
  BY DEF Base, Printk, Begin, EndPrompt, Kernel, Between
<1>2. Clean(t) /\ (t.buffer # Screen => NoCursor(t) \/ Promptless(k.todo)) /\ Fit(t)
  BY <1>1, CleanBetween, FitBetween DEF Neat, Outside
<1>3. CASE Printk
  <2>1. PICK item \in Items : To(t, Rest(Printed(item)))
    BY <1>3 DEF Printk
  <2>2. Printed(item) \in Todos
    <3>1. Printed(item) \in Seq(Printable \ {"backspace", "prompt"})
      BY PrintsAssumption
    <3> HIDE DEF Printed
    <3> QED
      BY <3>1 DEF Todos
  <2>3. Between(Rest(Printed(item)))
    BY <2>2, RestIs
  <2>4. Safe(t, Rest(Printed(item)))
    BY <1>2, <2>3, FitBetween
  <2> QED
    BY <2>1, <2>4, ToIs
<1>4. CASE Begin
  <2>1. PICK pc \in {"erase", "index"} : pc = IF NewLine THEN "erase" ELSE "index"
    OBVIOUS
  <2>2. PICK s : s = At(t)
    OBVIOUS
  <2>3. To(s, Goto(pc))
    BY <1>4, <2>1, <2>2 DEF Begin, At
  <2>4. Goto(pc).pc = pc
    BY <1>1, <2>1, GotoIs DEF Places
  <2>5. Same(s) /\ Upto(s, Pos(s))
    BY <1>1, <1>2, <2>2, AtFit
  <2>6. Safe(s, Goto(pc))
    BY <2>1, <2>4, <2>5 DEF Safe, Between
  <2> QED
    BY <2>3, <2>6, ToIs
<1>5. CASE EndPrompt
  <2>1. To(Prompt(t), Rest(Tail(k.todo))) /\ k.pc = "put" /\ Char = "prompt"
    BY <1>5 DEF EndPrompt, Kernel
  <2>2. Tail(k.todo) \in Todos
    BY <1>1, <2>1, TodoIs
  <2>3. Between(Rest(Tail(k.todo)))
    BY <2>2, RestIs
  <2>4. PICK s : s = Prompt(t)
    OBVIOUS
  <2>5. Pos(t) \in Cell /\ Pos(t) \in Int /\ t.vga \in [Cell -> Glyph]
    BY <1>1, <1>2, PosIs, CellIs, Fields DEF Clean, Sheet
  <2>6. s \in State /\ OnScreen(t, s) /\ s.vga = [t.vga EXCEPT ![Pos(t)] = Cursor]
    BY <1>1, <2>4, <2>5, PromptIs
  <2>7. Holds(t, s) /\ Pos(s) = Pos(t)
    BY <2>6 DEF Holds, OnScreen, Pos
  <2>8. \A i \in Cell : i < Pos(t) => s.vga[i] = t.vga[i]
    BY <2>5, <2>6, CellIs
  <2>9. Fit(s)
    BY <1>1, <1>2, <2>5, <2>7, <2>8, SameOn DEF Fit
  <2>10. Safe(s, Rest(Tail(k.todo)))
    BY <2>3, <2>9, FitBetween
  <2> QED
    BY <2>1, <2>4, <2>10, ToIs
<1> QED
  BY <1>3, <1>4, <1>5

\* A step that moves the cursor alone.
LEMMA SameMoved ==
  ASSUME NEW s \in State, NEW r, Moves(s, r)
  PROVE  /\ Same(s) => Same(r)
         /\ \A n : Upto(s, n) => Upto(r, n)
BY DEF Same, Upto, Kept, Used, Moves

\* The steps of terminal_move_, to the right.
LEMMA AdvanceSafe ==
  ASSUME Base(t, k), Neat(t, k), Safe(t, k),
         TakeIndex \/ FetchColumn \/ StoreColumn \/ TestColumn \/ StoreRow \/ TestRow \/ Draw,
         ~rewound'
  PROVE  Safe(t, k)'
<1>1. ~t.stopped /\ k.pc \in {"index", "fetch", "column", "edge", "row", "foot", "draw"}
  BY DEF TakeIndex, FetchColumn, StoreColumn, TestColumn, StoreRow, TestRow, Draw, Kernel
<1>2. Middle(k.pc) /\ Width \in Nat /\ Width > 2 /\ Height \in Nat \ {0}
  BY <1>1, MiddleIs, TerminalAssumption DEF Between
<1>3. /\ t \in State /\ k \in Progress /\ t.buffer = Screen /\ Inside(t, k) /\ Sound(t)
      /\ t.row \in Nat /\ t.column \in Nat /\ k.reg \in Nat /\ k.res \in 0 .. 2 /\ Placed(t, k)
      /\ Listed(t) /\ Same(t) /\ ~Between(k)
  BY <1>1, <1>2 DEF Middle, Progress, Safe, Wrapped
<1>4. CASE TakeIndex
  <2>1. PICK l : l = [Goto("fetch") EXCEPT !.idx = Pos(t)]
    OBVIOUS
  <2>2. To(t, l) /\ k.pc = "index"
    BY <1>3, <1>4, <2>1 DEF TakeIndex, Kernel, Spend
  <2>3. l.pc = "fetch"
    BY <1>3, <2>1 DEF Goto, Progress
  <2>4. Safe(t, l)
    BY <1>1, <1>3, <2>2, <2>3 DEF Safe, Between
  <2> QED
    BY <2>2, <2>4, ToIs
<1>5. CASE FetchColumn
  <2>1. PICK l : l = [Goto("column") EXCEPT !.last = Pos(t), !.reg = t.column]
    OBVIOUS
  <2>2. To(t, l) /\ k.pc = "fetch"
    BY <1>5, <2>1 DEF FetchColumn, Kernel
  <2>3. l.pc = "column" /\ l.last = Pos(t)
    BY <1>3, <2>1 DEF Goto, Progress
  <2>4. Safe(t, l)
    BY <1>1, <1>3, <2>2, <2>3 DEF Safe, Between
  <2> QED
    BY <2>2, <2>4, ToIs
<1>6. ASSUME NEW pc \in {"edge", "row", "foot", "draw"}, NEW s, NEW l, Moves(t, s), To(s, l),
             l.pc = pc, l.last = k.last, k.pc \in {"column", "edge", "row", "foot"}
      PROVE  Safe(t, k)'
  <2>1. Upto(t, k.last)
    BY <1>1, <1>6 DEF Safe
  <2>2. Safe(s, l)
    BY <1>3, <1>6, <2>1, SameMoved DEF Safe, Between
  <2> QED
    BY <1>6, <2>2, ToIs
<1>7. CASE StoreColumn
  <2>1. PICK s : s = [t EXCEPT !.column = k.reg + 1]
    OBVIOUS
  <2>2. To(s, Goto("edge")) /\ k.pc = "column"
    BY <1>7, <2>1 DEF StoreColumn, Kernel
  <2>3. Puts(t, s, t.row, k.reg + 1)
    BY <2>1 DEF Puts
  <2>4. Moves(t, s)
    BY <1>3, <2>3, PlacedType
  <2>5. Goto("edge").pc = "edge" /\ Goto("edge").last = k.last
    BY <1>3, GotoIs DEF Places
  <2> QED
    BY <1>6, <2>2, <2>4, <2>5
<1>8. Moves(t, t)
  BY <1>3 DEF Moves
<1>9. CASE TestColumn
  <2>1. k.pc = "edge"
    BY <1>9 DEF TestColumn, Kernel
  <2>2. CASE AtEdge(t)
    <3>1. PICK s, l : s = [t EXCEPT !.column = 0] /\ l = [Goto("row") EXCEPT !.reg = t.row]
      OBVIOUS
    <3>2. To(s, l)
      BY <1>9, <2>2, <3>1 DEF TestColumn
    <3>3. Puts(t, s, t.row, 0)
      BY <3>1 DEF Puts
    <3>4. Moves(t, s)
      BY <1>3, <3>3, PlacedType
    <3>5. l.pc = "row" /\ l.last = k.last
      BY <1>3, <3>1 DEF Goto, Progress
    <3> QED
      BY <1>6, <2>1, <3>2, <3>4, <3>5
  <2>3. CASE ~AtEdge(t)
    <3>1. PICK l : l = DrawAt(0)
      OBVIOUS
    <3>2. To(t, l)
      BY <1>9, <2>3, <3>1 DEF TestColumn, DrawAt
    <3>3. l.pc = "draw" /\ l.last = k.last
      BY <1>3, <3>1, DrawAtIs DEF OnAt
    <3> QED
      BY <1>6, <1>8, <2>1, <3>2, <3>3
  <2> QED
    BY <2>2, <2>3
<1>10. CASE StoreRow
  <2>1. PICK s : s = [t EXCEPT !.row = k.reg + 1]
    OBVIOUS
  <2>2. To(s, Goto("foot")) /\ k.pc = "row"
    BY <1>10, <2>1 DEF StoreRow, Kernel
  <2>3. Puts(t, s, k.reg + 1, t.column)
    BY <2>1 DEF Puts
  <2>4. Moves(t, s)
    BY <1>3, <2>3, PlacedType
  <2>5. Goto("foot").pc = "foot" /\ Goto("foot").last = k.last
    BY <1>3, GotoIs DEF Places
  <2> QED
    BY <1>6, <2>2, <2>4, <2>5
<1>11. CASE TestRow
  <2>1. k.pc = "foot"
    BY <1>11 DEF TestRow, Kernel
  <2>2. CASE AtFoot(t)
    <3>1. PICK s, l : s = [t EXCEPT !.row = 0] /\ l = DrawAt(2)
      OBVIOUS
    <3>2. To(s, l)
      BY <1>11, <2>2, <3>1 DEF TestRow, DrawAt
    <3>3. Puts(t, s, 0, t.column)
      BY <3>1 DEF Puts
    <3>4. Moves(t, s)
      BY <1>3, <3>3, PlacedType
    <3>5. l.pc = "draw" /\ l.last = k.last
      BY <1>3, <3>1, DrawAtIs DEF OnAt
    <3> QED
      BY <1>6, <2>1, <3>2, <3>4, <3>5
  <2>3. CASE ~AtFoot(t)
    <3>1. PICK l : l = DrawAt(1)
      OBVIOUS
    <3>2. To(t, l)
      BY <1>11, <2>3, <3>1 DEF TestRow, DrawAt
    <3>3. l.pc = "draw" /\ l.last = k.last
      BY <1>3, <3>1, DrawAtIs DEF OnAt
    <3> QED
      BY <1>6, <1>8, <2>1, <3>2, <3>3
  <2> QED
    BY <2>2, <2>3
<1>12. CASE Draw
  <2>1. PICK s, pc : s = DrawCursor(t, k.last) /\ pc = After(k.res)
    OBVIOUS
  <2>2. To(s, Goto(pc)) /\ k.pc = "draw"
    BY <1>12, <2>1 DEF Draw, Kernel
  <2>3. pc = IF k.res = 0 THEN "char" ELSE IF k.res = 1 THEN "clear" ELSE "choose"
    BY <1>3, <2>1 DEF After
  <2>4. OnAt(Goto(pc), pc) /\ Goto(pc).res = k.res /\ Goto(pc).idx = k.idx
    BY <1>3, <2>3, GotoIs DEF OnAt, Places
  <2>5. k.idx = k.last /\ k.idx \in Cell /\ Wraps(t, k)
    BY <1>1, <1>3, <2>2 DEF Inside
  <2>6. t.row < Height /\ t.column < Width
    BY <1>3, <2>2 DEF Placed, OverEdge, OverFoot
  <2>7. Pos(t) \in Cell /\ Pos(t) \in Nat /\ k.last \in Nat /\ k.last \in Int
    BY <1>3, <2>5, <2>6, PosIs, CellIs
  <2>8. /\ Rewrites(t, s)
        /\ \A i \in Cell : i # k.last /\ i # Pos(t) => s.vga[i] = t.vga[i]
    BY <1>3, <2>1, <2>5, <2>7, DrawOn
  <2>9. Head(Goto(pc).todo) # "newline"
    BY <1>2, <2>2, <2>4 DEF Middle, TodoRight, Chars, OnAt
  <2>10. CASE k.res = 2
    <3>1. Safe(s, Goto(pc))
      BY <2>3, <2>4, <2>9, <2>10 DEF Safe, Wrapped, OnAt, Between
    <3> QED
      BY <2>2, <3>1, ToIs
  <2>11. CASE k.res # 2
    <3>1. Pos(t) = k.last + 1
      BY <2>5, <2>11 DEF Wraps, Over, Beyond
    <3>2. \A i \in Cell : i < k.last => s.vga[i] = t.vga[i]
      <4>1. \A i \in Cell : i < k.last => i # k.last /\ i # Pos(t)
        BY <2>7, <3>1, CellIs
      <4> QED
        BY <2>8, <4>1
    <3>3. Holds(t, s)
      BY <2>8 DEF Holds, Rewrites, Writes
    <3>4. Upto(t, k.last)
      BY <1>1, <2>2 DEF Safe
    <3>5. Same(s) /\ Upto(s, k.last)
      BY <1>3, <2>7, <3>2, <3>3, <3>4, SameOn
    <3>6. Safe(s, Goto(pc))
      BY <1>3, <2>3, <2>4, <2>5, <2>9, <2>11, <3>5 DEF Safe, OnAt, Between
    <3> QED
      BY <2>2, <3>6, ToIs
  <2> QED
    BY <2>10, <2>11
<1> QED
  BY <1>4, <1>5, <1>7, <1>9, <1>10, <1>11, <1>12

\* The steps of terminal_save_state, and of what follows it.
LEMMA SavingSafe ==
  ASSUME Base(t, k), Neat(t, k), Safe(t, k), Choose \/ SaveTo \/ Clear \/ SetIt, ~rewound'
  PROVE  Safe(t, k)'
<1>1. ~t.stopped /\ k.pc \in {"choose", "save", "clear", "char"}
  BY DEF Choose, SaveTo, Clear, SetIt, Kernel
<1>2. Middle(k.pc) /\ Width \in Nat /\ Width > 2 /\ Height \in Nat \ {0}
  BY <1>1, MiddleIs, TerminalAssumption DEF Between
<1>3. /\ t \in State /\ k \in Progress /\ t.buffer = Screen /\ Listed(t) /\ Placed(t, k)
      /\ Sound(t) /\ Inside(t, k) /\ ~Between(k) /\ t.row \in Nat /\ t.column \in Nat
      /\ Pos(t) \in Nat /\ k.idx \in Nat /\ k.res \in 0 .. 2
  BY <1>2, PosIs DEF Middle, Progress
<1>4. k.pc \in {"choose", "save", "clear"} =>
        /\ t.column = 0
        /\ k.res = 2 \/ (k.pc = "clear" /\ k.res = 1)
        /\ NewLine => NoCursor(t) /\ (t.row = Height <=> k.res = 2)
  BY <1>1, <1>3 DEF Inside, NewLine, Char
<1>5. ~NewLine \/ k.pc = "char" =>
        Clean(t) /\ (k.res = 2 => Pos(t) = 0) /\ (k.res # 2 => Pos(t) = k.idx + 1) /\ k.idx \in Cell
  <2>1. SUFFICES ASSUME ~NewLine \/ k.pc = "char"
                 PROVE  /\ Clean(t) /\ (k.res = 2 => Pos(t) = 0)
                        /\ (k.res # 2 => Pos(t) = k.idx + 1) /\ k.idx \in Cell
    OBVIOUS
  <2>2. Wraps(t, k) /\ CursorAt(t, Pos(t))
    <3>1. CASE k.pc = "char"
      BY <1>1, <1>3, <3>1 DEF Inside
    <3>2. CASE k.pc # "char"
      BY <1>1, <1>3, <2>1, <3>2 DEF Inside, NewLine, Char
    <3> QED
      BY <3>1, <3>2
  <2>3. t.row < Height /\ t.column < Width
    BY <1>1, <1>3, <2>1 DEF Placed, OverEdge, OverFoot, NewLine, Char
  <2> QED
    BY <1>3, <2>2, <2>3 DEF Clean, Sheet, Drawn, Wraps, Over, Beyond
<1>6. \A n : n \in Int /\ Upto(t, n) /\ Same(t) =>
               \A r : Stays(t, r) /\ (\A i \in Cell : i < n => r.vga[i] = t.vga[i])
                       => Same(r) /\ Upto(r, n)
  BY <1>3, SameOn DEF Stays, Holds
<1>7. CASE Choose
  <2>1. PICK s, l : s = ChoosePage(t) /\ l = [Goto("save") EXCEPT !.new = s.head]
    OBVIOUS
  <2>2. To(s, l) /\ k.pc = "choose"
    BY <1>7, <2>1 DEF Choose, Kernel
  <2>3. Chooses(t, s) /\ s \in State
    BY <1>3, <2>1, ChooseIs DEF Chooses
  <2>4. l.pc = "save" /\ l.todo = k.todo /\ l.res = k.res
    <3>1. s.head \in 0 .. Pages
      BY <2>3, Fields
    <3> QED
      BY <1>3, <2>1, <3>1 DEF Goto, Progress
  <2>5. CASE ~NewLine
    <3>1. k.res = 2
      BY <1>4, <2>2
    <3>2. Safe(s, l)
      BY <2>4, <2>5, <3>1 DEF Safe, Wrapped, Between, NewLine, Char
    <3> QED
      BY <2>2, <3>2, ToIs
  <2>6. CASE NewLine
    <3>1. Same(t) /\ Upto(t, t.row * Width)
      BY <1>1, <2>2, <2>6 DEF Safe, Wrapped, NewLine, Char
    <3>2. CASE Kept(t)
      <4>1. s = t
        BY <2>1, <3>2 DEF ChoosePage, Kept
      <4>2. Safe(s, l)
        BY <2>4, <2>6, <3>1, <4>1 DEF Safe, Between, NewLine, Char
      <4> QED
        BY <2>2, <4>2, ToIs
    <3>3. CASE ~Kept(t) /\ ~s.stopped
      <4>1. Used(s, s.head) = 0
        BY <1>1, <1>3, <2>1, <3>3, ChooseRight DEF Had, Sound
      <4>2. t.row * Width \in Nat /\ s.row = t.row
        BY <1>3, <2>3, PosAt DEF Chooses
      <4>3. Upto(s, s.row * Width) /\ Upto(s, 0)
        BY <4>1, <4>2 DEF Upto
      <4>4. Same(s)
        BY <2>3, <4>3, SameNone
      <4>5. Safe(s, l)
        BY <2>4, <2>6, <4>3, <4>4 DEF Safe, Between, NewLine, Char
      <4> QED
        BY <2>2, <4>5, ToIs
    <3>4. CASE s.stopped
      <4>1. Safe(s, l)
        BY <3>4 DEF Safe
      <4> QED
        BY <2>2, <4>1, ToIs
    <3> QED
      BY <3>2, <3>3, <3>4
  <2> QED
    BY <2>5, <2>6
<1>8. CASE SaveTo
  <2>1. PICK s : s = SavePage(t, k.new)
    OBVIOUS
  <2>2. To(s, Goto("clear")) /\ k.pc = "save"
    BY <1>8, <2>1 DEF SaveTo, Kernel
  <2>3. /\ Goto("clear").pc = "clear" /\ Goto("clear").res = k.res
        /\ Goto("clear").todo = k.todo
    BY <1>3, GotoIs DEF Places
  <2>4. k.res = 2
    BY <1>4, <2>2
  <2>5. CASE ~NewLine
    <3>1. Safe(s, Goto("clear"))
      BY <2>3, <2>4, <2>5 DEF Safe, Wrapped, Between, NewLine, Char
    <3> QED
      BY <2>2, <3>1, ToIs
  <2>6. CASE NewLine
    <3>1. NoCursor(t) /\ t.row = Height /\ t.column = 0
      BY <1>4, <2>2, <2>4, <2>6
    <3>2. Pos(t) = Length /\ Length \in Nat
      <4>1. Pos(t) = Height * Width
        BY <1>2, <3>1, PosAt
      <4> QED
        BY <4>1, Grid, TerminalAssumption DEF Length
    <3>3. k.new = t.head /\ t.head \in Page
      BY <1>1, <1>3, <2>2 DEF Inside, Placed
    <3>4. CursorAt(t, Pos(t)) /\ Pos(t) <= Length
      BY <3>1, <3>2 DEF NoCursor, CursorAt
    <3>5. /\ s.head = t.head /\ s.left[t.head] \in 0 .. Length
          /\ Used(s, t.head) = IF Used(t, t.head) < Pos(t) THEN Pos(t) ELSE Used(t, t.head)
      BY <1>1, <1>3, <2>1, <3>3, <3>4, SavePageOn
    <3>6. Used(t, t.head) \in Int /\ Used(t, t.head) <= Length
      <4>1. t.left[t.head] \in 0 .. Length
        <5>1. t.head \in 1 .. t.pages
          BY <1>1, <1>3, <3>3 DEF Sound, PagesRight, Page
        <5> QED
          BY <1>1, <1>3, <5>1 DEF Sound, PagesRight
      <4> QED
        BY <3>2, <4>1 DEF Used
    <3>7. s.left[s.head] = 0
      BY <3>2, <3>5, <3>6 DEF Used
    <3>8. ~Kept(s)
      BY <3>7 DEF Kept
    <3>9. Safe(s, Goto("clear"))
      BY <2>3, <3>8 DEF Safe, Same, Upto, Between
    <3> QED
      BY <2>2, <3>9, ToIs
  <2> QED
    BY <2>5, <2>6
<1>9. CASE Clear /\ NewLine
  <2>1. PICK u : u = IF k.res = 2 THEN RowTo(t, 0) ELSE t
    OBVIOUS
  <2>2. PICK todo : todo = << ">", ">", "prompt" >> \o Tail(k.todo)
    OBVIOUS
  <2>3. PICK s : s = ClearRow(u)
    OBVIOUS
  <2>4. To(s, Rest(todo)) /\ k.pc = "clear"
    BY <1>9, <2>1, <2>2, <2>3 DEF Clear, Kernel, RowTo
  <2>5. NoCursor(t) /\ t.column = 0 /\ (t.row = Height <=> k.res = 2)
    BY <1>4, <1>9, <2>4
  <2>6. todo \in Todos
    <3>1. Tail(k.todo) \in Todos /\ Promptless(Tail(k.todo))
      BY <1>2, <1>3, <1>9, <2>4, TodoIs DEF NewLine, Middle
    <3> QED
      BY <2>2, <3>1, PromptedIs DEF Promptless
  <2>7. Between(Rest(todo))
    BY <2>6, RestIs
  <2>8. Same(t) /\ Upto(t, t.row * Width) /\ (k.res = 2 => ~Kept(t))
    BY <1>1, <1>9, <2>4 DEF Safe, Wrapped, NewLine, Char
  <2>9. Moves(t, u) /\ u.column = 0 /\ u.row < Height
    <3>1. CASE k.res = 2
      <4>1. Moves(t, u) /\ u.row = 0 /\ u.column = 0
        BY <1>3, <2>1, <2>5, <3>1, RowIs
      <4> QED
        BY <1>2, <4>1
    <3>2. CASE k.res # 2
      BY <1>3, <2>1, <2>4, <2>5, <3>2 DEF Placed, OverFoot, Moves
    <3> QED
      BY <3>1, <3>2
  <2>10. Clean(u) /\ u.buffer = Screen
    <3>1. Sound(u) /\ Listed(u)
      BY <1>3, <2>9, MovesSound
    <3>2. NoCursor(u) /\ u.buffer = Screen /\ u \in State /\ 0 < Width
      BY <1>2, <1>3, <2>5, <2>9 DEF NoCursor, Moves
    <3> QED
      BY <2>9, <3>1, <3>2 DEF Clean, Sheet, Drawn, NoCursor, CursorAt
  <2>11. /\ Clean(s) /\ Stays(u, s)
         /\ \A i \in Cell : i < u.row * Width => s.vga[i] = u.vga[i]
    BY <2>3, <2>10, ClearRowClean
  <2>12. Same(s)
    <3>1. CASE k.res = 2
      <4>1. ~Kept(s)
        BY <2>8, <2>9, <2>11, <3>1 DEF Kept, Moves, Stays
      <4> QED
        BY <4>1 DEF Same
    <3>2. CASE k.res # 2
      <4>1. u = t /\ t.row * Width \in Int
        BY <1>3, <2>1, <3>2, PosAt
      <4> QED
        BY <1>6, <2>8, <2>11, <4>1
    <3> QED
      BY <3>1, <3>2
  <2>13. Upto(s, Pos(s))
    BY <2>4, <2>7, <2>11, ToIs, RewindIs DEF Clean, Sheet
  <2>14. Safe(s, Rest(todo))
    BY <2>7, <2>12, <2>13, FitBetween DEF Fit
  <2> QED
    BY <2>4, <2>14, ToIs
<1>10. CASE Clear /\ ~NewLine
  <2>1. PICK s : s = ClearRow(t)
    OBVIOUS
  <2>2. To(s, Goto("char")) /\ k.pc = "clear"
    BY <1>10, <2>1 DEF Clear, Kernel
  <2>3. /\ Goto("char").pc = "char" /\ Goto("char").res = k.res
        /\ Goto("char").todo = k.todo /\ Goto("char").idx = k.idx
    BY <1>3, GotoIs DEF Places
  <2>4. CASE k.res = 2
    <3>1. Safe(s, Goto("char"))
      BY <1>10, <2>3, <2>4 DEF Safe, Wrapped, Between, NewLine, Char
    <3> QED
      BY <2>2, <3>1, ToIs
  <2>5. CASE k.res # 2
    <3>1. Same(t) /\ Upto(t, k.idx)
      BY <1>1, <1>10, <2>2, <2>5 DEF Safe, Wrapped, NewLine, Char
    <3>2. Stays(t, s) /\ \A i \in Cell : i < t.row * Width => s.vga[i] = t.vga[i]
      BY <1>3, <1>5, <1>10, <2>1, ClearRowClean
    <3>3. t.row * Width = k.idx + 1
      <4>1. Pos(t) = t.row * Width
        BY <1>3, <1>4, <2>2, PosAt
      <4> QED
        BY <1>5, <1>10, <2>5, <4>1
    <3>4. \A i \in Cell : i < k.idx => s.vga[i] = t.vga[i]
      <4>1. \A i \in Cell : i < k.idx => i < t.row * Width
        BY <1>3, <3>3, CellIs
      <4> QED
        BY <3>2, <4>1
    <3>5. Same(s) /\ Upto(s, k.idx)
      <4>1. k.idx \in Int
        BY <1>3
      <4> QED
        BY <1>6, <3>1, <3>2, <3>4, <4>1
    <3>6. Safe(s, Goto("char"))
      BY <2>3, <3>5 DEF Safe, Between
    <3> QED
      BY <2>2, <3>6, ToIs
  <2> QED
    BY <2>4, <2>5
<1>11. CASE SetIt
  <2>1. PICK s : s = SetChar(t, k.idx, Char)
    OBVIOUS
  <2>2. To(s, Rest(Tail(k.todo))) /\ k.pc = "char"
    BY <1>11, <2>1 DEF SetIt, Kernel
  <2>3. Char \in Printable /\ Tail(k.todo) \in Todos
    BY <1>2, <1>3, <2>2, TodoIs DEF Middle
  <2>4. Char \in Glyph /\ Char # Cursor
    BY <2>3, Constants
  <2>5. Clean(s) /\ Stays(t, s) /\ \A j \in Cell : j # k.idx => s.vga[j] = t.vga[j]
    BY <1>3, <1>5, <2>1, <2>2, <2>4, SetCharClean
  <2>6. Between(Rest(Tail(k.todo)))
    BY <2>3, RestIs
  <2>7. s \in State /\ Pos(s) = Pos(t)
    BY <2>5 DEF Clean, Sheet, Stays, Pos
  <2>8. Upto(s, Pos(s))
    BY <2>2, <2>6, <2>7, ToIs, RewindIs
  <2>9. Same(s)
    <3>1. CASE k.res = 2
      BY <1>5, <2>2, <2>7, <2>8, <3>1, SameNone
    <3>2. CASE k.res # 2
      <4>1. Same(t) /\ Upto(t, k.idx)
        <5>1. Head(k.todo) # "newline"
          BY <1>2, <2>2 DEF Middle, TodoRight, Chars
        <5> QED
          BY <1>1, <2>2, <3>2, <5>1 DEF Safe, Wrapped
      <4>2. k.idx \in Int /\ \A i \in Cell : i < k.idx => i # k.idx
        BY <1>3, CellIs
      <4> QED
        BY <1>6, <2>5, <4>1, <4>2
    <3> QED
      BY <3>1, <3>2
  <2>10. Safe(s, Rest(Tail(k.todo)))
    BY <2>6, <2>8, <2>9, FitBetween DEF Fit
  <2> QED
    BY <2>2, <2>10, ToIs
<1> QED
  BY <1>7, <1>8, <1>9, <1>10, <1>11

\* The steps of terminal_next_line.
LEMMA LineSafe ==
  ASSUME Base(t, k), Neat(t, k), Safe(t, k), Erase \/ Return \/ Line \/ TestLine, ~rewound'
  PROVE  Safe(t, k)'
<1>1. ~t.stopped /\ k.pc \in Lines
  BY DEF Erase, Return, Line, TestLine, Kernel, Lines
<1>2. Middle(k.pc) /\ Width \in Nat /\ Width > 2 /\ Height \in Nat \ {0}
  BY <1>1, MiddleIs, TerminalAssumption DEF Between, Lines
<1>3. /\ t \in State /\ k \in Progress /\ t.buffer = Screen /\ Listed(t) /\ Placed(t, k)
      /\ Sound(t) /\ Inside(t, k) /\ ~Between(k) /\ t.row \in Nat /\ t.column \in Nat
      /\ k.reg \in Nat /\ Head(k.todo) = "newline" /\ Same(t)
  BY <1>1, <1>2 DEF Middle, Progress, TodoRight, Safe, Wrapped, Lines
<1>4. CASE Erase
  <2>1. PICK s : s = SetVga(t, Pos(t), t.under)
    OBVIOUS
  <2>2. To(s, Goto("return")) /\ k.pc = "erase"
    BY <1>3, <1>4, <2>1 DEF Erase, Kernel
  <2>3. t.row < Height /\ t.column < Width
    BY <1>3, <2>2 DEF Placed, OverEdge, OverFoot
  <2>4. Pos(t) \in Cell /\ Pos(t) \in Int /\ t.under \in Glyph /\ t.vga \in [Cell -> Glyph]
    BY <1>3, <2>3, PosIs, CellIs, Fields
  <2>5. s \in State /\ OnScreen(t, s)
    BY <1>3, <2>1, <2>4, SetVgaIs
  <2>6. s.vga = [t.vga EXCEPT ![Pos(t)] = t.under]
    BY <1>3, <2>1, <2>4, SetVgaOn
  <2>7. \A i \in Cell : i < Pos(t) => s.vga[i] = t.vga[i]
    BY <2>4, <2>6, CellIs
  <2>8. Upto(t, Pos(t)) /\ Holds(t, s)
    BY <1>1, <2>2, <2>5 DEF Safe, Holds, OnScreen
  <2>9. Same(s) /\ Upto(s, Pos(t))
    BY <1>3, <2>4, <2>7, <2>8, SameOn
  <2>10. Upto(s, (s.row + 1) * Width)
    <3>1. s.row = t.row
      BY <2>5 DEF OnScreen
    <3>2. PICK row \in Nat, column \in Nat : row = t.row /\ column = t.column
      BY <1>3
    <3>3. Pos(t) = row * Width + column /\ (row + 1) * Width = row * Width + Width
          /\ row * Width \in Nat
      BY <3>2, PosAt
    <3>4. Pos(t) < (row + 1) * Width /\ (row + 1) * Width \in Int
      BY <1>2, <2>3, <3>2, <3>3
    <3>5. Kept(s) => Used(s, s.head) \in Int
      <4>1. Kept(s) => s.head \in Page
        BY <2>5, Fields, Constants DEF Kept, NULL
      <4> QED
        BY <2>5, <4>1, Fields, CellIs DEF Used
    <3>6. Upto(s, (row + 1) * Width)
      BY <2>4, <2>9, <3>4, <3>5 DEF Upto
    <3> QED
      BY <3>1, <3>2, <3>6
  <2>11. Goto("return").pc = "return"
    BY <1>3, GotoIs DEF Places
  <2>12. Safe(s, Goto("return"))
    BY <2>9, <2>10, <2>11 DEF Safe, Between
  <2> QED
    BY <2>2, <2>12, ToIs
<1>5. CASE Return
  <2>1. PICK s, l : s = [t EXCEPT !.column = 0] /\ l = [Goto("line") EXCEPT !.reg = t.row]
    OBVIOUS
  <2>2. To(s, l) /\ k.pc = "return"
    BY <1>5, <2>1 DEF Return, Kernel
  <2>3. Puts(t, s, t.row, 0)
    BY <2>1 DEF Puts
  <2>4. Moves(t, s) /\ s.row = t.row
    BY <1>3, <2>3, PlacedType
  <2>5. l.pc = "line"
    BY <1>3, <2>1 DEF Goto, Progress
  <2>6. Upto(t, (t.row + 1) * Width)
    BY <1>1, <2>2 DEF Safe
  <2>7. Safe(s, l)
    BY <1>3, <2>4, <2>5, <2>6, SameMoved DEF Safe, Between
  <2> QED
    BY <2>2, <2>7, ToIs
<1>6. CASE Line
  <2>1. PICK s : s = [t EXCEPT !.row = k.reg + 1]
    OBVIOUS
  <2>2. To(s, Goto("bottom")) /\ k.pc = "line"
    BY <1>6, <2>1 DEF Line, Kernel
  <2>3. Puts(t, s, k.reg + 1, t.column)
    BY <2>1 DEF Puts
  <2>4. Moves(t, s) /\ s.row = k.reg + 1
    BY <1>3, <2>3, PlacedType
  <2>5. Goto("bottom").pc = "bottom" /\ Goto("bottom").todo = k.todo
    BY <1>3, GotoIs DEF Places
  <2>6. Upto(t, (t.row + 1) * Width) /\ k.reg = t.row
    BY <1>1, <1>3, <2>2 DEF Safe, Inside
  <2>7. Same(s) /\ Upto(s, s.row * Width)
    BY <1>3, <2>4, <2>6, SameMoved
  <2>8. Safe(s, Goto("bottom"))
    BY <2>5, <2>7 DEF Safe, Between
  <2> QED
    BY <2>2, <2>8, ToIs
<1>7. CASE TestLine
  <2>1. PICK pc \in {"choose", "clear"}, res \in 0 .. 2 :
               /\ pc = IF AtFoot(t) THEN "choose" ELSE "clear"
               /\ res = IF AtFoot(t) THEN 2 ELSE 1
    OBVIOUS
  <2>2. PICK l : l = [Goto(pc) EXCEPT !.res = res]
    OBVIOUS
  <2>3. To(t, l) /\ k.pc = "bottom"
    BY <1>7, <2>1, <2>2 DEF TestLine, Kernel
  <2>4. OnAt(l, pc) /\ l.res = res
    BY <1>3, <2>1, <2>2 DEF Goto, Progress, OnAt, Places
  <2>5. Upto(t, t.row * Width)
    BY <1>1, <1>3, <2>3 DEF Safe
  <2>6. Safe(t, l)
    BY <1>3, <2>1, <2>4, <2>5 DEF Safe, OnAt, Between
  <2> QED
    BY <2>3, <2>6, ToIs
<1> QED
  BY <1>4, <1>5, <1>6, <1>7

\* A handler.
LEMMA HandlerSafe ==
  ASSUME Base(t, k), ~mixed => Kempt(t, k), ~mixed /\ ~rewound => Safe(t, k),
         Remark \/ Keyboard, ~mixed', ~rewound'
  PROVE  Safe(t, k)'
<1>1. ~t.stopped /\ k' = k /\ ~mixed /\ (t' = t \/ Between(k))
  BY HandlerIs
<1>2. ~rewound
  BY DEF Remark, Keyboard, Interrupt
<1>3. Neat(t, k) /\ Safe(t, k) /\ t \in State /\ Listed(t)
  BY <1>1, <1>2 DEF Base, Kempt, FollowedWild
<1>4. CASE t' = t
  BY <1>1, <1>3, <1>4
<1>5. CASE Between(k)
  <2>1. Clean(t) /\ Fit(t)
    BY <1>3, <1>5, CleanBetween, FitBetween
  <2>2. CASE Remark
    <3>1. PICK remark \in Remarks : Interrupt({PutString(t, remark)[n] : n \in 1 .. Len(remark)},
                                              PutString(t, remark)[Len(remark)])
      BY <2>2 DEF Remark
    <3>2. remark \in Seq(Printable) /\ Len(remark) \in 0 .. Len(remark) /\ Len(remark) \in Nat
      BY PrintsAssumption
    <3>3. ASSUME NEW n \in 1 .. Len(remark)
          PROVE  Upto(PutString(t, remark)[n], Pos(PutString(t, remark)[n]))
      <4>1. PICK p : p = PutString(t, remark)[n]
        OBVIOUS
      <4>2. ~Rewinds(p, k)
        BY <3>1, <4>1 DEF Interrupt
      <4>3. n \in 0 .. Len(remark)
        BY <3>2
      <4>4. Handles(t, p)
        BY <1>3, <3>2, <4>1, <4>3, PutStringType
      <4>5. Upto(p, Pos(p))
        BY <1>5, <4>2, <4>4, RewindIs DEF Handles
      <4> QED
        BY <4>1, <4>5
    <3>4. PICK r : r = PutString(t, remark)[Len(remark)]
      OBVIOUS
    <3>5. Fit(r)
      BY <2>1, <3>2, <3>3, <3>4, PutStringFit
    <3>6. t' = r
      BY <3>1, <3>4 DEF Interrupt
    <3>7. Safe(r, k)
      BY <1>5, <3>5, FitBetween
    <3> QED
      BY <1>1, <3>6, <3>7
  <2>3. CASE Keyboard
    <3>1. PICK key \in Keys : Interrupt({Pressed(t, key)}, Pressed(t, key))
      BY <2>3 DEF Keyboard
    <3>2. PICK r : r = Pressed(t, key)
      OBVIOUS
    <3>3. t' = r /\ ~Rewinds(r, k)
      BY <3>1, <3>2 DEF Interrupt
    <3>4. r \in State
      BY <1>3, <3>2, PressedType DEF Handles
    <3>5. Upto(r, Pos(r))
      BY <1>5, <3>3, <3>4, RewindIs
    <3>6. Fit(r)
      BY <1>1, <2>1, <3>2, <3>5, PressedFit
    <3>7. Safe(r, k)
      BY <1>5, <3>6, FitBetween
    <3> QED
      BY <1>1, <3>3, <3>7
  <2> QED
    BY <2>2, <2>3
<1> QED
  BY <1>1, <1>4, <1>5

\* A step of the kernel, as far as the shadow sees it.
LEMMA StepIs ==
  ASSUME Step
  PROVE  /\ ~t.stopped /\ mixed' = mixed /\ behind' = behind /\ (rewound => rewound')
         /\ shadow' = IF t.buffer # Screen /\ t'.buffer = Screen THEN Gone ELSE shadow
<1>1. ~t.stopped /\ mixed' = mixed /\ behind' = behind
  BY DEF Step, Printk, Begin, EndPrompt, TakeIndex, FetchColumn, StoreColumn, TestColumn,
         StoreRow, TestRow, Draw, Choose, SaveTo, Clear, SetIt, Erase, Return, Line,
         TestLine, Kernel
<1>2. \E s, l : To(s, l)
  BY DEF Step, Printk, Begin, EndPrompt, TakeIndex, FetchColumn, StoreColumn, TestColumn,
         StoreRow, TestRow, Draw, Choose, SaveTo, Clear, SetIt, Erase, Return, Line,
         TestLine
<1>3. PICK s, l : To(s, l)
  BY <1>2
<1> QED
  BY <1>1, <1>3 DEF To

\* What all steps keep.
Sure ==
  /\ Base(t, k)
  /\ ~mixed => Kempt(t, k)
  /\ ~mixed /\ ~rewound => Safe(t, k)

\* At first there is no page.
LEMMA InitSure ==
  ASSUME Init
  PROVE  Sure
<1>1. Base(t, k) /\ t.head = NULL /\ k.pc = "idle"
  BY InitBase
<1>2. Fit(t) /\ Between(k)
  BY <1>1 DEF Fit, Same, Upto, Kept, Between
<1>3. Safe(t, k)
  BY <1>2, FitBetween
<1> QED
  BY <1>1, <1>3, InitNeat DEF Sure, Kempt

\* Every step keeps the three parts.
LEMMA SureKept ==
  ASSUME Sure, [Next]_vars
  PROVE  Sure'
<1>1. Base(t, k)' /\ (~mixed' => Kempt(t, k)')
  BY BaseKept, NeatKept DEF Sure
<1>2. ~mixed' /\ ~rewound' => Safe(t, k)'
  <2>1. SUFFICES ASSUME ~mixed', ~rewound'
                 PROVE  Safe(t, k)'
    OBVIOUS
  <2>2. CASE UNCHANGED vars
    BY <2>1, <2>2 DEF vars, Sure
  <2>3. CASE Step
    <3>1. mixed' = mixed
      BY <2>3 DEF Step, Printk, Begin, EndPrompt, TakeIndex, FetchColumn, StoreColumn, TestColumn,
                  StoreRow, TestRow, Draw, Choose, SaveTo, Clear, SetIt, Erase, Return, Line,
                  TestLine, Kernel
    <3>2. rewound => rewound'
      BY <2>3 DEF Step, Printk, Begin, EndPrompt, TakeIndex, FetchColumn, StoreColumn, TestColumn,
                  StoreRow, TestRow, Draw, Choose, SaveTo, Clear, SetIt, Erase, Return, Line,
                  TestLine, To
    <3>3. Base(t, k) /\ Neat(t, k) /\ Safe(t, k)
      <4>1. ~t.stopped
        BY <2>3, StepIs
      <4> QED
        BY <2>1, <3>1, <3>2, <4>1 DEF Sure, Kempt, FollowedWild
    <3> QED
      BY <2>1, <2>3, <3>3, CharacterSafe, AdvanceSafe, SavingSafe, LineSafe DEF Step
  <2>4. CASE Remark \/ Keyboard
    BY <2>1, <2>4, HandlerSafe DEF Sure
  <2> QED
    BY <2>2, <2>3, <2>4 DEF Next
<1> QED
  BY <1>1, <1>2 DEF Sure

-----------------------------------------------------------------------------
(* Page Up loses no text *)

\* The head page keeps the text `text', and pages are shown.
Keeps(s, text) ==
  /\ s.buffer # Screen
  /\ DOMAIN text = 0 .. Used(s, s.head) - 1
  /\ \A i \in DOMAIN text : s.page[s.head][i] = text[i]

\* While pages are shown, the kernel leaves the head page alone until it prints.
LEMMA StepKeeps ==
  ASSUME Base(t, k), Neat(t, k), Step, t.buffer # Screen, t'.buffer # Screen
  PROVE  t'.head = t.head /\ t'.left = t.left /\ t'.page = t.page
<1>1. ~t.stopped /\ t \in State /\ Listed(t)
  BY StepIs DEF Base
<1>2. Between(k)
  BY <1>1 DEF Neat, Inside
<1>3. CASE Printk
  BY <1>3 DEF Printk, To
<1>4. CASE Begin
  <2>1. t' = LoadHead(t)
    BY <1>4 DEF Begin, To
  <2>2. LoadHead(t).buffer = Screen
    BY <1>1, LoadHeadIs
  <2> QED
    BY <2>1, <2>2
<1>5. CASE EndPrompt
  <2>1. t' = Prompt(t)
    BY <1>5 DEF EndPrompt, To
  <2> QED
    BY <1>1, <2>1, PromptIs DEF OnScreen
<1>6. CASE ~(Printk \/ Begin \/ EndPrompt)
  BY <1>2, <1>6 DEF Step, TakeIndex, FetchColumn, StoreColumn, TestColumn, StoreRow, TestRow,
         Draw, Choose, SaveTo, Clear, SetIt, Erase, Return, Line, TestLine, Kernel, Between
<1> QED
  BY <1>3, <1>4, <1>5, <1>6

\* A key, while pages are shown before and after it.
LEMMA PressedKeeps ==
  ASSUME NEW s, Clean(s), ~s.stopped, NEW key, NEW r, r = Pressed(s, key), ~r.stopped,
         s.buffer # Screen, r.buffer # Screen
  PROVE  r.head = s.head /\ r.left = s.left /\ r.page = s.page
<1>1. CASE r = LoadPrev(s)
  BY <1>1, LoadPrevClean DEF Departs, Leafs
<1>2. CASE r = LoadNext(s)
  BY <1>2, LoadNextClean DEF Forwards
<1>3. ASSUME NEW m \in Directions(s), r = Move(s, m)
      PROVE  r.head = s.head /\ r.left = s.left /\ r.page = s.page
  BY <1>3, MoveSteps DEF Steps
<1>4. \A ch \in Printable : r # Put(s, ch)
  BY PutClean
<1> QED
  BY <1>1, <1>2, <1>3, <1>4, PressedIs

\* Page Up saves the text of the screen, up to the cursor.
LEMMA DepartKeeps ==
  ASSUME NEW s, Clean(s), ~s.stopped, Fit(s), NEW r, Departs(s, r)
  PROVE  Keeps(r, Text(s))
<1>1. PICK u : u = Save(s)
  OBVIOUS
<1>2. /\ SavedTo(s, u) /\ s.buffer = Screen /\ (s.cur = NULL \/ s.cur = s.head)
      /\ r.buffer # Screen /\ r.head = u.head /\ r.left = u.left /\ r.page = u.page
  BY <1>1 DEF Departs
<1>3. s \in State /\ Pos(s) \in Cell /\ Pos(s) \in Nat /\ Length \in Nat
  <2>1. s \in State /\ s.row < Height /\ s.column < Width
    BY DEF Clean, Sheet
  <2> QED
    BY <2>1, PosIs, CellIs
<1>4. Had(s) \in Int /\ Had(s) <= Pos(s)
  <2>1. CASE Kept(s)
    <3>1. s.head \in Page /\ s.left[s.head] \in Int
      BY <1>3, <2>1, Fields, Constants DEF Kept, NULL
    <3>2. Used(s, s.head) <= Pos(s)
      BY <2>1 DEF Fit, Upto
    <3> QED
      BY <1>3, <2>1, <3>1, <3>2 DEF Had, Used
  <2>2. CASE ~Kept(s)
    BY <1>3, <2>2 DEF Had
  <2> QED
    BY <2>1, <2>2
<1>5. Used(r, r.head) = Pos(s)
  BY <1>2, <1>3, <1>4 DEF SavedTo, Used
<1>6. ASSUME NEW i \in 0 .. Pos(s) - 1
      PROVE  r.page[r.head][i] = s.vga[i]
  <2>1. i \in Cell /\ i < Pos(s) /\ i \in Int /\ 0 <= i
    <3>1. Pos(s) < Length
      BY <1>3, CellIs
    <3>2. i \in 0 .. Length - 1 /\ i < Pos(s)
      BY <1>3, <3>1
    <3> QED
      BY <3>2 DEF Cell
  <2>2. CASE i < Had(s)
    <3>1. Kept(s)
      BY <2>1, <2>2 DEF Had
    <3>2. Had(s) = Used(s, s.head)
      BY <3>1 DEF Had
    <3>3. i \in 0 .. Used(s, s.head) - 1
      BY <1>4, <2>1, <2>2, <3>2
    <3>4. s.page[s.head][i] = s.vga[i]
      BY <1>2, <3>1, <3>3 DEF Fit, Same
    <3> QED
      BY <1>2, <2>1, <2>2, <3>4 DEF SavedTo
  <2>3. CASE ~(i < Had(s))
    BY <1>2, <1>4, <2>1, <2>3 DEF SavedTo
  <2> QED
    BY <2>2, <2>3
<1>7. DOMAIN Text(s) = 0 .. Pos(s) - 1 /\ \A i \in 0 .. Pos(s) - 1 : Text(s)[i] = s.vga[i]
  BY DEF Text
<1> QED
  BY <1>2, <1>5, <1>6, <1>7 DEF Keeps

\* Every step keeps the text that Page Up has saved.
LEMMA RecoverableKept ==
  ASSUME Sure, Recoverable, [Next]_vars
  PROVE  Recoverable'
<1>1. SUFFICES ASSUME shadow' # Gone, ~t'.stopped, ~mixed', ~rewound', ~behind'
               PROVE  Keeps(t', shadow')
  BY DEF Recoverable, Keeps, Used
<1>2. ~t.stopped /\ ~mixed /\ ~rewound /\ ~behind /\ shadow # Gone => Keeps(t, shadow)
  BY DEF Recoverable, Keeps
<1>3. \A text : Keeps(t, text) /\ t'.head = t.head /\ t'.left = t.left /\ t'.page = t.page
                /\ t'.buffer # Screen => Keeps(t', text)
  BY DEF Keeps, Used
<1>4. CASE UNCHANGED vars
  BY <1>1, <1>2, <1>4 DEF vars
<1>5. CASE Step
  <2>1. /\ ~t.stopped /\ ~mixed /\ ~behind /\ ~rewound
        /\ shadow' = IF t.buffer # Screen /\ t'.buffer = Screen THEN Gone ELSE shadow
    BY <1>1, <1>5, StepIs
  <2>2. shadow' = shadow /\ shadow # Gone
    BY <1>1, <2>1
  <2>3. Keeps(t, shadow)
    BY <1>2, <2>1, <2>2
  <2>4. t.buffer # Screen /\ t'.buffer # Screen
    BY <1>1, <2>1, <2>3 DEF Keeps
  <2>5. t'.head = t.head /\ t'.left = t.left /\ t'.page = t.page
    BY <1>5, <2>1, <2>4, StepKeeps DEF Sure, Kempt, FollowedWild
  <2> QED
    BY <1>3, <2>2, <2>3, <2>4, <2>5
<1>6. CASE Remark
  <2>1. /\ ~t.stopped /\ ~mixed /\ ~behind /\ ~rewound
        /\ shadow' = IF t.buffer # Screen THEN Gone ELSE shadow
    <3>1. PICK remark \in Remarks :
            /\ Interrupt({PutString(t, remark)[n] : n \in 1 .. Len(remark)},
                         PutString(t, remark)[Len(remark)])
            /\ shadow' = IF t.buffer # Screen THEN Gone ELSE shadow
            /\ behind' = behind
      BY <1>6 DEF Remark
    <3>2. ~t.stopped /\ ~mixed /\ ~rewound
      BY <1>1, <3>1 DEF Interrupt
    <3> QED
      BY <1>1, <3>1, <3>2
  <2>2. t.buffer = Screen /\ shadow # Gone
    BY <1>1, <2>1
  <2> QED
    BY <1>2, <2>1, <2>2 DEF Keeps
<1>7. CASE Keyboard
  <2>1. PICK key \in Keys :
          LET s == Pressed(t, key)
              leaves == key = "PageUp" /\ t.buffer = Screen /\ s.cur # t.cur
          IN  /\ Interrupt({s}, s)
              /\ shadow' = IF leaves THEN Text(t)
                           ELSE IF t.buffer # Screen /\ s.buffer = Screen THEN Gone ELSE shadow
              /\ behind' = (behind \/ (leaves /\ t.cur # NULL /\ t.cur # t.head))
    BY <1>7 DEF Keyboard
  <2>2. PICK r : r = Pressed(t, key)
    OBVIOUS
  <2> DEFINE leaves == key = "PageUp" /\ t.buffer = Screen /\ r.cur # t.cur
  <2>3. /\ Interrupt({r}, r)
        /\ shadow' = IF leaves THEN Text(t)
                     ELSE IF t.buffer # Screen /\ r.buffer = Screen THEN Gone ELSE shadow
        /\ behind' = (behind \/ (leaves /\ t.cur # NULL /\ t.cur # t.head))
    BY <2>1, <2>2
  <2>4. /\ ~t.stopped /\ ~mixed /\ ~rewound /\ ~behind /\ t' = r
        /\ (r = t \/ Between(k))
    BY <1>1, <2>3 DEF Interrupt
  <2>5. Base(t, k) /\ Neat(t, k) /\ Safe(t, k)
    BY <2>4 DEF Sure, Kempt, FollowedWild
  <2>6. CASE leaves
    <3>1. Between(k)
      BY <2>4, <2>6
    <3>2. Clean(t) /\ Fit(t)
      BY <2>5, <3>1, CleanBetween, FitBetween
    <3>3. r = LoadPrev(t)
      <4>1. key = "PageUp"
        BY <2>6
      <4> QED
        BY <2>2, <4>1, PressedIs
    <3>4. Departs(t, r) \/ Leafs(t, r)
      BY <1>1, <2>4, <2>6, <3>2, <3>3, LoadPrevClean
    <3>5. ~Leafs(t, r)
      BY <1>1, <2>3, <2>6 DEF Leafs
    <3>6. Keeps(r, Text(t))
      BY <2>4, <3>2, <3>4, <3>5, DepartKeeps
    <3> QED
      BY <2>3, <2>4, <2>6, <3>6
  <2>7. CASE ~leaves
    <3>1. shadow' = shadow /\ shadow # Gone /\ (t.buffer = Screen \/ r.buffer # Screen)
      BY <1>1, <2>3, <2>7
    <3>2. Keeps(t, shadow)
      BY <1>2, <2>4, <3>1
    <3>3. t.buffer # Screen /\ r.buffer # Screen
      BY <3>1, <3>2 DEF Keeps
    <3>4. Between(k)
      BY <2>4, <2>5, <3>3 DEF Neat, Inside
    <3>5. Clean(t)
      BY <2>5, <3>4, CleanBetween
    <3>6. r.head = t.head /\ r.left = t.left /\ r.page = t.page
      BY <1>1, <2>2, <2>4, <3>3, <3>5, PressedKeeps
    <3> QED
      BY <1>3, <2>4, <3>1, <3>2, <3>3, <3>6
  <2> QED
    BY <2>6, <2>7
<1> QED
  BY <1>4, <1>5, <1>6, <1>7 DEF Next

\* The variables that are not the terminal's, or the kernel's place in it.
Others ==
  /\ shift \in BOOLEAN /\ mixed \in BOOLEAN /\ rewound \in BOOLEAN /\ behind \in BOOLEAN
  /\ prints \in Nat /\ interrupts \in Nat

\* They keep their types.
LEMMA OthersKept ==
  ASSUME Others, [Next]_vars
  PROVE  Others'
<1>1. CASE UNCHANGED vars
  BY <1>1 DEF vars, Others
<1>2. CASE Printk
  BY <1>2 DEF Printk, To, Others
<1>3. CASE Step /\ ~Printk
  <2>1. UNCHANGED << shift, mixed, behind, prints, interrupts >>
    BY <1>3 DEF Step, Begin, EndPrompt, TakeIndex, FetchColumn, StoreColumn, TestColumn,
                StoreRow, TestRow, Draw, Choose, SaveTo, Clear, SetIt, Erase, Return, Line,
                TestLine, Kernel
  <2>2. rewound' \in BOOLEAN
    BY <1>3 DEF Step, Begin, EndPrompt, TakeIndex, FetchColumn, StoreColumn, TestColumn,
                StoreRow, TestRow, Draw, Choose, SaveTo, Clear, SetIt, Erase, Return, Line,
                TestLine, To
  <2> QED
    BY <2>1, <2>2 DEF Others
<1>4. ASSUME NEW through, NEW s, Interrupt(through, s)
      PROVE  /\ mixed' \in BOOLEAN /\ rewound' \in BOOLEAN
             /\ prints' \in Nat /\ interrupts' \in Nat
  BY <1>4 DEF Interrupt, Others
<1>5. CASE Remark
  <2>1. PICK remark \in Remarks :
          /\ Interrupt({PutString(t, remark)[n] : n \in 1 .. Len(remark)},
                       PutString(t, remark)[Len(remark)])
          /\ UNCHANGED << shift, behind >>
    BY <1>5 DEF Remark
  <2> QED
    BY <1>4, <2>1 DEF Others
<1>6. CASE Keyboard
  <2>1. PICK key \in Keys :
          LET s == Pressed(t, key)
              leaves == key = "PageUp" /\ t.buffer = Screen /\ s.cur # t.cur
          IN  /\ Interrupt({s}, s)
              /\ shift' = ShiftAfter(key)
              /\ behind' = (behind \/ (leaves /\ t.cur # NULL /\ t.cur # t.head))
    BY <1>6 DEF Keyboard
  <2>2. shift' \in BOOLEAN
    BY <2>1 DEF ShiftAfter, Others
  <2>3. behind' \in BOOLEAN
    BY <2>1
  <2> QED
    BY <1>4, <2>1, <2>2, <2>3 DEF Others
<1> QED
  BY <1>1, <1>2, <1>3, <1>5, <1>6 DEF Next

\* What Page Up takes off the screen stays in the head page until a character brings it
\* back, as long as the cursor has not gone back before it and no lines have scrolled off
\* since pages were last looked at.
THEOREM PageUpLosesNothing == Spec => []Recoverable
<1>1. Init => Sure /\ Recoverable
  BY InitSure DEF Init, Recoverable
<1>2. Sure /\ Recoverable /\ [Next]_vars => Sure' /\ Recoverable'
  BY SureKept, RecoverableKept
<1> QED
  BY <1>1, <1>2, PTL DEF Spec

\* The invariant of the terminal as a whole.
THEOREM TerminalInvariance == Spec => []IInv
<1>1. Init => Sure /\ Recoverable /\ Others
  <2>1. Init => Sure
    BY InitSure
  <2>2. Init => Recoverable
    BY DEF Init, Recoverable
  <2>3. Init => Others
    <3>1. ASSUME Init
          PROVE  /\ shift \in BOOLEAN /\ mixed \in BOOLEAN
                 /\ rewound \in BOOLEAN /\ behind \in BOOLEAN
      BY <3>1, Zenon DEF Init
    <3>2. ASSUME Init
          PROVE  prints \in Nat /\ interrupts \in Nat
      BY <3>2, SMT DEF Init
    <3> QED
      BY <3>1, <3>2, Zenon DEF Others
  <2> QED
    BY <2>1, <2>2, <2>3
<1>2. Sure /\ Recoverable /\ Others /\ [Next]_vars => Sure' /\ Recoverable' /\ Others'
  BY SureKept, RecoverableKept, OthersKept
<1>3. Sure /\ Recoverable /\ Others => IInv
  <2>1. Sure /\ Others => TypeOK /\ TodoRight(k) /\ Listed(t) /\ Placed(t, k)
    BY DEF Sure, Base, Others, TypeOK
  <2>2. Sure => (~mixed => FollowedWild(t) \/ (Sound(t) /\ Outside(t, k) /\ Inside(t, k)))
    BY DEF Sure, Kempt, Neat
  <2>3. Sure => (~mixed /\ ~rewound => Safe(t, k))
    BY DEF Sure
  <2> QED
    BY <2>1, <2>2, <2>3 DEF IInv
<1> QED
  BY <1>1, <1>2, <1>3, PTL DEF Spec

=============================================================================
