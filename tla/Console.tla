------------------------------- MODULE Console -------------------------------
(***************************************************************************)
(* The text console of x86/console.c: what kputc, kputs and console_clear  *)
(* do to the cursor and to the cells of the screen.                        *)
(*                                                                         *)
(* draw_char paints the pixels of a glyph and no background, so a glyph in *)
(* a cell that is not blank smears it, and a space leaves a cell as it is. *)
(* putpixel clips: right of the last column nothing is drawn.  The cursor  *)
(* bar is left out; it is drawn only where the cell is blank.              *)
(***************************************************************************)
EXTENDS Integers, SequencesExt

CONSTANTS
  COLS, ROWS,          \* cells of the screen (100 and 37 in the code)
  Space, Newline, Backspace,
  Smeared              \* a cell with two glyphs in it

ASSUME ConsoleAssumption == COLS \in Nat \ {0} /\ ROWS \in Nat \ {0}

Col == 0..(COLS - 1)
Row == 0..(ROWS - 1)

BlankRow == [x \in Col |-> Space]

\* console_clear
Cleared == [cx |-> 0, cy |-> 0, text |-> [y \in Row |-> BlankRow]]

\* scroll: the last row becomes blank.
Scrolled(con) ==
  [cx |-> 0, cy |-> ROWS - 1,
   text |-> [y \in Row |-> IF y + 1 \in Row THEN con.text[y + 1] ELSE BlankRow]]

\* draw_char at column x of a row.
Drawn(row, x, c) ==
  IF x \notin Col \/ c = Space THEN row
  ELSE [row EXCEPT ![x] = IF @ = Space THEN c ELSE Smeared]

\* Mutated form: '\b' moves the cursor and does not clear the cell.
ErasedNot(row, x) == row

\* draw_rect of the background over column x.
Erased(row, x) == IF x \in Col THEN [row EXCEPT ![x] = Space] ELSE row

\* The console with the cursor in column x of its row, which becomes r.
InRow(con, x, r) == [cx |-> x, cy |-> con.cy, text |-> [con.text EXCEPT ![con.cy] = r]]

\* kputc before it looks whether to scroll.
Moved(con, c) ==
  LET row == con.text[con.cy] IN
  CASE c = Newline -> [cx |-> 0, cy |-> con.cy + 1, text |-> con.text]
    [] c = Backspace /\ con.cx = 0 -> con
    [] c = Backspace /\ con.cx > 0 -> InRow(con, con.cx - 1, Erased(row, con.cx - 1))
    [] OTHER -> InRow(con, con.cx + 1, Drawn(row, con.cx, c))

Kputc(con, c) ==
  LET m == Moved(con, c) IN IF m.cy >= ROWS THEN Scrolled(m) ELSE m

\* The loop of kputs: the console after the first n characters of s.
Kputs(con, s) ==
  LET after[n \in 0..Len(s)] == IF n = 0 THEN con ELSE Kputc(after[n - 1], s[n])
  IN  after[Len(s)]
=============================================================================
