----------------------------- MODULE Shell_proofs -----------------------------
(***************************************************************************)
(* Theorems about the shell and its console, for every size of the screen, *)
(* of the line and of the file name, any programs and whatever they print. *)
(***************************************************************************)
EXTENDS Shell, Order_proofs, SequenceTheorems

-----------------------------------------------------------------------------
(* kputs, one character at a time.                                         *)

\* after holds the console before and after each of the first n characters.
Printing(c, s, n, after) ==
  after = [i \in 0..n |-> IF i = 0 THEN c ELSE Kputc(after[i - 1], s[i])]

\* The recursive function of Kputs exists.
LEMMA PrintingExists ==
  ASSUME NEW c, NEW s, NEW n \in Nat
  PROVE  \E after : Printing(c, s, n, after)
<1> DEFINE S == {k \in Nat : \E after : Printing(c, s, k, after)}
<1>1. 0 \in S
  <2>1. Printing(c, s, 0, [i \in 0..0 |-> c])
    BY DEF Printing
  <2>2. QED
    BY <2>1
<1>2. \A k \in Nat : k \in S => k + 1 \in S
  <2>1. TAKE k \in Nat
  <2>2. HAVE k \in S
  <2>3. PICK f : Printing(c, s, k, f)
    BY <2>2
  <2> DEFINE g == [i \in 0..(k + 1) |-> IF i = k + 1 THEN Kputc(f[k], s[k + 1]) ELSE f[i]]
  <2>4. ASSUME NEW i \in 0..(k + 1)
        PROVE  g[i] = IF i = 0 THEN c ELSE Kputc(g[i - 1], s[i])
    <3>1. CASE i = k + 1
      BY <3>1
    <3>2. CASE i # k + 1
      <4>1. i \in 0..k /\ (i # 0 => i - 1 \in 0..k)
        BY <3>2
      <4>2. f[i] = IF i = 0 THEN c ELSE Kputc(f[i - 1], s[i])
        BY <2>3, <4>1 DEF Printing
      <4>3. g[i] = f[i] /\ (i # 0 => g[i - 1] = f[i - 1])
        BY <4>1
      <4>4. QED
        BY <4>2, <4>3
    <3>3. QED
      BY <3>1, <3>2
  <2>5. Printing(c, s, k + 1, g)
    <3> DEFINE h == [i \in 0..(k + 1) |-> IF i = 0 THEN c ELSE Kputc(g[i - 1], s[i])]
    <3>1. \A i \in 0..(k + 1) : g[i] = h[i]
      BY <2>4
    <3>2. g = h
      BY <3>1
    <3>3. QED
      BY <3>2 DEF Printing
  <2>6. QED
    BY <2>5
<1>3. n \in S
  BY <1>1, <1>2, Induction
<1>4. QED
  BY <1>3

\* after leads from c to what kputs leaves, by kputc.
Prints(c, s, after) ==
  /\ after[0] = c /\ after[Len(s)] = Kputs(c, s)
  /\ \A i \in 1..Len(s) : after[i] = Kputc(after[i - 1], s[i])

\* kputs goes from the console it finds to the one it leaves by kputc.
LEMMA KputsByKputc ==
  ASSUME NEW c, NEW s, Len(s) \in Nat
  PROVE  \E after : Prints(c, s, after)
<1> DEFINE f == CHOOSE after : Printing(c, s, Len(s), after)
<1>1. Printing(c, s, Len(s), f)
  BY PrintingExists
<1>2. f[Len(s)] = Kputs(c, s)
  BY DEF Printing, Kputs
<1> HIDE DEF f
<1>3. f[0] = c
  <2>1. 0 \in 0..Len(s)
    OBVIOUS
  <2>2. QED
    BY <1>1, <2>1 DEF Printing
<1>4. \A i \in 1..Len(s) : f[i] = Kputc(f[i - 1], s[i])
  <2>1. \A i \in 1..Len(s) : i \in 0..Len(s) /\ i # 0
    OBVIOUS
  <2>2. QED
    BY <1>1, <2>1 DEF Printing
<1>5. Prints(c, s, f)
  BY <1>2, <1>3, <1>4 DEF Prints
<1>6. QED
  BY <1>5

\* What each character keeps, the whole text keeps: P is the set of the consoles
\* that have the property.
LEMMA KputsKeeps ==
  ASSUME NEW P, NEW c \in P, NEW s, Len(s) \in Nat,
         \A d \in P, i \in 1..Len(s) : Kputc(d, s[i]) \in P
  PROVE  Kputs(c, s) \in P
<1>1. PICK f : Prints(c, s, f)
  BY KputsByKputc
<1> DEFINE S == {n \in Nat : n <= Len(s) => f[n] \in P}
<1>2. 0 \in S
  BY <1>1 DEF Prints
<1>3. \A n \in Nat : n \in S => n + 1 \in S
  <2>1. TAKE n \in Nat
  <2>2. HAVE n \in S
  <2>3. SUFFICES ASSUME n + 1 <= Len(s) PROVE f[n + 1] \in P
    OBVIOUS
  <2>4. f[n] \in P /\ n + 1 \in 1..Len(s) /\ (n + 1) - 1 = n
    BY <2>2, <2>3
  <2>5. f[n + 1] = Kputc(f[n], s[n + 1])
    BY <1>1, <2>4 DEF Prints
  <2>6. QED
    BY <2>4, <2>5
<1>4. Nat \subseteq S
  <2> HIDE DEF S
  <2>1. QED
    BY <1>2, <1>3, Induction
<1>5. f[Len(s)] \in P
  BY <1>4
<1>6. QED
  BY <1>1, <1>5 DEF Prints

LEMMA KputsTwo ==
  ASSUME NEW c, NEW a, NEW b
  PROVE  Kputs(c, <<a, b>>) = Kputc(Kputc(c, a), b)
<1> DEFINE s == <<a, b>>
<1>1. Len(s) = 2 /\ s[1] = a /\ s[2] = b
  OBVIOUS
<1> HIDE DEF s
<1>2. PICK f : Prints(c, s, f)
  BY <1>1, KputsByKputc
<1>3. f[1] = Kputc(f[0], s[1]) /\ f[2] = Kputc(f[1], s[2])
  <2>1. 1 \in 1..Len(s) /\ 2 \in 1..Len(s)
    BY <1>1
  <2>2. f[1] = Kputc(f[1 - 1], s[1]) /\ f[2] = Kputc(f[2 - 1], s[2])
    BY <1>2, <2>1 DEF Prints
  <2>3. QED
    BY <2>2
<1>4. QED
  BY <1>1, <1>2, <1>3 DEF Prints, s

LEMMA KputsThree ==
  ASSUME NEW c, NEW a, NEW b, NEW d
  PROVE  Kputs(c, <<a, b, d>>) = Kputc(Kputc(Kputc(c, a), b), d)
<1> DEFINE s == <<a, b, d>>
<1>1. Len(s) = 3 /\ s[1] = a /\ s[2] = b /\ s[3] = d
  OBVIOUS
<1> HIDE DEF s
<1>2. PICK f : Prints(c, s, f)
  BY <1>1, KputsByKputc
<1>3. f[1] = Kputc(f[0], s[1]) /\ f[2] = Kputc(f[1], s[2]) /\ f[3] = Kputc(f[2], s[3])
  <2>1. 1 \in 1..Len(s) /\ 2 \in 1..Len(s) /\ 3 \in 1..Len(s)
    BY <1>1
  <2>2. f[1] = Kputc(f[1 - 1], s[1]) /\ f[2] = Kputc(f[2 - 1], s[2]) /\ f[3] = Kputc(f[3 - 1], s[3])
    BY <1>2, <2>1 DEF Prints
  <2>3. QED
    BY <2>2
<1>4. QED
  BY <1>1, <1>2, <1>3 DEF Prints, s

-----------------------------------------------------------------------------
(* The screen.                                                             *)

\* What may be printed besides '\n' and '\b', and what a cell may hold.
Glyph == Typed \cup {Prompt} \cup UNION {{out[i] : i \in 1..Len(out)} : out \in Output}
Cell == Glyph \cup {Space, Smeared}

\* Nothing is drawn from the cursor on.
Clear(c) ==
  \A y \in Row, x \in Col : y > c.cy \/ (y = c.cy /\ x >= c.cx) => c.text[y][x] = Space

Consoles == [cx : Nat, cy : Row, text : [Row -> [Col -> Cell]]]
Screens == {c \in Consoles : Clear(c)}

LEMMA SizeFacts ==
  /\ COLS \in Nat /\ ROWS \in Nat /\ COLS > 0 /\ ROWS > 0
  /\ \A x \in Col : x \in Nat
  /\ \A y \in Row : y \in Nat /\ y <= ROWS - 1
  /\ 0 \in Col /\ 0 \in Row /\ ROWS - 1 \in Row
BY ConsoleAssumption DEF Col, Row

\* A blank row.
LEMMA BlankRowFacts == BlankRow \in [Col -> Cell] /\ \A x \in Col : BlankRow[x] = Space
BY DEF BlankRow, Cell

\* console_clear leaves a clear screen.
LEMMA ClearedScreen == Cleared \in Screens
<1>1. Cleared \in Consoles
  BY SizeFacts, BlankRowFacts DEF Cleared, Consoles
<1>2. Clear(Cleared)
  BY BlankRowFacts DEF Cleared, Clear
<1>3. QED
  BY <1>1, <1>2 DEF Screens

\* '\n': the cursor goes to a blank row.
LEMMA NewlineScreen ==
  ASSUME NEW c \in Screens
  PROVE  LET d == Kputc(c, Newline)
         IN d \in Screens /\ d.cx = 0 /\ d.text[d.cy] = BlankRow
<1> DEFINE d == Kputc(c, Newline)
           m == [cx |-> 0, cy |-> c.cy + 1, text |-> c.text]
<1>1. c \in Consoles /\ Clear(c)
  BY DEF Screens
<1>2. c.cx \in Nat /\ c.cy \in Row /\ c.text \in [Row -> [Col -> Cell]]
  BY <1>1 DEF Consoles
<1>3. Moved(c, Newline) = m
  BY ShellAssumption DEF Moved
<1>5. CASE c.cy + 1 >= ROWS
  <2> DEFINE t == [y \in Row |-> IF y + 1 \in Row THEN c.text[y + 1] ELSE BlankRow]
  <2>1. d = [cx |-> 0, cy |-> ROWS - 1, text |-> t]
    BY <1>3, <1>5 DEF Kputc, Scrolled
  <2>2. t \in [Row -> [Col -> Cell]]
    BY <1>2, BlankRowFacts
  <2>3. ROWS - 1 \in Row /\ ROWS \notin Row /\ (ROWS - 1) + 1 = ROWS
    BY SizeFacts DEF Row
  <2>4. t[ROWS - 1] = BlankRow
    BY <2>3
  <2>5. d \in Consoles
    BY <2>1, <2>2, <2>3 DEF Consoles
  <2>6. \A y \in Row : y >= ROWS - 1 => y = ROWS - 1
    BY SizeFacts
  <2>7. Clear(d)
    BY <2>1, <2>4, <2>6, BlankRowFacts, SizeFacts DEF Clear
  <2>8. QED
    BY <2>1, <2>4, <2>5, <2>7 DEF Screens
<1>6. CASE ~(c.cy + 1 >= ROWS)
  <2>1. d = [cx |-> 0, cy |-> c.cy + 1, text |-> c.text]
    BY <1>3, <1>6 DEF Kputc
  <2>2. c.cy + 1 \in Row
    BY <1>2, <1>6, SizeFacts DEF Row
  <2>3. d \in Consoles
    BY <1>2, <2>1, <2>2 DEF Consoles
  <2>4. \A y \in Row : y >= c.cy + 1 => y > c.cy
    BY <1>2, SizeFacts
  <2>5. \A y \in Row, x \in Col : y >= c.cy + 1 => c.text[y][x] = Space
    BY <1>1, <2>4 DEF Clear
  <2>6. Clear(d)
    BY <1>2, <2>1, <2>5, SizeFacts DEF Clear
  <2>7. c.text[c.cy + 1] \in [Col -> Cell] /\ \A x \in Col : c.text[c.cy + 1][x] = Space
    BY <1>2, <2>2, <2>5, SizeFacts
  <2>8. c.text[c.cy + 1] = BlankRow
    BY <2>7 DEF BlankRow
  <2>9. QED
    BY <2>1, <2>3, <2>6, <2>8 DEF Screens
<1>7. QED
  BY <1>5, <1>6

\* '\b' at the left edge does nothing.
LEMMA BackspaceAtEdge ==
  ASSUME NEW c \in Screens, c.cx = 0
  PROVE  Kputc(c, Backspace) = c
<1>1. Moved(c, Backspace) = c
  BY ShellAssumption DEF Moved
<1>2. ~(c.cy >= ROWS)
  BY SizeFacts DEF Screens, Consoles
<1>3. QED
  BY <1>1, <1>2 DEF Kputc

\* A row is changed.
LEMMA RowChanged ==
  ASSUME NEW c \in Consoles, NEW r \in [Col -> Cell], NEW n \in Nat
  PROVE  InRow(c, n, r) \in Consoles
<1>1. [c.text EXCEPT ![c.cy] = r] \in [Row -> [Col -> Cell]] /\ c.cy \in Row
  BY DEF Consoles
<1>2. QED
  BY <1>1 DEF Consoles, InRow

\* '\b' elsewhere: the cursor goes back and its cell is blank.
LEMMA BackspaceScreen ==
  ASSUME NEW c \in Screens, c.cx > 0
  PROVE  LET d == Kputc(c, Backspace)
         IN /\ d \in Screens /\ d.cx = c.cx - 1 /\ d.cy = c.cy
            /\ d.text[d.cy] = Erased(c.text[c.cy], c.cx - 1)
<1> DEFINE r == Erased(c.text[c.cy], c.cx - 1)
           d == InRow(c, c.cx - 1, r)
<1>1. c \in Consoles /\ Clear(c)
  BY DEF Screens
<1>2. /\ c.cx \in Nat /\ c.cy \in Row /\ c.text \in [Row -> [Col -> Cell]] /\ c.cx - 1 \in Nat
      /\ c.text[c.cy] \in [Col -> Cell]
  BY <1>1 DEF Consoles
<1>3. /\ r \in [Col -> Cell]
      /\ \A x \in Col : r[x] = IF x = c.cx - 1 THEN Space ELSE c.text[c.cy][x]
  BY <1>2 DEF Erased, Cell
<1>4. Moved(c, Backspace) = d
  BY <1>2, ShellAssumption DEF Moved
<1>5. d \in Consoles /\ d.cx = c.cx - 1 /\ d.cy = c.cy /\ d.text = [c.text EXCEPT ![c.cy] = r]
  BY <1>1, <1>2, <1>3, RowChanged DEF InRow
<1> HIDE DEF d
<1>6. Kputc(c, Backspace) = d
  BY <1>2, <1>4, <1>5, SizeFacts DEF Kputc
<1>7. Clear(d)
  <2>1. SUFFICES ASSUME NEW y \in Row, NEW x \in Col, y > c.cy \/ (y = c.cy /\ x >= c.cx - 1)
                 PROVE  d.text[y][x] = Space
    BY <1>5 DEF Clear
  <2>2. CASE y = c.cy
    <3>1. x = c.cx - 1 \/ x >= c.cx
      BY <1>2, <2>1, <2>2, SizeFacts
    <3>2. r[x] = Space
      BY <1>1, <1>2, <1>3, <3>1 DEF Clear
    <3>3. QED
      BY <1>2, <2>2, <3>2, <1>5
  <2>3. CASE y # c.cy
    BY <1>1, <1>2, <1>5, <2>1, <2>3 DEF Clear
  <2>4. QED
    BY <2>2, <2>3
<1>8. d.text[c.cy] = r
  BY <1>2, <1>5
<1>9. QED
  BY <1>5, <1>6, <1>7, <1>8 DEF Screens

\* Any other character is drawn in the blank cell at the cursor.
LEMMA GlyphScreen ==
  ASSUME NEW c \in Screens, NEW g \in Glyph \ {Newline, Backspace}
  PROVE  LET d == Kputc(c, g)
         IN /\ d \in Screens /\ d.cx = c.cx + 1 /\ d.cy = c.cy
            /\ d.text[d.cy] = [x \in Col |-> IF x = c.cx THEN g ELSE c.text[c.cy][x]]
<1> DEFINE r == [x \in Col |-> IF x = c.cx THEN g ELSE c.text[c.cy][x]]
           d == InRow(c, c.cx + 1, r)
<1>1. c \in Consoles /\ Clear(c)
  BY DEF Screens
<1>2. /\ c.cx \in Nat /\ c.cy \in Row /\ c.text \in [Row -> [Col -> Cell]] /\ c.cx + 1 \in Nat
      /\ c.text[c.cy] \in [Col -> Cell]
  BY <1>1 DEF Consoles
<1>3. r \in [Col -> Cell]
  BY <1>2 DEF Cell
<1>4. Drawn(c.text[c.cy], c.cx, g) = r
  <2>1. CASE c.cx \notin Col
    BY <1>2, <2>1 DEF Drawn
  <2>2. CASE c.cx \in Col
    <3>1. c.text[c.cy][c.cx] = Space
      BY <1>1, <1>2, <2>2 DEF Clear
    <3>2. CASE g = Space
      BY <1>2, <3>1, <3>2 DEF Drawn
    <3>3. CASE g # Space
      BY <1>2, <2>2, <3>1, <3>3 DEF Drawn
    <3>4. QED
      BY <3>2, <3>3
  <2>3. QED
    BY <2>1, <2>2
<1>5. Moved(c, g) = d
  BY <1>4, ShellAssumption DEF Moved
<1>6. d \in Consoles /\ d.cx = c.cx + 1 /\ d.cy = c.cy /\ d.text = [c.text EXCEPT ![c.cy] = r]
  BY <1>1, <1>2, <1>3, RowChanged DEF InRow
<1> HIDE DEF d
<1>7. Kputc(c, g) = d
  BY <1>2, <1>5, <1>6, SizeFacts DEF Kputc
<1>8. Clear(d)
  <2>1. SUFFICES ASSUME NEW y \in Row, NEW x \in Col, y > c.cy \/ (y = c.cy /\ x >= c.cx + 1)
                 PROVE  d.text[y][x] = Space
    BY <1>6 DEF Clear
  <2>2. CASE y = c.cy
    <3>1. x # c.cx /\ x >= c.cx
      BY <1>2, <2>1, <2>2, SizeFacts
    <3>2. r[x] = Space
      BY <1>1, <1>2, <3>1 DEF Clear
    <3>3. QED
      BY <1>2, <2>2, <3>2, <1>6
  <2>3. CASE y # c.cy
    BY <1>1, <1>2, <1>6, <2>1, <2>3 DEF Clear
  <2>4. QED
    BY <2>2, <2>3
<1>9. d.text[c.cy] = r
  BY <1>2, <1>6
<1>10. QED
  BY <1>6, <1>7, <1>8, <1>9 DEF Screens

\* Whatever is printed, nothing is drawn over anything.
LEMMA KputcScreen ==
  ASSUME NEW c \in Screens, NEW g \in Glyph \cup {Newline, Backspace}
  PROVE  Kputc(c, g) \in Screens
<1>1. CASE g = Newline
  BY <1>1, NewlineScreen
<1>2. CASE g = Backspace
  <2>1. c.cx \in Nat
    BY DEF Screens, Consoles
  <2>2. c.cx = 0 \/ c.cx > 0
    BY <2>1
  <2>3. QED
    BY <1>2, <2>2, BackspaceAtEdge, BackspaceScreen
<1>3. CASE g \in Glyph \ {Newline, Backspace}
  BY <1>3, GlyphScreen
<1>4. QED
  BY <1>1, <1>2, <1>3

LEMMA KputsScreen ==
  ASSUME NEW c \in Screens, NEW s, Len(s) \in Nat,
         \A i \in 1..Len(s) : s[i] \in Glyph \cup {Newline, Backspace}
  PROVE  Kputs(c, s) \in Screens
BY KputcScreen, KputsKeeps

-----------------------------------------------------------------------------
(* The prompt and the line behind it.                                      *)

\* The row of the cursor shows l, and the cursor is behind it.
Shows(l, c) ==
  /\ c.cx = Len(l) + 1
  /\ c.text[c.cy] = [x \in Col |-> IF x = 0 THEN Prompt ELSE IF x \in DOMAIN l THEN l[x] ELSE Space]

\* A new prompt shows the empty line.
LEMMA PromptShown ==
  ASSUME NEW c \in Screens
  PROVE  Kputs(c, NewPrompt) \in Screens /\ Shows(<<>>, Kputs(c, NewPrompt))
<1> DEFINE e == Kputc(c, Newline)
           d == Kputc(e, Prompt)
<1>1. Kputs(c, NewPrompt) = d
  BY KputsTwo DEF NewPrompt
<1>2. e \in Screens /\ e.cx = 0 /\ e.text[e.cy] = BlankRow
  BY NewlineScreen
<1>3. Prompt \in Glyph \ {Newline, Backspace}
  BY ShellAssumption DEF Glyph
<1> HIDE DEF e
<1>4. /\ d \in Screens /\ d.cx = e.cx + 1 /\ d.cy = e.cy
      /\ d.text[d.cy] = [x \in Col |-> IF x = e.cx THEN Prompt ELSE e.text[e.cy][x]]
  BY <1>2, <1>3, GlyphScreen
<1> HIDE DEF d
<1>5. d.text[d.cy] = [x \in Col |-> IF x = 0 THEN Prompt ELSE Space]
  BY <1>2, <1>4 DEF BlankRow
<1>6. Len(<<>>) = 0 /\ DOMAIN <<>> = {}
  OBVIOUS
<1>7. Shows(<<>>, d)
  BY <1>2, <1>4, <1>5, <1>6 DEF Shows
<1>8. QED
  BY <1>1, <1>4, <1>7

\* A character typed is shown behind the line.
LEMMA TypedShown ==
  ASSUME NEW c \in Screens, NEW l \in Seq(Typed), Shows(l, c), NEW g \in Typed
  PROVE  Kputc(c, g) \in Screens /\ Shows(Append(l, g), Kputc(c, g))
<1> DEFINE d == Kputc(c, g)
           m == Append(l, g)
<1>1. g \in Glyph \ {Newline, Backspace}
  BY ShellAssumption DEF Glyph
<1>2. /\ d \in Screens /\ d.cx = c.cx + 1 /\ d.cy = c.cy
      /\ d.text[d.cy] = [x \in Col |-> IF x = c.cx THEN g ELSE c.text[c.cy][x]]
  BY <1>1, GlyphScreen
<1> HIDE DEF d
<1>3. /\ Len(l) \in Nat /\ DOMAIN l = 1..Len(l)
      /\ Len(m) = Len(l) + 1 /\ DOMAIN m = 1..(Len(l) + 1)
      /\ m[Len(l) + 1] = g /\ \A x \in 1..Len(l) : m[x] = l[x]
  BY AppendProperties, LenProperties
<1> HIDE DEF m
<1>4. ASSUME NEW x \in Col
      PROVE  d.text[d.cy][x] = IF x = 0 THEN Prompt ELSE IF x \in DOMAIN m THEN m[x] ELSE Space
  <2>1. x \in Nat /\ c.cx = Len(l) + 1
    BY SizeFacts DEF Shows
  <2>2. c.text[c.cy][x] = IF x = 0 THEN Prompt ELSE IF x \in DOMAIN l THEN l[x] ELSE Space
    BY DEF Shows
  <2>3. CASE x = Len(l) + 1
    BY <1>2, <1>3, <2>1, <2>3
  <2>4. CASE x # Len(l) + 1
    <3>1. x \in DOMAIN m <=> x \in DOMAIN l
      BY <1>3, <2>1, <2>4
    <3>2. x \in DOMAIN l => m[x] = l[x]
      BY <1>3
    <3>3. d.text[d.cy][x] = c.text[c.cy][x]
      BY <1>2, <2>1, <2>4
    <3>4. QED
      BY <2>2, <3>1, <3>2, <3>3
  <2>5. QED
    BY <2>3, <2>4
<1>5. d.text[d.cy] = [x \in Col |-> IF x = 0 THEN Prompt ELSE IF x \in DOMAIN m THEN m[x] ELSE Space]
  BY <1>2, <1>4
<1>6. d.cx = Len(m) + 1
  BY <1>2, <1>3 DEF Shows
<1>7. Shows(m, d)
  BY <1>5, <1>6 DEF Shows
<1>8. QED
  BY <1>2, <1>7 DEF d, m

\* The line without its last character.
LEMMA FrontFacts ==
  ASSUME NEW l \in Seq(Typed), l # <<>>
  PROVE  /\ Front(l) \in Seq(Typed) /\ Len(Front(l)) = Len(l) - 1 /\ Len(l) \in Nat \ {0}
         /\ DOMAIN Front(l) = 1..(Len(l) - 1) /\ DOMAIN l = 1..Len(l)
         /\ \A x \in 1..(Len(l) - 1) : Front(l)[x] = l[x]
<1>1. Len(l) \in Nat \ {0} /\ DOMAIN l = 1..Len(l)
  BY EmptySeq, LenProperties
<1> DEFINE k == Len(l) - 1
<1>2. k \in Nat /\ k \in Int /\ \A x \in 1..k : l[x] \in Typed
  BY <1>1, ElementOfSeq
<1>3. Front(l) = SubSeq(l, 1, k)
  BY DEF Front
<1> HIDE DEF k
<1>4. /\ Front(l) \in Seq(Typed)
      /\ Len(Front(l)) = IF 1 <= k THEN k - 1 + 1 ELSE 0
      /\ \A x \in 1..(k - 1 + 1) : Front(l)[x] = l[1 + x - 1]
  BY <1>2, <1>3, SubSeqProperties
<1>5. Len(Front(l)) = k /\ \A x \in 1..k : Front(l)[x] = l[x]
  BY <1>2, <1>4
<1>6. DOMAIN Front(l) = 1..k
  BY <1>4, <1>5, LenProperties
<1>7. QED
  BY <1>1, <1>4, <1>5, <1>6 DEF k

\* "\b \b" takes the last character of the line from the screen.
LEMMA ErasedShown ==
  ASSUME NEW c \in Screens, NEW l \in Seq(Typed), l # <<>>, Shows(l, c)
  PROVE  LET d == Kputs(c, <<Backspace, Space, Backspace>>)
         IN d \in Screens /\ Shows(Front(l), d)
<1> DEFINE n == Len(l)
           e == Kputc(c, Backspace)
           f == Kputc(e, Space)
           d == Kputc(f, Backspace)
           m == Front(l)
<1>1. Kputs(c, <<Backspace, Space, Backspace>>) = d
  BY KputsThree
<1>2. /\ n \in Nat \ {0} /\ Len(m) = n - 1 /\ DOMAIN m = 1..(n - 1) /\ DOMAIN l = 1..n
      /\ \A x \in 1..(n - 1) : m[x] = l[x]
  BY FrontFacts
<1> HIDE DEF n, m
<1>3. c.cx = n + 1
  BY DEF Shows, n
<1>4. e \in Screens /\ e.cx = n /\ e.text[e.cy] = Erased(c.text[c.cy], n)
  BY <1>2, <1>3, BackspaceScreen
<1> HIDE DEF e
<1>5. Space \in Glyph \ {Newline, Backspace}
  BY ShellAssumption DEF Glyph
<1>6. /\ f \in Screens /\ f.cx = n + 1
      /\ f.text[f.cy] = [x \in Col |-> IF x = n THEN Space ELSE e.text[e.cy][x]]
  BY <1>4, <1>5, GlyphScreen
<1> HIDE DEF f
<1>7. d \in Screens /\ d.cx = n /\ d.text[d.cy] = Erased(f.text[f.cy], n)
  BY <1>2, <1>6, BackspaceScreen
<1> HIDE DEF d
<1>8. ASSUME NEW x \in Col
      PROVE  d.text[d.cy][x] = IF x = 0 THEN Prompt ELSE IF x \in DOMAIN m THEN m[x] ELSE Space
  <2>1. x \in Nat
    BY SizeFacts
  <2>2. c.text[c.cy][x] = IF x = 0 THEN Prompt ELSE IF x \in DOMAIN l THEN l[x] ELSE Space
    BY DEF Shows
  <2>3. CASE x = n
    <3>1. d.text[d.cy][x] = Space
      BY <1>6, <1>7, <2>3 DEF Erased
    <3>2. QED
      BY <1>2, <2>3, <3>1
  <2>4. CASE x # n
    <3>1. d.text[d.cy][x] = f.text[f.cy][x]
      BY <1>6, <1>7, <2>4 DEF Erased
    <3>2. f.text[f.cy][x] = e.text[e.cy][x]
      BY <1>6, <2>4
    <3>3. e.text[e.cy][x] = c.text[c.cy][x]
      <4>1. c.text[c.cy] = [z \in Col |-> c.text[c.cy][z]]
        BY DEF Shows
      <4>2. QED
        BY <1>4, <2>4, <4>1 DEF Erased
    <3>4. (x \in DOMAIN m <=> x \in DOMAIN l) /\ (x \in DOMAIN l => m[x] = l[x])
      BY <1>2, <2>1, <2>4
    <3>5. QED
      BY <2>2, <3>1, <3>2, <3>3, <3>4
  <2>5. QED
    BY <2>3, <2>4
<1>9. d.text[d.cy] = [x \in Col |-> IF x = 0 THEN Prompt ELSE IF x \in DOMAIN m THEN m[x] ELSE Space]
  <2>1. d.text[d.cy] = [x \in Col |-> d.text[d.cy][x]]
    BY <1>6, <1>7 DEF Erased
  <2>2. QED
    BY <1>8, <2>1
<1>10. Shows(m, d)
  BY <1>2, <1>7, <1>9 DEF Shows
<1>11. QED
  BY <1>1, <1>7, <1>10 DEF m

-----------------------------------------------------------------------------
(* The name and the arguments.                                             *)

\* The word that becomes the name is no longer than the line, nor than the name's
\* room, and holds no space.
LEMMA WordEndFacts ==
  ASSUME NEW l \in Seq(Typed)
  PROVE  /\ WordEnd(l) \in 0..Len(l) /\ WordEnd(l) <= FILE_SIZE - 1
         /\ Len(l) \in Nat /\ DOMAIN l = 1..Len(l)
<1> DEFINE S == {n \in 0..Len(l) : n <= FILE_SIZE - 1 /\ \A k \in 1..n : l[k] # Space}
<1>1. Len(l) \in Nat /\ DOMAIN l = 1..Len(l) /\ FILE_SIZE - 1 \in Nat
  BY LenProperties, ShellAssumption
<1>2. S \in SUBSET Nat /\ 0 \in S /\ \A n \in S : n <= Len(l)
  BY <1>1
<1>3. \E x \in S : \A y \in S : y <= x
  BY <1>1, <1>2, Greatest
<1>4. PICK x \in S : \A y \in S : y <= x
  BY <1>3
<1>5. \A y \in S : x >= y
  BY <1>1, <1>2, <1>4
<1>6. Max(S) \in S
  BY <1>5 DEF Max
<1>7. WordEnd(l) \in S
  BY <1>6 DEF WordEnd
<1>8. QED
  BY <1>1, <1>7

LEMMA WordFacts ==
  ASSUME NEW l \in Seq(Typed)
  PROVE  Word(l) \in Seq(Typed) /\ Len(Word(l)) \in Nat /\ Len(Word(l)) <= FILE_SIZE - 1
<1> DEFINE n == WordEnd(l)
<1>1. n \in 0..Len(l) /\ n <= FILE_SIZE - 1 /\ Len(l) \in Nat
  BY WordEndFacts
<1>2. n \in Nat /\ \A i \in 1..n : i \in 1..Len(l)
  BY <1>1
<1>3. n \in Int /\ \A i \in 1..n : l[i] \in Typed
  BY <1>1, <1>2, ElementOfSeq
<1>4. Word(l) = SubSeq(l, 1, n)
  BY DEF Word
<1> HIDE DEF n
<1>5. /\ Word(l) \in Seq(Typed)
      /\ Len(Word(l)) = IF 1 <= n THEN n - 1 + 1 ELSE 0
  BY <1>3, <1>4, SubSeqProperties
<1>6. QED
  BY <1>1, <1>2, <1>5, ShellAssumption

\* The arguments are what follows the space behind the name.
LEMMA ArgStrFacts ==
  ASSUME NEW l \in Seq(Typed)
  PROVE  /\ ArgStr(l) \in Seq(Typed) /\ Len(ArgStr(l)) \in Nat
         /\ DOMAIN ArgStr(l) = 1..Len(ArgStr(l))
         /\ HasArgs(l) => /\ WordEnd(l) + 1 + Len(ArgStr(l)) = Len(l)
                          /\ \A j \in 1..Len(ArgStr(l)) : ArgStr(l)[j] = l[WordEnd(l) + 1 + j]
         /\ ~HasArgs(l) => ArgStr(l) = <<>>
<1> DEFINE n == WordEnd(l)
           a == ArgStr(l)
<1>1. n \in 0..Len(l) /\ Len(l) \in Nat /\ n \in Nat
  BY WordEndFacts
<1>2. CASE ~HasArgs(l)
  <2>1. a = <<>>
    BY <1>2 DEF ArgStr
  <2>2. QED
    BY <1>2, <2>1
<1>3. CASE HasArgs(l)
  <2> DEFINE b == n + 2
             k == Len(l)
  <2>1. a = SubSeq(l, b, k) /\ n < k
    BY <1>3 DEF ArgStr, HasArgs
  <2>2. \A i \in b..k : i \in 1..k
    BY <1>1
  <2>3. b \in Int /\ k \in Int /\ \A i \in b..k : l[i] \in Typed
    BY <1>1, <2>2, ElementOfSeq
  <2> HIDE DEF a, b, k, n
  <2>4. /\ a \in Seq(Typed) /\ Len(a) = IF b <= k THEN k - b + 1 ELSE 0
        /\ \A i \in 1..(k - b + 1) : a[i] = l[b + i - 1]
    BY <2>1, <2>3, SubSeqProperties
  <2>5. n \in Nat /\ b = n + 2 /\ k \in Nat /\ n < k /\ k = Len(l)
    BY <1>1, <2>1 DEF b, k
  <2>6. Len(a) = k - (n + 1) /\ Len(a) \in Nat
    BY <2>4, <2>5
  <2>7. \A j \in 1..Len(a) : a[j] = l[n + 1 + j]
    <3>1. TAKE j \in 1..Len(a)
    <3>2. j \in 1..(k - b + 1) /\ b + j - 1 = n + 1 + j
      BY <2>5, <2>6
    <3>3. QED
      BY <2>4, <3>2
  <2>8. DOMAIN a = 1..Len(a)
    BY <2>4, LenProperties
  <2>9. n + 1 + Len(a) = Len(l)
    BY <2>5, <2>6
  <2>10. QED
    BY <1>3, <2>4, <2>6, <2>7, <2>8, <2>9 DEF a, n
<1>4. QED
  BY <1>2, <1>3

\* The places of the spaces.
Spaces(s) == {j \in DOMAIN s : s[j] = Space}

LEMMA PlacesFinite ==
  ASSUME NEW s \in Seq(Typed)
  PROVE  /\ Spaces(s) \in SUBSET Nat /\ IsFiniteSet(Spaces(s)) /\ Cardinality(Spaces(s)) \in Nat
         /\ WordStarts(s) \in SUBSET Nat /\ IsFiniteSet(WordStarts(s))
         /\ Cardinality(WordStarts(s)) \in Nat
<1>1. Len(s) \in Nat /\ DOMAIN s = 1..Len(s)
  BY LenProperties
<1>2. IsFiniteSet(1..Len(s))
  BY <1>1, FS_Interval
<1>3. Spaces(s) \in SUBSET (1..Len(s)) /\ WordStarts(s) \in SUBSET (1..Len(s))
  BY <1>1 DEF Spaces, WordStarts
<1>4. IsFiniteSet(Spaces(s)) /\ IsFiniteSet(WordStarts(s))
  BY <1>2, <1>3, FS_Subset
<1>5. \A x \in 1..Len(s) : x \in Nat
  OBVIOUS
<1>6. QED
  BY <1>3, <1>4, <1>5, FS_CardinalityType

LEMMA MinOfTwo == ASSUME NEW a \in Int, NEW b \in Int PROVE Min({a, b}) = IF a <= b THEN a ELSE b
BY DEF Min
LEMMA MaxOfTwo == ASSUME NEW a \in Int, NEW b \in Int PROVE Max({a, b}) = IF a >= b THEN a ELSE b
BY DEF Max

\* How many arguments are written after the first one.
Further(s) == Min({Cardinality(Spaces(s)), Max({Argc(s) - 2, 0})})

LEMMA FurtherFacts ==
  ASSUME NEW s \in Seq(Typed)
  PROVE  /\ Argc(s) \in Nat \ {0} /\ Further(s) \in 0..Cardinality(Spaces(s))
         /\ Argc(s) - 2 >= Cardinality(Spaces(s)) => Further(s) = Cardinality(Spaces(s))
<1> DEFINE k == Cardinality(Spaces(s))
<1>1. k \in Nat /\ Argc(s) \in Nat \ {0}
  BY PlacesFinite DEF Argc
<1>2. Argc(s) - 2 \in Int /\ 0 \in Int /\ k \in Int
  BY <1>1
<1>3. Max({Argc(s) - 2, 0}) = IF Argc(s) - 2 >= 0 THEN Argc(s) - 2 ELSE 0
  BY <1>2, MaxOfTwo
<1>4. Max({Argc(s) - 2, 0}) \in Nat
  BY <1>1, <1>3
<1>5. Further(s) = IF k <= Max({Argc(s) - 2, 0}) THEN k ELSE Max({Argc(s) - 2, 0})
  <2> DEFINE m == Max({Argc(s) - 2, 0})
  <2>1. m \in Int /\ Further(s) = Min({k, m})
    BY <1>4 DEF Further
  <2> HIDE DEF m, k
  <2>2. Further(s) = IF k <= m THEN k ELSE m
    BY <1>2, <2>1, MinOfTwo
  <2>3. QED
    BY <2>2 DEF m
<1> HIDE DEF k
<1>6. QED
  BY <1>1, <1>3, <1>4, <1>5 DEF k

\* What argv is: the first argument, and what follows the first spaces.
LEMMA ArgvFacts ==
  ASSUME NEW l \in Seq(Typed), HasArgs(l)
  PROVE  LET s == ArgStr(l)
             n == Further(s)
         IN /\ Argv(l) \in Seq(Nat) /\ Len(Argv(l)) = n + 1
            /\ Argv(l)[1] = 1
            /\ \A k \in 1..n : InOrder(Spaces(s))[k] \in Spaces(s)
                               /\ Argv(l)[k + 1] = InOrder(Spaces(s))[k] + 1
<1> DEFINE s == ArgStr(l)
           n == Further(s)
           o == InOrder(Spaces(s))
           t == [k \in 1..n |-> o[k] + 1]
<1>1. s \in Seq(Typed)
  BY ArgStrFacts
<1>2. /\ Spaces(s) \in SUBSET Nat /\ Cardinality(Spaces(s)) \in Nat
      /\ o \in [1..Cardinality(Spaces(s)) -> Spaces(s)]
  BY <1>1, PlacesFinite, InOrderLists
<1>3. o \in Seq(Nat) /\ Len(o) = Cardinality(Spaces(s))
  <2> HIDE DEF o, s
  <2>1. o \in [1..Cardinality(Spaces(s)) -> Nat]
    BY <1>2
  <2>2. QED
    BY <1>2, <2>1
<1>4. Argv(l) = <<1>> \o t
  BY <1>3 DEF Argv, Spaces, Further
<1>5. n \in Nat /\ n <= Cardinality(Spaces(s))
  BY <1>1, <1>2, FurtherFacts
<1> HIDE DEF o, s, n
<1>6. \A k \in 1..n : o[k] \in Spaces(s)
  <2>1. \A k \in 1..n : k \in 1..Cardinality(Spaces(s))
    BY <1>2, <1>5
  <2>2. QED
    BY <1>2, <2>1
<1>7. \A k \in 1..n : o[k] + 1 \in Nat
  BY <1>2, <1>6
<1>8. t \in Seq(Nat) /\ Len(t) = n /\ \A k \in 1..n : t[k] = o[k] + 1
  BY <1>5, <1>7
<1>9. <<1>> \in Seq(Nat) /\ Len(<<1>>) = 1 /\ <<1>>[1] = 1
  OBVIOUS
<1> HIDE DEF t
<1>10. /\ Argv(l) \in Seq(Nat) /\ Len(Argv(l)) = 1 + n
       /\ \A i \in 1..(1 + n) : Argv(l)[i] = IF i <= 1 THEN <<1>>[i] ELSE t[i - 1]
  BY <1>4, <1>8, <1>9, ConcatProperties
<1>11. Argv(l)[1] = 1
  BY <1>5, <1>9, <1>10
<1>12. \A k \in 1..n : Argv(l)[k + 1] = o[k] + 1
  <2>1. TAKE k \in 1..n
  <2>2. k + 1 \in 1..(1 + n) /\ ~(k + 1 <= 1) /\ (k + 1) - 1 = k
    BY <1>5
  <2>3. QED
    BY <1>8, <1>10, <2>2
<1>13. QED
  BY <1>5, <1>6, <1>10, <1>11, <1>12 DEF o, s, n

\* Moved on by one, a set of places is as large.
LEMMA Shifted ==
  ASSUME NEW S \in SUBSET Nat, IsFiniteSet(S)
  PROVE  LET T == {j + 1 : j \in S} IN IsFiniteSet(T) /\ Cardinality(T) = Cardinality(S)
<1> DEFINE T == {j + 1 : j \in S}
           f == [j \in S |-> j + 1]
<1>1. f \in [S -> T] /\ \A t \in T : \E j \in S : f[j] = t
  OBVIOUS
<1>2. \A a, b \in S : f[a] = f[b] => a = b
  <2>1. TAKE a, b \in S
  <2>2. a \in Nat /\ b \in Nat
    OBVIOUS
  <2>3. QED
    BY <2>2
<1>3. f \in Bijection(S, T)
  BY <1>1, <1>2 DEF Bijection, Injection, Surjection, IsInjective
<1>4. ExistsBijection(S, T)
  BY <1>3 DEF ExistsBijection
<1>5. QED
  BY <1>4, FS_Bijection

\* The arguments of a plain line are one at least, none is empty and all are
\* separate: a word starts at the first place and behind every space.
LEMMA PlainStarts ==
  ASSUME NEW l \in Seq(Typed), Plain(l), HasArgs(l)
  PROVE  LET s == ArgStr(l)
         IN /\ WordStarts(s) = {1} \cup {j + 1 : j \in Spaces(s)}
            /\ 1 \notin {j + 1 : j \in Spaces(s)}
<1> DEFINE s == ArgStr(l)
           w == WordEnd(l) + 1
<1>1. /\ s \in Seq(Typed) /\ Len(s) \in Nat /\ DOMAIN s = 1..Len(s)
      /\ w + Len(s) = Len(l) /\ \A j \in 1..Len(s) : s[j] = l[w + j]
  BY ArgStrFacts
<1>2. WordEnd(l) \in Nat /\ Len(l) \in Nat /\ DOMAIN l = 1..Len(l)
  BY WordEndFacts
<1>3. w \in 1..Len(l) /\ l[w] = Space
  BY <1>2 DEF HasArgs
<1> HIDE DEF s, w
<1>4. w < Len(l) /\ l[w + 1] # Space
  BY <1>2, <1>3 DEF Plain
<1>5. w \in Nat /\ Len(s) >= 1
  BY <1>1, <1>2, <1>3, <1>4
<1>6. s[1] # Space
  BY <1>1, <1>4, <1>5
<1>7. \A j \in Spaces(s) : j \in 1..Len(s) /\ j + 1 \in 1..Len(s) /\ s[j + 1] # Space /\ (j + 1) - 1 = j
  <2>1. TAKE j \in Spaces(s)
  <2>2. j \in 1..Len(s) /\ s[j] = Space
    BY <1>1 DEF Spaces
  <2>3. w + j \in 1..Len(l) /\ l[w + j] = Space
    BY <1>1, <1>2, <1>5, <2>2
  <2>4. w + j < Len(l) /\ l[(w + j) + 1] # Space
    BY <1>2, <2>3 DEF Plain
  <2>5. j + 1 \in 1..Len(s) /\ (w + j) + 1 = w + (j + 1)
    BY <1>1, <1>2, <1>5, <2>2, <2>4
  <2>6. s[j + 1] # Space
    BY <1>1, <2>4, <2>5
  <2>7. QED
    BY <2>2, <2>5, <2>6
<1>8. ASSUME NEW x \in WordStarts(s) PROVE x \in {1} \cup {j + 1 : j \in Spaces(s)}
  <2>1. x \in 1..Len(s) /\ s[x] # Space /\ (x > 1 => s[x - 1] = Space)
    BY <1>1 DEF WordStarts
  <2>2. CASE x = 1
    BY <2>2
  <2>3. CASE x # 1
    <3>1. x - 1 \in 1..Len(s) /\ (x - 1) + 1 = x /\ x > 1
      BY <1>1, <2>1, <2>3
    <3>2. x - 1 \in Spaces(s)
      BY <1>1, <2>1, <3>1 DEF Spaces
    <3>3. QED
      BY <3>1, <3>2
  <2>4. QED
    BY <2>2, <2>3
<1>9. 1 \in WordStarts(s)
  BY <1>1, <1>5, <1>6 DEF WordStarts
<1>10. ASSUME NEW j \in Spaces(s) PROVE j + 1 \in WordStarts(s)
  BY <1>1, <1>7 DEF WordStarts, Spaces
<1>11. \A j \in Spaces(s) : j + 1 # 1
  <2>1. TAKE j \in Spaces(s)
  <2>2. j \in 1..Len(s)
    BY <1>7
  <2>3. QED
    BY <1>1, <2>2
<1>12. WordStarts(s) = {1} \cup {j + 1 : j \in Spaces(s)}
  BY <1>8, <1>9, <1>10
<1>13. QED
  BY <1>11, <1>12 DEF s

\* A plain line's words are the elements of argv, in their order.
LEMMA PlainArgv ==
  ASSUME NEW l \in Seq(Typed), Plain(l)
  PROVE  /\ Argv(l) = InOrder(WordStarts(ArgStr(l)))
         /\ Argc(ArgStr(l)) = Len(Argv(l)) + 1
<1> DEFINE s == ArgStr(l)
           W == WordStarts(s)
           k == Cardinality(Spaces(s))
           o == InOrder(Spaces(s))
<1>1. s \in Seq(Typed)
  BY ArgStrFacts
<1>2. CASE ~HasArgs(l)
  <2>1. s = <<>> /\ Argv(l) = <<>>
    BY <1>2, ArgStrFacts DEF Argv
  <2>2. W = {}
    BY <2>1 DEF WordStarts
  <2>3. Cardinality(W) = 0 /\ InOrder(W) = <<>> /\ Len(Argv(l)) = 0
    BY <2>1, <2>2, FS_EmptySet, InOrderEmpty
  <2>4. QED
    BY <2>1, <2>3 DEF Argc
<1>3. CASE HasArgs(l)
  <2> DEFINE T == {j + 1 : j \in Spaces(s)}
  <2>1. W = {1} \cup T /\ 1 \notin T
    BY <1>3, PlainStarts
  <2>2. /\ Spaces(s) \in SUBSET Nat /\ IsFiniteSet(Spaces(s)) /\ k \in Nat
        /\ W \in SUBSET Nat /\ IsFiniteSet(W)
    BY <1>1, PlacesFinite
  <2>3. IsFiniteSet(T) /\ Cardinality(T) = k
    BY <2>2, Shifted
  <2>4. W = T \cup {1}
    BY <2>1
  <2>5. Cardinality(W) = k + 1
    <3> HIDE DEF T, W, k
    <3>1. QED
      BY <2>1, <2>3, <2>4, FS_AddElement
  <2>6. Argc(s) = k + 2
    BY <2>2, <2>5 DEF Argc
  <2>7. Further(s) = k
    BY <1>1, <2>2, <2>6, FurtherFacts
  <2>8. /\ Argv(l) \in Seq(Nat) /\ Len(Argv(l)) = k + 1 /\ Argv(l)[1] = 1
        /\ \A i \in 1..k : o[i] \in Spaces(s) /\ Argv(l)[i + 1] = o[i] + 1
    BY <1>3, <2>7, ArgvFacts
  <2>9. /\ o \in [1..k -> Spaces(s)] /\ Ascending(o)
        /\ \A x \in Spaces(s) : \E i \in 1..k : o[i] = x
    BY <2>2, InOrderLists
  <2>10. DOMAIN Argv(l) = 1..(k + 1)
    BY <2>8, LenProperties
  <2> DEFINE q == Argv(l)
  <2> HIDE DEF q, o, k, W
  <2>11. ASSUME NEW i \in 1..(k + 1), i # 1
         PROVE  /\ i - 1 \in 1..k /\ q[i] = o[i - 1] + 1 /\ o[i - 1] \in Spaces(s)
                /\ o[i - 1] \in Nat
    <3>1. i - 1 \in 1..k /\ (i - 1) + 1 = i
      BY <2>2, <2>11
    <3>2. q[i] = o[i - 1] + 1 /\ o[i - 1] \in Spaces(s)
      BY <2>8, <3>1 DEF q
    <3>3. QED
      BY <2>2, <3>1, <3>2
  <2>12. q \in [1..(k + 1) -> W]
    <3>1. ASSUME NEW i \in 1..(k + 1) PROVE q[i] \in W
      <4>1. CASE i = 1
        BY <2>1, <2>8, <4>1 DEF q
      <4>2. CASE i # 1
        <5>1. q[i] \in T
          BY <2>11, <4>2
        <5>2. QED
          BY <2>1, <5>1
      <4>3. QED
        BY <4>1, <4>2
    <3>2. q \in [1..(k + 1) -> Nat]
      BY <2>8, <2>10, LenProperties DEF q
    <3>3. QED
      BY <3>1, <3>2
  <2>13. Ascending(q)
    <3>1. SUFFICES ASSUME NEW i \in 1..(k + 1), NEW j \in 1..(k + 1), i < j PROVE q[i] < q[j]
      BY <2>12 DEF Ascending
    <3>2. j # 1 /\ j \in Nat /\ i \in Nat
      BY <2>2, <3>1
    <3>3. j - 1 \in 1..k /\ q[j] = o[j - 1] + 1 /\ o[j - 1] \in Nat /\ o[j - 1] \in Spaces(s)
      BY <2>11, <3>2
    <3>4. CASE i = 1
      <4>1. o[j - 1] # 0
        <5>1. o[j - 1] + 1 # 1
          BY <2>1, <3>3
        <5>2. QED
          BY <3>3, <5>1
      <4>2. q[i] = 1
        BY <2>8, <3>4 DEF q
      <4>3. QED
        BY <3>3, <4>1, <4>2
    <3>5. CASE i # 1
      <4>1. i - 1 \in 1..k /\ q[i] = o[i - 1] + 1 /\ o[i - 1] \in Nat
        BY <2>11, <3>5
      <4>2. i - 1 < j - 1
        BY <3>1, <3>2
      <4>3. o[i - 1] < o[j - 1]
        BY <2>9, <3>3, <4>1, <4>2 DEF Ascending
      <4>4. QED
        BY <3>3, <4>1, <4>3
    <3>6. QED
      BY <3>4, <3>5
  <2>14. \A x \in W : \E i \in 1..(k + 1) : q[i] = x
    <3>1. TAKE x \in W
    <3>2. CASE x = 1
      <4>1. 1 \in 1..(k + 1) /\ q[1] = x
        BY <2>2, <2>8, <3>2 DEF q
      <4>2. QED
        BY <4>1
    <3>3. CASE x # 1
      <4>1. PICK j \in Spaces(s) : x = j + 1
        BY <2>1, <3>3
      <4>2. PICK i \in 1..k : o[i] = j
        BY <2>9
      <4>3. i + 1 \in 1..(k + 1)
        BY <2>2
      <4>4. q[i + 1] = x
        BY <2>8, <4>1, <4>2 DEF q
      <4>5. QED
        BY <4>3, <4>4
    <3>4. QED
      BY <3>2, <3>3
  <2>15. /\ InOrder(W) \in [1..Cardinality(W) -> W] /\ Ascending(InOrder(W))
         /\ \A x \in W : \E i \in 1..Cardinality(W) : InOrder(W)[i] = x
    BY <2>2, InOrderLists
  <2>16. Cardinality(W) = k + 1 /\ k + 1 \in Nat
    BY <2>2, <2>5 DEF W, k
  <2> DEFINE c == k + 1
             p == InOrder(W)
  <2>17. /\ c \in Nat /\ p \in [1..c -> W] /\ Ascending(p) /\ \A x \in W : \E i \in 1..c : p[i] = x
         /\ q \in [1..c -> W] /\ \A x \in W : \E i \in 1..c : q[i] = x
    BY <2>12, <2>14, <2>15, <2>16
  <2> HIDE DEF c, p
  <2>18. p = q
    BY <2>2, <2>13, <2>17, OneOrder
  <2>19. QED
    BY <2>2, <2>6, <2>8, <2>18 DEF p, q, W
<1>4. QED
  BY <1>2, <1>3

-----------------------------------------------------------------------------
(* The inductive invariant: the screen is clear behind the cursor, shows   *)
(* the line while there is a prompt, and a running program was given what  *)
(* run_file makes of the line.                                             *)

\* What run_file makes of the line l.
RunOf(l) ==
  [name |-> WithSuffix(Word(l)), prog |-> To83(WithSuffix(Word(l))), args |-> ArgStr(l),
   argc |-> Argc(ArgStr(l)), argv |-> Argv(l)]

IInv ==
  /\ line \in Seq(Typed) /\ Len(line) < LINE_SIZE
  /\ con \in Screens
  /\ pc \in {"prompt", "user"}
  /\ pc = "prompt" => Shows(line, con) /\ run = NoRun
  /\ pc = "user" => run = RunOf(line) /\ ~TooLong(Word(line))

\* After any output the prompt stands before an empty line.
LEMMA PromptAgain ==
  ASSUME NEW c \in Screens, PromptAfter(c)
  PROVE  /\ line' \in Seq(Typed) /\ Len(line') < LINE_SIZE /\ con' \in Screens
         /\ pc' = "prompt" /\ Shows(line', con')
<1>1. line' = <<>> /\ con' = Kputs(c, NewPrompt) /\ pc' = "prompt"
  BY DEF PromptAfter
<1>2. con' \in Screens /\ Shows(<<>>, con')
  BY <1>1, PromptShown
<1>3. <<>> \in Seq(Typed) /\ Len(<<>>) < LINE_SIZE
  BY ShellAssumption
<1>4. QED
  BY <1>1, <1>2, <1>3

\* What a program or a command prints leaves a clear screen.
LEMMA OutputScreen ==
  ASSUME NEW c \in Screens, NEW out \in Output
  PROVE  Kputs(c, out) \in Screens
<1>1. Len(out) \in Nat
  BY ShellAssumption
<1>2. \A i \in 1..Len(out) : out[i] \in Glyph
  BY DEF Glyph
<1>3. QED
  BY <1>1, <1>2, KputsScreen

\* So does a text of characters that can be typed, with or without a newline.
LEMMA TextScreen ==
  ASSUME NEW c \in Screens, NEW l \in Seq(Typed)
  PROVE  Kputs(c, l) \in Screens /\ Kputs(c, <<Newline>> \o l) \in Screens
<1> DEFINE A == Glyph \cup {Newline, Backspace}
           t == <<Newline>> \o l
<1>1. ASSUME NEW u \in Seq(A) PROVE Kputs(c, u) \in Screens
  <2>1. Len(u) \in Nat /\ \A i \in 1..Len(u) : u[i] \in A
    BY LenProperties, ElementOfSeq
  <2>2. QED
    BY <2>1, KputsScreen
<1>2. Typed \subseteq A /\ Newline \in A
  BY DEF Glyph
<1> HIDE DEF A
<1>3. l \in Seq(A) /\ <<Newline>> \in Seq(A)
  BY <1>2
<1>4. t \in Seq(A)
  BY <1>3, ConcatProperties
<1>5. QED
  BY <1>1, <1>3, <1>4

LEMMA ShellInit == Init => IInv
<1> SUFFICES ASSUME Init PROVE IInv
  OBVIOUS
<1>1. line = <<>> /\ con = Kputs(Cleared, NewPrompt) /\ pc = "prompt" /\ run = NoRun
  BY DEF Init
<1>2. con \in Screens /\ Shows(<<>>, con)
  BY <1>1, ClearedScreen, PromptShown
<1>3. <<>> \in Seq(Typed) /\ Len(<<>>) < LINE_SIZE
  BY ShellAssumption
<1>4. QED
  BY <1>1, <1>2, <1>3 DEF IInv

LEMMA TypeCharStep == ASSUME IInv, NEW c \in Typed, TypeChar(c) PROVE IInv'
<1>1. /\ line \in Seq(Typed) /\ Len(line) < LINE_SIZE /\ con \in Screens /\ pc = "prompt"
      /\ Shows(line, con) /\ run = NoRun /\ pc' = pc /\ run' = run
  BY DEF IInv, TypeChar
<1>2. CASE Len(line) < LINE_SIZE - 1
  <2>1. line' = Append(line, c) /\ con' = Kputc(con, c)
    BY <1>2 DEF TypeChar
  <2>2. line' \in Seq(Typed) /\ Len(line') = Len(line) + 1 /\ Len(line) \in Nat
    BY <1>1, <2>1, AppendProperties, LenProperties
  <2>3. Len(line') < LINE_SIZE
    BY <1>2, <2>2, ShellAssumption
  <2>4. con' \in Screens /\ Shows(line', con')
    BY <1>1, <2>1, TypedShown
  <2>5. QED
    BY <1>1, <2>2, <2>3, <2>4 DEF IInv
<1>3. CASE ~(Len(line) < LINE_SIZE - 1)
  <2>1. line' = line /\ con' = con
    BY <1>3 DEF TypeChar
  <2>2. QED
    BY <1>1, <2>1 DEF IInv
<1>4. QED
  BY <1>2, <1>3

LEMMA TypeBackspaceStep == ASSUME IInv, TypeBackspace PROVE IInv'
<1>1. /\ line \in Seq(Typed) /\ Len(line) < LINE_SIZE /\ con \in Screens /\ pc = "prompt"
      /\ Shows(line, con) /\ run = NoRun /\ pc' = pc /\ run' = run
  BY DEF IInv, TypeBackspace
<1>2. CASE line # <<>>
  <2>1. line' = Front(line) /\ con' = Kputs(con, <<Backspace, Space, Backspace>>)
    BY <1>2 DEF TypeBackspace
  <2>2. line' \in Seq(Typed) /\ Len(line') = Len(line) - 1 /\ Len(line) \in Nat
    BY <1>1, <1>2, <2>1, FrontFacts
  <2>3. Len(line') < LINE_SIZE
    BY <1>1, <2>2, ShellAssumption
  <2>4. con' \in Screens /\ Shows(line', con')
    BY <1>1, <1>2, <2>1, ErasedShown
  <2>5. QED
    BY <1>1, <2>2, <2>3, <2>4 DEF IInv
<1>3. CASE line = <<>>
  <2>1. line' = line /\ con' = con
    BY <1>3 DEF TypeBackspace
  <2>2. QED
    BY <1>1, <2>1 DEF IInv
<1>4. QED
  BY <1>2, <1>3

\* A newline that starts no program.
LEMMA EnterStep ==
  ASSUME IInv, EnterBuiltin \/ EnterClear \/ EnterEmpty \/ EnterTooLong \/ EnterUnknown
  PROVE  IInv'
<1>1. /\ line \in Seq(Typed) /\ con \in Screens /\ pc = "prompt" /\ run = NoRun /\ run' = run
  BY DEF IInv, EnterBuiltin, EnterClear, EnterEmpty, EnterTooLong, EnterUnknown
<1>2. \E c \in Screens : PromptAfter(c)
  <2>1. CASE EnterBuiltin
    BY <1>1, <2>1, OutputScreen DEF EnterBuiltin
  <2>2. CASE EnterClear
    BY <2>2, ClearedScreen DEF EnterClear
  <2>3. CASE EnterEmpty
    BY <1>1, <2>3 DEF EnterEmpty
  <2>4. CASE EnterTooLong
    <3>1. Word(line) \in Seq(Typed)
      BY <1>1, WordFacts
    <3>2. QED
      BY <1>1, <2>4, <3>1, TextScreen DEF EnterTooLong
  <2>5. CASE EnterUnknown
    BY <1>1, <2>5, TextScreen DEF EnterUnknown
  <2>6. QED
    BY <2>1, <2>2, <2>3, <2>4, <2>5
<1>3. QED
  BY <1>1, <1>2, PromptAgain DEF IInv

LEMMA EnterRunStep == ASSUME IInv, EnterRun PROVE IInv'
<1>1. /\ line \in Seq(Typed) /\ Len(line) < LINE_SIZE /\ con \in Screens
      /\ ~TooLong(Word(line)) /\ run' = RunOf(line)
      /\ con' = Kputc(con, Newline) /\ pc' = "user" /\ line' = line
  BY DEF IInv, EnterRun, RunOf
<1>2. con' \in Screens
  BY <1>1, NewlineScreen
<1>3. QED
  BY <1>1, <1>2 DEF IInv

LEMMA ProgramStep == ASSUME IInv, ProgramWrites \/ ProgramReturns PROVE IInv'
<1>1. CASE ProgramWrites
  <2>1. PICK out \in Output : con' = Kputs(con, out)
    BY <1>1 DEF ProgramWrites
  <2>2. /\ con \in Screens /\ pc = "user" /\ pc' = pc /\ line' = line /\ run' = run
    BY <1>1 DEF IInv, ProgramWrites
  <2>3. con' \in Screens
    BY <2>1, <2>2, OutputScreen
  <2>4. QED
    BY <2>2, <2>3 DEF IInv
<1>2. CASE ProgramReturns
  <2>1. con \in Screens /\ PromptAfter(con) /\ run' = NoRun
    BY <1>2 DEF IInv, ProgramReturns
  <2>2. QED
    BY <2>1, PromptAgain DEF IInv
<1>3. QED
  BY <1>1, <1>2

LEMMA ShellStep == ASSUME IInv, [Next]_vars PROVE IInv'
<1>1. CASE UNCHANGED vars
  BY <1>1 DEF IInv, vars
<1>2. CASE Next
  BY <1>2, TypeCharStep, TypeBackspaceStep, EnterStep, EnterRunStep, ProgramStep DEF Next
<1>3. QED
  BY <1>1, <1>2

THEOREM Invariant == Spec => []IInv
BY ShellInit, ShellStep, PTL DEF Spec

-----------------------------------------------------------------------------
(* The theorems.                                                           *)

\* What is handed to a program is of its type: no element of argv points behind
\* the end of the arguments.
LEMMA RunTyped ==
  ASSUME NEW l \in Seq(Typed), Len(l) < LINE_SIZE
  PROVE  Argc(ArgStr(l)) \in Nat /\ \A i \in DOMAIN Argv(l) : Argv(l)[i] \in 1..LINE_SIZE
<1> DEFINE s == ArgStr(l)
           q == Argv(l)
<1>1. s \in Seq(Typed) /\ Len(s) \in Nat /\ DOMAIN s = 1..Len(s)
  BY ArgStrFacts
<1>2. Argc(s) \in Nat
  BY <1>1, FurtherFacts
<1>3. LINE_SIZE \in Nat \ {0} /\ Len(l) \in Nat
  BY ShellAssumption, LenProperties
<1>4. CASE ~HasArgs(l)
  BY <1>2, <1>4 DEF Argv
<1>5. CASE HasArgs(l)
  <2>1. WordEnd(l) + 1 + Len(s) = Len(l) /\ WordEnd(l) \in Nat
    BY <1>5, ArgStrFacts, WordEndFacts
  <2> DEFINE n == Further(s)
             o == InOrder(Spaces(s))
  <2>2. /\ q \in Seq(Nat) /\ Len(q) = n + 1 /\ q[1] = 1
        /\ \A k \in 1..n : o[k] \in Spaces(s) /\ q[k + 1] = o[k] + 1
    BY <1>5, ArgvFacts
  <2>3. n \in Nat
    BY <1>1, FurtherFacts, PlacesFinite
  <2> HIDE DEF n, o, s
  <2>4. DOMAIN q = 1..(n + 1)
    BY <2>2, LenProperties
  <2> HIDE DEF q
  <2>5. ASSUME NEW i \in DOMAIN q PROVE q[i] \in 1..LINE_SIZE
    <3>1. CASE i = 1
      BY <1>3, <2>2, <3>1
    <3>2. CASE i # 1
      <4>1. i - 1 \in 1..n /\ (i - 1) + 1 = i
        BY <2>3, <2>4, <3>2
      <4>2. q[i] = o[i - 1] + 1 /\ o[i - 1] \in 1..Len(s)
        BY <1>1, <2>2, <4>1 DEF Spaces
      <4>3. QED
        BY <1>1, <1>3, <2>1, <4>2
    <3>3. QED
      BY <3>1, <3>2
  <2>6. QED
    BY <1>2, <2>5 DEF q, s
<1>6. QED
  BY <1>4, <1>5

\* The variables keep their types, the line its size and the cursor the screen.
THEOREM Typing == Spec => []TypeOK
<1>1. ASSUME IInv PROVE TypeOK
  <2>1. con.cx \in Nat /\ con.cy \in Row /\ DOMAIN con.text = Row
        /\ \A y \in Row : DOMAIN con.text[y] = Col
    BY <1>1 DEF IInv, Screens, Consoles
  <2>2. run.argc \in Nat /\ \A i \in DOMAIN run.argv : run.argv[i] \in 1..LINE_SIZE
    <3>1. CASE pc = "prompt"
      BY <1>1, <3>1 DEF IInv, NoRun
    <3>2. CASE pc = "user"
      <4>1. run.argc = Argc(ArgStr(line)) /\ run.argv = Argv(line)
        BY <1>1, <3>2 DEF IInv, RunOf
      <4>2. QED
        BY <1>1, <4>1, RunTyped DEF IInv
    <3>3. QED
      BY <1>1, <3>1, <3>2 DEF IInv
  <2>3. QED
    BY <1>1, <2>1, <2>2 DEF IInv, TypeOK
<1>2. QED
  BY <1>1, Invariant, PTL

\* After any typing, correcting, scrolling and output, the row of the prompt
\* shows the line that the shell will execute.
THEOREM PromptTrue == Spec => []PromptShowsLine
<1>1. IInv => PromptShowsLine
  BY DEF IInv, PromptShowsLine, Shows
<1>2. QED
  BY <1>1, Invariant, PTL

\* No glyph is ever drawn over another one.
THEOREM ScreenClear == Spec => []NothingSmeared
<1>1. IInv => NothingSmeared
  BY DEF IInv, NothingSmeared, Screens, Clear
<1>2. QED
  BY <1>1, Invariant, PTL

\* filename[] holds the name of every program that is started, with its NUL.
THEOREM NameHeld == Spec => []NameFits
<1>1. ASSUME IInv, pc = "user" PROVE Len(run.name) < FILE_SIZE
  <2> DEFINE w == Word(line)
  <2>1. run.name = WithSuffix(w) /\ ~TooLong(w) /\ line \in Seq(Typed)
    BY <1>1 DEF IInv, RunOf
  <2>2. w \in Seq(Typed) /\ Len(w) \in Nat /\ Len(w) <= FILE_SIZE - 1 /\ FILE_SIZE \in Nat
    BY <2>1, WordFacts, ShellAssumption
  <2> HIDE DEF w
  <2>3. CASE HasSuffix(w)
    BY <2>1, <2>2, <2>3 DEF WithSuffix
  <2>4. CASE ~HasSuffix(w)
    <3>1. Suffix \in Seq(Typed)
      <4>1. Suffix \in Seq(Typed \ {Space}) /\ (Typed \ {Space}) \subseteq Typed
        BY ShellAssumption
      <4>2. QED
        BY <4>1
    <3>2. Len(w \o Suffix) = Len(w) + Len(Suffix) /\ Len(Suffix) \in Nat
      BY <2>2, <3>1, ConcatProperties, LenProperties
    <3>3. Len(w) + Len(Suffix) < FILE_SIZE
      BY <2>1, <2>2, <2>4, <3>2 DEF TooLong
    <3>4. QED
      BY <2>1, <2>4, <3>2, <3>3 DEF WithSuffix
  <2>5. QED
    BY <2>3, <2>4
<1>2. IInv => NameFits
  BY <1>1 DEF NameFits
<1>3. QED
  BY <1>2, Invariant, PTL

\* A program started by a plain line gets its words, one to an element of argv.
THEOREM ArgvRight == Spec => []ArgvOfPlainLine
<1>1. ASSUME IInv, pc = "user", Plain(line)
      PROVE  run.argv = InOrder(WordStarts(run.args)) /\ run.argc = Len(run.argv) + 1
  <2>1. /\ run.argv = Argv(line) /\ run.args = ArgStr(line) /\ run.argc = Argc(ArgStr(line))
        /\ line \in Seq(Typed)
    BY <1>1 DEF IInv, RunOf
  <2>2. QED
    BY <1>1, <2>1, PlainArgv
<1>2. IInv => ArgvOfPlainLine
  BY <1>1 DEF ArgvOfPlainLine
<1>3. QED
  BY <1>2, Invariant, PTL
=============================================================================
