------------------------------- MODULE Routines -------------------------------
(***************************************************************************)
(* Calls of the pure routines of Text, Pixels, Tables and Vga, one by one,  *)
(* with every input of the small sets below, and what each should give,    *)
(* said without its algorithm.                                             *)
(***************************************************************************)
EXTENDS Text, Pixels, Tables, Vga

CONSTANTS
  Numbers,      \* arguments of the conversions, some negative
  Places        \* coordinates, on and off the screen

VARIABLES fn, args, result
vars == <<fn, args, result>>

ASSUME RoutinesAssumption ==
  /\ \A n \in Numbers : n \in Int /\ -2147483647 <= n /\ n <= 2147483647
  /\ Places \subseteq Int

Init == fn = "none" /\ args = <<>> /\ result = <<>>

\* A call of routine f with arguments a, that gives r.
Call(f, a, r) == fn = "none" /\ fn' = f /\ args' = a /\ result' = r
Return == fn # "none" /\ fn' = "none" /\ args' = <<>> /\ result' = <<>>

-----------------------------------------------------------------------------
(* Texts *)

Sizes == {n \in Numbers : n >= 0}

ItoaCall == \E v \in Numbers : Call("itoa", <<v>>, Itoa(v))
UtoaCall == \E v \in Sizes, b \in Base : Call("utoa", <<v, b>>, Utoa(v, b))
HexCall  == \E v \in Sizes : Call("itoa_hex", <<v>>, ItoaHex(v))
SizeCall == \E v \in Sizes, w \in {0, 4, 10} :
              Call("pr_right", <<v, w>>, PrRight(v, w))

\* 1-1-1980 to 31-12-2107, and minutes of one figure.
DateWord(year, month, day) == (year - 1980) * 512 + month * 32 + day
TimeWord(hour, minute) == hour * 2048 + minute * 32
DosCall == \E year \in {1980, 2107}, month \in {1, 12}, day \in {1, 31},
              hour \in {0, 11, 12, 23}, minute \in {0, 59} :
  Call("pr_dos_datetime", <<month, day, year, hour, minute>>,
       DosDateTime(DateWord(year, month, day), TimeWord(hour, minute)))

\* Century, year, month, day, hour, minute, second.
Clocks == {<<19, 99, 12, 31, 23, 59, 59>>, <<20, 0, 1, 1, 0, 0, 9>>}
Bcd(v) == (v \div 10) * 16 + (v % 10)
ClockCall == \E r \in Clocks :
  Call("format_date_time", r, DateTime([i \in DOMAIN r |-> Bcd(r[i])]))

\* A format in pieces: the characters, the arguments and the text of each.
Kinds == {"lit", "percent", "other", "char", "str", "int", "hex"}
Chars(kind) ==
  CASE kind = "lit" -> <<"a">>
    [] kind = "percent" -> <<"%", "%">>
    [] kind = "other" -> <<"%", "q">>
    [] kind = "char" -> <<"%", "c">>
    [] kind = "str" -> <<"%", "s">>
    [] kind = "int" -> <<"%", "d">>
    [] kind = "hex" -> <<"%", "x">>
Passed(kind) ==
  CASE kind = "char" -> <<"z">>
    [] kind = "str" -> << <<"h", "i">> >>
    [] kind = "int" -> <<-40>>
    [] kind = "hex" -> <<175>>
    [] OTHER -> <<>>
Meant(kind) ==
  CASE kind = "lit" -> <<"a">>
    [] kind = "percent" -> <<"%">>
    [] kind = "other" -> <<"%", "q">>
    [] kind = "char" -> <<"z">>
    [] kind = "str" -> <<"h", "i">>
    [] kind = "int" -> <<"-", "4", "0">>
    [] kind = "hex" -> <<"a", "f">>
Pieces(kinds, longest) == UNION {[1..k -> kinds] : k \in 0..longest}
Joined(parts) ==
  LET upto[k \in 0..Len(parts)] == IF k = 0 THEN <<>> ELSE upto[k - 1] \o parts[k]
  IN  upto[Len(parts)]
Format(p) == Joined([i \in DOMAIN p |-> Chars(p[i])])
Stack(p)  == Joined([i \in DOMAIN p |-> Passed(p[i])])

KprintfCall == \E p \in Pieces(Kinds, 3) :
  Call("kprintf", <<p>>, Kprintf(Format(p), Stack(p)))
DebugCall == \E cpu \in {<<Blank, Blank, "I", "n", "t", "e", "l">>, <<"I", "n">>, <<"Q">>},
                kind \in Kinds :
  Call("debug_printf", <<cpu, kind>>, DebugPrintf(cpu, Chars(kind), Passed(kind)))
PrintfDCall == \E p \in Pieces({"lit", "int"}, 5) :
  Call("printf_d", <<p>>, PrintfD(Format(p), -40))
PrintfXCall == \E p \in Pieces({"lit", "hex"}, 3) :
  Call("printf_x", <<p>>, PrintfX(Format(p), 175))

DumpCall == \E n \in 0..40 : Call("debug_dump_mem", <<n>>, DumpMem(100, n))
StackCall == \E below, above \in {0, 1, 4, 64, 100} :
  Call("debug_dump_stack", <<below, above>>, DumpStack(1000, below, above))

Strings == {Append(s, 0) : s \in UNION {[1..k -> {1, 200}] : k \in 0..3}}
CompareCall == \E a, b \in Strings :
  \/ Call("strcmp", <<a, b>>, Strcmp(a, b))
  \/ \E k \in 1..(IF Len(a) < Len(b) THEN Len(a) ELSE Len(b)) :
       Call("memcmp", <<a, b, k>>, Memcmp(a, b, k))

Typing == UNION {[1..k -> {"x", "y", "CR", "LF"}] : k \in 0..4}
TtyCall == \E s \in Typing :
  Call("tty", <<s>>, Typed([pos |-> 0, cell |-> [p \in 0..(5 * LINE) |-> Blank]], s))

TextCall == \/ ItoaCall \/ UtoaCall \/ HexCall \/ SizeCall \/ DosCall \/ ClockCall
            \/ KprintfCall \/ DebugCall \/ PrintfDCall \/ PrintfXCall
            \/ DumpCall \/ StackCall \/ CompareCall \/ TtyCall
-----------------------------------------------------------------------------
(* Drawings and tables *)

Glyph == {<<0, 0>>, <<1, 1>>, <<15, 7>>}

CharCall == \E x, y \in Places : Call("draw_char", <<x, y>>, DrawChar(x, y, Glyph, 1))
RectCall == \E x, y \in Places, w, h \in {0, 2} :
              Call("draw_rect", <<x, y, w, h>>, DrawRect(x, y, w, h, 1))
ClearCall == Call("vbe_clear", <<>>, VbeClear(1))
BufRectCall == \E x, y \in Places, w, h \in {-2, 0, 2} :
                 Call("buf_rect", <<x, y, w, h>>, BufRect(x, y, w, h, 1))
LineCall == \E x0, y0, x1, y1 \in Places :
  \/ Call("points", <<x0, y0, x1, y1>>, Points(x0, y0, x1, y1))
  \/ Call("buf_line", <<x0, y0, x1, y1>>, BufLine(x0, y0, x1, y1, 1))
FlipCall == \E w \in 1..PITCH, h \in 1..HEIGHT : Call("flip", <<w, h>>, Flip(w, h))
BmpCall == \E dx, dy \in Places, w \in 1..3, h \in {-2, 2} :
  \/ Call("draw_bmp", <<dx, dy, w, h, 1>>, DrawBmp(dx, dy, w, h))
  \/ \E scale \in 1..2 :
       Call("draw_bmp", <<dx, dy, w, h, scale>>, DrawBmpScaled(dx, dy, w, h, scale))
ColourCall == \E b, g, r \in {0, 7, 8, 131, 255} : Call("rgb565", <<b, g, r>>, Rgb565(b, g, r))
FontCall == Call("register_char", <<>>, RegisterChar(8, 16, 32))
Addresses == {0, 65535, 65536, 305419896}
GdtCall == \E base, limit \in Addresses, access \in {137, 250}, gran \in {0, 207} :
  Call("gdt", <<base, limit, access, gran>>, GdtGate(base, limit, access, gran))
GdtInitCall == \E tss \in {65536, 305419896} :
                 Call("gdt_init", <<tss, 104>>, TssInit(GdtInit, tss, 104))
IdtCall == \E handler \in Addresses : Call("idt", <<handler>>, IdtGate(handler))
WalkCall == \E virt \in 0..(ENTRIES * ENTRIES * PAGE - 1) :
              Call("virt_to_phys", <<virt>>, VirtToPhys(virt))

\* One to three calls of int 0x10 (mode 3, mode 13, VBE's 0x4F00 and 0x4F02), on
\* a card that expects an index or a datum, with CRTC registers locked or not.
Card(flip, crtc17, old) ==
  [misc |-> old, seq |-> [i \in 0..4 |-> old], grc |-> [i \in 0..8 |-> old],
   crtc |-> [i \in 0..24 |-> IF i = 17 THEN crtc17 ELSE old],
   attr |-> [i \in 0..31 |-> old], at |-> 0, flip |-> flip,
   dac |-> [c \in 0..63 |-> <<old, old, old>>], dispi |-> [i \in 0..4 |-> old], font |-> FALSE]
Called(v, calls) ==
  LET after[k \in 0..Len(calls)] == IF k = 0 THEN v ELSE Int10(after[k - 1], calls[k])
  IN  after[Len(calls)]
VideoCall == \E flip \in {"index", "data"}, crtc17 \in {0, 142},
                calls \in UNION {[1..k -> {3, 19, 20224, 20226}] : k \in 1..3} :
  Call("int10", calls, Called(Card(flip, crtc17, 1), calls))

MapCall == \/ CharCall \/ RectCall \/ ClearCall \/ BufRectCall \/ LineCall \/ FlipCall
           \/ BmpCall \/ ColourCall \/ FontCall \/ GdtCall \/ GdtInitCall \/ IdtCall \/ WalkCall
           \/ VideoCall

Next == TextCall \/ MapCall \/ Return
Spec == Init /\ [][Next]_vars
-----------------------------------------------------------------------------
(* What the texts should be *)

\* The number a text of figures stands for, and that it is written shortest.
Place(c) == (CHOOSE i \in 1..16 : Figure[i] = c \/ Capital[i] = c) - 1
NumberOf(s, base) ==
  LET first[n \in 0..Len(s)] == IF n = 0 THEN 0 ELSE first[n - 1] * base + Place(s[n])
  IN  first[Len(s)]
Stands(s, v, base) == /\ s # <<>> /\ (s[1] = "0" => Len(s) = 1)
                      /\ NumberOf(s, base) = v

Without(s, c) ==
  LET kept[n \in 0..Len(s)] ==
        IF n = 0 THEN <<>> ELSE IF s[n] = c THEN kept[n - 1] ELSE Append(kept[n - 1], s[n])
  IN  kept[Len(s)]

\* A comma stands before every third figure from the right, and none in front.
CommasInPlace(s) ==
  s[1] # Comma /\ \A i \in DOMAIN s : (s[i] = Comma) <=> ((Len(s) + 1 - i) % 4 = 0)

\* Only the last conversion of a format is a %c.
CharLast(p) == \A i, j \in DOMAIN p : p[i] = "char" /\ i < j => Passed(p[j]) = <<>>

Cut(s) == SubSeq(s, 1, IF Len(s) < ROOM - 1 THEN Len(s) ELSE ROOM - 1)

\* The order of two strings by their first difference.
Less(a, b) == \E i \in DOMAIN a : /\ i \in DOMAIN b /\ a[i] < b[i]
                                  /\ \A j \in 1..(i - 1) : a[j] = b[j]
LessSigned(a, b) == Less([i \in DOMAIN a |-> Signed(a[i])], [i \in DOMAIN b |-> Signed(b[i])])

\* Where the last CR of a text stands, or 0.
LastCr(s) ==
  CHOOSE n \in 0..Len(s) : (n = 0 \/ s[n] = "CR") /\ \A i \in (n + 1)..Len(s) : s[i] # "CR"

\* itoa, utoa and the user library's itoa_hex write the number they are given:
\* no figure is lost, turned round or written too many, on either side of 0.
NumbersRight ==
  /\ fn = "itoa" => IF args[1] < 0
                    THEN Head(result) = "-" /\ Stands(Tail(result), -args[1], 10)
                    ELSE Stands(result, args[1], 10)
  /\ fn = "utoa" => Stands(result, args[1], args[2])
  /\ fn = "itoa_hex" => /\ Len(result) = 10
                        /\ NumberOf(SubSeq(result, 3, 10), 16) = args[1]

SizeText(text, n, width) ==
  LET s == Without(text, Blank) IN
  /\ Stands(Without(s, Comma), n, 10)
  /\ Len(text) = IF Len(s) > width THEN Len(s) ELSE width
  /\ text = [i \in 1..(Len(text) - Len(s)) |-> Blank] \o s
  /\ n < 100000 => CommasInPlace(s)
SizesRight == fn = "pr_right" => SizeText(result, args[1], args[2])

DosText(text, month, day, year, hour, minute) ==
  \E h \in 1..12 :
    /\ h % 12 = hour % 12
    /\ text = Itoa(month) \o <<"-">> \o Itoa(day) \o <<"-">> \o Itoa(year)
                \o <<Blank, Blank>> \o Itoa(h) \o <<":">> \o Itoa(minute)
                \o <<IF hour >= 12 THEN "p" ELSE "a">>
ClockText(text, fields) ==
  /\ Len(text) = 19
  /\ \A i \in 1..7 : LET at == <<1, 3, 6, 9, 12, 15, 18>>[i]
                     IN NumberOf(SubSeq(text, at, at + 1), 10) = fields[i]
DatesRight ==
  /\ fn = "pr_dos_datetime" =>
       DosText(result, args[1], args[2], args[3], args[4], args[5])
  /\ fn = "format_date_time" => ClockText(result, args)

\* What a format means, and what printf_x means by it.
Text(p) == Joined([i \in DOMAIN p |-> Meant(p[i])])
Padded(kind) ==
  IF kind = "hex" THEN <<"0", "x">> \o <<"0", "0", "0", "0", "0", "0", "A", "F">> ELSE Meant(kind)
TextX(p) == Joined([i \in DOMAIN p |-> Padded(p[i])])

Logged(log, cpu, kind) ==
  /\ log.text = Meant(kind)
  /\ (log.to = "screen") <=> (Without(cpu, Blank) = <<"I", "n", "t", "e", "l">>)

FormatsRight ==
  /\ fn = "kprintf" /\ CharLast(args[1]) => result = Text(args[1])
  /\ fn = "debug_printf" => Logged(result, args[1], args[2])
  /\ fn = "printf_d" => result = Cut(Text(args[1]))
  /\ fn = "printf_x" => result = Cut(TextX(args[1]))

\* Rows of sixteen that dump every byte from address 100 on.
Dumped(rows, bytes) ==
  /\ Joined(rows) = [i \in 1..bytes |-> 99 + i]
  /\ \A r \in DOMAIN rows : Len(rows[r]) = 16 \/ r = Len(rows)

\* At most 64 bytes on each side, each word that begins in them once.  The word at
\* esp itself, which is in neither part, is not asked for.
StackDumped(words, below, above) ==
  LET Near(n) == IF n < 64 THEN n ELSE 64
      Asked   == {a \in (997 - Near(below))..(1003 + Near(above)) : a % 4 = 0}
  IN /\ Range(words) \ {1000} = Asked \ {1000}
     /\ \A i, j \in DOMAIN words : words[i] = words[j] => i = j

Ordered(order, a, b) == ((order = 0) <=> (a = b)) /\ ((order < 0) <=> Less(a, b))
OrderedSigned(order, a, b) == ((order = 0) <=> (a = b)) /\ ((order < 0) <=> LessSigned(a, b))

\* The cursor stands behind what came since the last CR, and the last
\* character before the cursor.
Shown(screen, s) ==
  /\ screen.pos % LINE = Len(Without(SubSeq(s, LastCr(s) + 1, Len(s)), "LF")) % LINE
  /\ s # <<>> /\ Last(s) \in {"x", "y"} => screen.cell[screen.pos - 1] = Last(s)

BytesRight ==
  /\ fn = "debug_dump_mem" => Dumped(result, args[1])
  /\ fn = "debug_dump_stack" => StackDumped(result, args[1], args[2])
  /\ fn = "strcmp" => Ordered(result, args[1], args[2])
  /\ fn = "memcmp" =>
       OrderedSigned(result, SubSeq(args[1], 1, args[3]), SubSeq(args[2], 1, args[3]))
  /\ fn = "tty" => Shown(result, args[1])

\* The routines that make texts give the text their callers mean: a size of up to
\* five figures has its commas in place, a date has the fields of its words, a
\* format in which nothing is converted after a %c has every argument in its
\* place, and a user program's text is cut only at the end of the buffer.  Strings
\* compare by their first difference; a dump of memory has every byte asked for,
\* one of the stack every word on both sides of esp, up to 64 bytes far.
TextRight == SizesRight /\ DatesRight /\ FormatsRight /\ BytesRight
-----------------------------------------------------------------------------
(* What the drawings and tables should be *)

\* The drawing that has at each seen point of a set the value of f there, and
\* the one of a single colour.
Drawing(points, f, pitch) ==
  {<<p[2] * pitch + p[1], f[p]>> : p \in {q \in points : Seen(q[1], q[2])}}
Shape(points, pitch) == Drawing(points, [p \in points |-> 1], pitch)
Box(x0, x1, y0, y1) == (x0..x1) \X (y0..y1)
Abs(n) == IF n < 0 THEN -n ELSE n
Less2(a, b) == IF a < b THEN a ELSE b
More(a, b) == IF a < b THEN b ELSE a

\* A line has both its ends, one point at each step of its longer side, and
\* none is further than half a pixel from the line drawn with a ruler.
Ruled(points, x0, y0, x1, y1) ==
  LET dx   == x1 - x0
      dy   == y1 - y0
      long == More(Abs(dx), Abs(dy))
  IN /\ {<<x0, y0>>, <<x1, y1>>} \subseteq points
     /\ Cardinality(points) = long + 1
     /\ \A p \in points : 2 * Abs((p[1] - x0) * dy - (p[2] - y0) * dx) <= long

ShapesRight ==
  /\ fn = "draw_char" =>
       result = Shape({<<args[1], args[2]>>, <<args[1] + 1, args[2] + 1>>,
                       <<args[1] + 7, args[2] + 15>>}, PITCH)
  /\ fn = "draw_rect" =>
       result = Shape(Box(args[1], args[1] + args[3] - 1,
                          args[2], args[2] + args[4] - 1), PITCH)
  /\ fn = "vbe_clear" => result = Shape(Box(0, WIDTH, 0, HEIGHT), PITCH)
  /\ fn = "buf_rect" =>
       result = Shape(Box(Less2(args[1], args[1] + args[3]), More(args[1], args[1] + args[3]) - 1,
                          Less2(args[2], args[2] + args[4]), More(args[2], args[2] + args[4]) - 1),
                      WIDTH)
  /\ fn = "points" => Ruled(result, args[1], args[2], args[3], args[4])
  /\ fn = "buf_line" => \A w \in result : w[1] \in 0..(WIDTH * HEIGHT - 1)

\* A copy of rows of so many places, each row this far behind the one before it:
\* <<where a place goes, where it is from>>.
Rows(wide, high, from, to) ==
  {<<y * to + x, y * from + x>> : x \in 0..(wide - 1), y \in 0..(high - 1)}

\* The image of a draw_bmp: rows of a file are padded to a multiple of four bytes.
Image(a) ==
  LET row   == CHOOSE n \in (a[3] * 3)..(a[3] * 3 + 3) : n % 4 = 0
      lines == Abs(a[4])
      scale == a[5]
      box   == Box(a[1], a[1] + a[3] * scale - 1, a[2], a[2] + lines * scale - 1)
      From(p) ==
        LET line == (p[2] - a[2]) \div scale
        IN (IF a[4] < 0 THEN line ELSE lines - 1 - line) * row
             + ((p[1] - a[1]) \div scale) * 3
  IN Drawing(box, [p \in box |-> From(p)], PITCH)

\* The upper bits of blue, green and red, each in its field.
Fields565(n, b, g, r) ==
  n \div 2048 = r \div 8 /\ (n \div 32) % 64 = g \div 4 /\ n % 32 = b \div 8

ImagesRight ==
  /\ fn = "flip" => result = Rows(args[1], args[2], args[1], PITCH)
  /\ fn = "draw_bmp" => result = Image(args)
  /\ fn = "rgb565" => Fields565(result, args[1], args[2], args[3])
  /\ fn = "register_char" => result = Rows(16, 8, 16, 32)

\* The tables the processor reads: a descriptor decodes to the base and limit it
\* was made of, segments loaded from the boot's table stay good in the kernel's,
\* every gate enters ring 0's code segment, the task register finds the TSS, and
\* the page tables map every address to itself.
TablesRight ==
  /\ fn = "gdt" =>
       /\ result.base_low + result.base_middle * 65536 + result.base_high * 16777216 = args[1]
       /\ result.limit_low + (result.granularity % 16) * 65536 = args[2] % 1048576
       /\ result.granularity \div 16 = args[4] \div 16 /\ result.access = args[3]
  /\ fn = "gdt_init" =>
       /\ SubSeq(result, 1, 3) = BootGdt
       /\ LET code == result[IdtGate(0).selector \div 8 + 1]
              tss  == result[GdtTss \div 8 + 1]
          IN /\ code.access \div 8 = 19 /\ code.granularity = 207
             /\ tss.access = 137
             /\ tss.base_low + tss.base_middle * 65536 + tss.base_high * 16777216 = args[1]
             /\ tss.limit_low + 1 = args[2]
  /\ fn = "idt" => result.offset_low + result.offset_high * 65536 = args[1]
  /\ fn = "virt_to_phys" => result = args[1]

\* Figures, fields and tables decode to what they were made of.
Decodes == NumbersRight /\ TablesRight

\* The sixteen colours of text: half of each component by its bit, a quarter by
\* the bright bit, and dark yellow made brown.
TextColour(c) ==
  IF c = 6 THEN <<42, 21, 0>>
  ELSE [k \in 1..3 |-> 42 * Bit(c, 3 - k) + 21 * Bit(c, 3)]

\* The mode set m is the last of the calls.
LastMode(calls, m) ==
  calls[m] < 256 /\ \A j \in DOMAIN calls : j > m => calls[j] >= 256

\* AX of VBE's mode set, and whether none follows call m.
VBE == 20226
NoVbeAfter(calls, m) == \A j \in DOMAIN calls : j > m => calls[j] # VBE

\* Eleven of them and brown are what the palette has where an attribute points.
TextShown(card) ==
  \A c \in (0..8) \union {10, 12, 14} : card.dac[card.attr[c]] = TextColour(c)

\* What a mode set leaves in the registers: its table, but that mode 3 takes the
\* planes of text once more after the font and mode 13 chains them; the byte behind
\* mode 13's attributes is the first of the palette.
Loaded(ax) ==
  IF ax = 19
  THEN [Table.mode13 EXCEPT !.seq = <<1, 15, 15, 14, 14>>, !.attr = Append(@, 0),
                            !.grc = <<0, 0, 0, 0, 0, 0, 5, 15, 15>>]
  ELSE [Table.mode3 EXCEPT !.seq = <<3, 0, 3, 0, 3>>]

\* The card has the registers of mode ax, with the attributes switched on, and the
\* font in mode 3.  (Attribute 0 is apart: a later write of VBE's falls on it.)
ModeLoaded(ax, card) ==
  LET set == Loaded(ax) IN
  /\ card.at >= 32 /\ card.misc = set.misc
  /\ \A i \in 1..5 : card.seq[i - 1] = set.seq[i]
  /\ \A i \in DOMAIN set.crtc : card.crtc[i - 1] = set.crtc[i]
  /\ \A i \in 1..9 : card.grc[i - 1] = set.grc[i]
  /\ \A i \in 2..21 : card.attr[i - 1] = set.attr[i]
  /\ ax = 3 => card.font

\* VBE is enabled at its size.
VbeShown(card) == \A i \in 1..4 : card.dispi[i] = <<800, 600, 16, 193>>[i]

\* VBE was called after every mode set.
VbeLast(calls) ==
  \E k \in DOMAIN calls : calls[k] = VBE /\ \A j \in DOMAIN calls : j > k => calls[j] >= 256

VideoRight ==
  fn = "int10" =>
    /\ VbeLast(args) => VbeShown(result)
    /\ \A m \in DOMAIN args : LastMode(args, m) =>
         /\ ModeLoaded(args[m], result)
         /\ NoVbeAfter(args, m) =>
              result.attr[0] = 0 /\ (args[m] = 3 => TextShown(result))
    /\ Len(args) = 2 /\ LastMode(args, 1) /\ args[2] = VBE => result.flip = "index"

\* Every routine that fills a place fills the right one: a shape is clipped
\* to the screen and writes nothing between the rows, a line reaches its end,
\* an image is neither skewed (the rows of a BMP are padded) nor upside down,
\* at scale 1 as at 2, and a glyph of the BIOS stands at its slot.
\* A mode set of the BIOS fills every register of its mode whatever state the card
\* was in, protected or in the middle of a write to 0x3C0; VBE's call after it
\* sets the size and enables VBE.  Which picture a mode set after VBE's call shows
\* is not said: nothing disables VBE.  (Bright blue, cyan, magenta and white are
\* not the usual ones: vga.asm:273 has 0x09, not 0x39.)
MapsRight == ShapesRight /\ ImagesRight /\ VideoRight
=============================================================================
