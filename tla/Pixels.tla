-------------------------------- MODULE Pixels --------------------------------
(***************************************************************************)
(* What the drawing routines write, and where: x86/vbe.c, lib/bmp.c,       *)
(* x86/gfx.c, the user library's gfx.h and bios/vga.asm (the font).        *)
(*                                                                         *)
(* A drawing is the set of its writes, <<offset, value>>.  Offsets into    *)
(* video memory count pixels of two bytes from vram_addr; a row is PITCH   *)
(* pixels long, of which WIDTH are seen.  The colour of a pixel of a BMP   *)
(* is the offset of its three bytes in the file: which pixel was taken.    *)
(***************************************************************************)
EXTENDS Integers, FiniteSets

CONSTANTS
  WIDTH, HEIGHT,      \* x_res and y_res (800 and 600)
  PITCH               \* lfb_pitch / 2

ASSUME PixelsAssumption ==
  /\ WIDTH \in Nat \ {0} /\ HEIGHT \in Nat \ {0}
  /\ PITCH \in Nat /\ PITCH >= WIDTH

Seen(x, y) == x \in 0..(WIDTH - 1) /\ y \in 0..(HEIGHT - 1)

\* putpixel; buf_pixel is the same with WIDTH for PITCH.
PixelAt(x, y, c, pitch) == IF Seen(x, y) THEN {<<y * pitch + x, c>>} ELSE {}
PutPixel(x, y, c) == PixelAt(x, y, c, PITCH)
BufPixel(x, y, c) == PixelAt(x, y, c, WIDTH)

\* draw_char: the bits set in a glyph, as columns for each row.
DrawChar(x, y, glyph, c) ==
  UNION {PutPixel(x + p[2], y + p[1], c) : p \in glyph}

\* The two loops of draw_rect and buf_rect.
Rect(x, y, w, h, c, pitch) ==
  UNION {PixelAt(x + p[1], y + p[2], c, pitch) : p \in (0..(w - 1)) \X (0..(h - 1))}

\* draw_rect; vbe_clear is the rectangle of the whole screen.
DrawRect(x, y, w, h, c) == Rect(x, y, w, h, c, PITCH)
VbeClear(c) == {<<y * PITCH + x, c>> : x \in 0..(WIDTH - 1), y \in 0..(HEIGHT - 1)}

\* buf_rect: a negative side goes the other way.
BufRect(x, y, w, h, c) ==
  LET left == IF w < 0 THEN x + w ELSE x
      top  == IF h < 0 THEN y + h ELSE y
      wide == IF w < 0 THEN -w ELSE w
      high == IF h < 0 THEN -h ELSE h
  IN Rect(left, top, wide, high, c, WIDTH)

\* buf_line: a turn of the loop, both tests on the same e2, and the points of
\* the turns up to the end of the line.
LineStep(s, dx, dy, sx, sy) ==
  LET across == 2 * s.err > -dy
      down   == 2 * s.err < dx
  IN [x |-> IF across THEN s.x + sx ELSE s.x, y |-> IF down THEN s.y + sy ELSE s.y,
      err |-> s.err - (IF across THEN dy ELSE 0) + (IF down THEN dx ELSE 0)]

Gap(from, to) == IF to > from THEN to - from ELSE from - to
Toward(from, to) == IF from < to THEN 1 ELSE -1

Points(x0, y0, x1, y1) ==
  LET dx == Gap(x0, x1)
      dy == Gap(y0, y1)
      sx == Toward(x0, x1)
      sy == Toward(y0, y1)
      From[s \in [x : Int, y : Int, err : Int]] ==
        {<<s.x, s.y>>} \union
          IF s.x = x1 /\ s.y = y1 THEN {} ELSE From[LineStep(s, dx, dy, sx, sy)]
  IN From[[x |-> x0, y |-> y0, err |-> dx - dy]]

BufLine(x0, y0, x1, y1, c) ==
  UNION {BufPixel(p[1], p[2], c) : p \in Points(x0, y0, x1, y1)}

\* gfx_do_flip copies h rows of w pixels and looks at neither screen size.
Flip(w, h) ==
  {<<p[2] * PITCH + p[1], p[2] * w + p[1]>> : p \in (0..(w - 1)) \X (0..(h - 1))}

-----------------------------------------------------------------------------
(* BMP files.  h is negative in a file stored from the top. *)

\* Mutated form: rows are not padded to four bytes.
RowBytesTight(w) == w * 3

\* parse_bmp_header: the length of a row, the row that holds line y.
RowBytes(w) == ((w * 3 + 3) \div 4) * 4
BmpRow(h, y) == IF h < 0 THEN y ELSE h - 1 - y
Lines(h) == IF h < 0 THEN -h ELSE h

Taken(w, h, x, y) == BmpRow(h, y) * RowBytes(w) + x * 3

DrawBmp(dx, dy, w, h) ==
  UNION {PutPixel(dx + p[1], dy + p[2], Taken(w, h, p[1], p[2]))
           : p \in (0..(w - 1)) \X (0..(Lines(h) - 1))}

DrawBmpScaled(dx, dy, w, h, scale) ==
  UNION {PutPixel(dx + p[1] * scale + s[1], dy + p[2] * scale + s[2],
                  Taken(w, h, p[1], p[2]))
           : p \in (0..(w - 1)) \X (0..(Lines(h) - 1)),
             s \in (0..(scale - 1)) \X (0..(scale - 1))}

\* rgb888_to_rgb565
Rgb565(b, g, r) == (r \div 8) * 2048 + (g \div 4) * 32 + b \div 8

\* register_char: 16 rows of each glyph into slots of 32 bytes of plane 2.
Copied(b, rows, slot) ==
  [si |-> b.si + rows, di |-> b.di + slot,
   wrote |-> b.wrote \union {<<b.di + i, b.si + i>> : i \in 0..(rows - 1)}]
RegisterChar(chars, rows, slot) ==
  LET after[n \in 0..chars] == IF n = 0 THEN [si |-> 0, di |-> 0, wrote |-> {}]
                               ELSE Copied(after[n - 1], rows, slot)
  IN after[chars].wrote
=============================================================================
