--------------------------------- MODULE Vga ---------------------------------
(***************************************************************************)
(* Interrupt 0x10 of the BIOS: the mode sets of bios/vga.asm, the VBE call *)
(* of bios/vbe.asm and the dispatch of bios/int10h.asm, each as the writes *)
(* it makes to the video card, in their order.  (The teletype is in Text,  *)
(* the copying of the font in Pixels.)                                     *)
(*                                                                         *)
(* The card is a record of its registers.  What makes the order matter is  *)
(* the card's: bit 7 of CRTC register 0x11 protects registers 0 to 7, port *)
(* 0x3C0 takes an index and a datum in turn, reading 0x3DA makes the next  *)
(* one an index, and the size of a VBE mode can be set only while VBE is   *)
(* disabled.                                                               *)
(***************************************************************************)
EXTENDS Integers, SequencesExt

\* out of an index and its datum to the sequencer, the graphics controller or the
\* CRTC.
SeqOut(v, i, val) == [v EXCEPT !.seq[i] = val]
GrcOut(v, i, val) == [v EXCEPT !.grc[i] = val]
Protected(v) == v.crtc[17] >= 128
CrtcOut(v, i, val) == IF i < 8 /\ Protected(v) THEN v ELSE [v EXCEPT !.crtc[i] = val]

\* out 0x3C0; bit 5 of an index turns the picture on.
Attr(v, val) ==
  IF v.flip = "index" THEN [v EXCEPT !.flip = "data", !.at = val]
  ELSE [v EXCEPT !.flip = "index", !.attr[v.at % 32] = val]

\* in 0x3DA
Status(v) == [v EXCEPT !.flip = "index"]

\* out 0x1CE and 0x1CF: register 4 enables.
Dispi(v, i, val) ==
  IF i # 4 /\ v.dispi[4] % 2 = 1 THEN v ELSE [v EXCEPT !.dispi[i] = val]

-----------------------------------------------------------------------------
(* The tables of vga.asm. *)

Mode3Seq  == <<3, 0, 3, 0, 2>>
Mode3Crtc == <<95, 79, 80, 130, 85, 129, 191, 31, 0, 79, 13, 14, 0, 0, 0, 0,
               156, 142, 143, 40, 15, 150, 185, 163, 255>>
Mode3Grap == <<0, 0, 0, 0, 0, 16, 14, 15, 255>>
Mode3Attr == <<0, 1, 2, 3, 4, 5, 20, 7, 56, 9, 58, 11, 60, 13, 62, 15, 12, 1, 15, 19, 0>>

Mode13Seq  == <<1, 15, 0, 14>>
Mode13Crtc == <<95, 79, 80, 130, 84, 128, 191, 31, 0, 65, 0, 0, 0, 0, 0, 0,
                156, 142, 143, 40, 64, 150, 185, 163>>
Mode13Grap == <<0, 0, 0, 0, 0, 64, 5, 15, 255>>
Mode13Attr == <<0, 1, 2, 3, 4, 5, 6, 7, 8, 9, 10, 11, 12, 13, 14, 15, 65, 0, 15, 0>>

Table == [mode3  |-> [misc |-> 103, seq |-> Mode3Seq, crtc |-> Mode3Crtc,
                      grc |-> Mode3Grap, attr |-> Mode3Attr],
          mode13 |-> [misc |-> 99, seq |-> Mode13Seq, crtc |-> Mode13Crtc,
                      grc |-> Mode13Grap, attr |-> Mode13Attr]]

\* palette: bits 2, 1 and 0 of a colour are two thirds of red, green and blue,
\* bits 5, 4 and 3 one third.
Bit(n, i) == (n \div <<1, 2, 4, 8, 16, 32>>[i + 1]) % 2
Palette == [k \in 1..192 |->
  LET colour == (k - 1) \div 3
      part   == 2 - ((k - 1) % 3)
  IN 42 * Bit(colour, part) + 21 * Bit(colour, part + 3)]

-----------------------------------------------------------------------------
(* The routines of vga.asm. *)

\* vga_write_regs: the registers from 0 on; of the CRTC, protection is decided
\* before register 0x11 itself is written.
Filled(regs, first, table) ==
  [i \in DOMAIN regs |-> IF i >= first /\ i < Len(table) THEN table[i + 1] ELSE regs[i]]
WriteCrtc(v, table) ==
  [v EXCEPT !.crtc = Filled(v.crtc, IF Protected(v) THEN 8 ELSE 0, table)]

\* vga_attr_write: 0x3DA is read, then 21 pairs are written; behind mode 13's
\* table of 20 stands the palette.
FromTable(table, n) == IF n <= Len(table) THEN table[n] ELSE Palette[n - Len(table)]
AttrWrite(v, table) ==
  [Status(v) EXCEPT !.at = 20,
     !.attr = [i \in DOMAIN v.attr |-> IF i <= 20 THEN FromTable(table, i + 1) ELSE v.attr[i]]]

\* Index 0x11 is read and written back without bit 7.
Unlocked(v) == CrtcOut(v, 17, v.crtc[17] % 128)

\* set_palette
SetPalette(v) ==
  [v EXCEPT !.dac = [c \in 0..63 |-> SubSeq(Palette, 3 * c + 1, 3 * c + 3)]]

\* vga_plane2_font_open, register_char, vga_restore_textplane: the font goes to
\* plane 2 if nothing else is open.
Plane2Open(v) ==
  GrcOut(GrcOut(GrcOut(SeqOut(SeqOut(v, 2, 4), 4, 7), 4, 0), 5, 0), 6, 4)
Plane2Only(v) ==
  /\ v.seq[2] = 4 /\ v.seq[4] = 7 /\ v.grc[5] = 0 /\ v.grc[6] = 4
  /\ v.grc[8] = 255 /\ v.grc[1] = 0 /\ v.grc[3] = 0
TextPlane(v) == GrcOut(GrcOut(SeqOut(SeqOut(v, 2, 3), 4, 3), 5, 16), 6, 14)
Font(v) ==
  LET open == Plane2Open(v)
  IN  TextPlane([open EXCEPT !.font = Plane2Only(open)])

\* The part the two mode sets share.
Registers(v, t) ==
  LET sequenced == [v EXCEPT !.misc = t.misc, !.seq = Filled(v.seq, 0, t.seq)]
      timed     == WriteCrtc(Unlocked(sequenced), t.crtc)
      filled    == [timed EXCEPT !.grc = Filled(timed.grc, 0, t.grc)]
  IN SetPalette(AttrWrite(filled, t.attr))

\* vga_mode3_init
Mode3(v) == Attr(Font(Registers(v, Table.mode3)), 32)

\* vga_mode13_init: the picture is turned on, then five registers are changed.
Mode13(v) ==
  LET on == Attr(Registers(v, Table.mode13), 32)
  IN  GrcOut(GrcOut(GrcOut(SeqOut(SeqOut(on, 2, 15), 4, 14), 5, 0), 6, 5), 8, 15)

\* vbe_800_600_16_init: port 0x3C0 is written, and 0x3DA is not read.
Vbe(v) ==
  LET off   == Dispi(Attr(v, 32), 4, 0)
      sized == Dispi(Dispi(Dispi(off, 1, 800), 2, 600), 3, 16)
  IN Dispi(sized, 4, 193)

\* int10h_handler, by AX: every mode but 0x13 is mode 3, and only 0x4F02 of VBE
\* touches the card.
Int10(v, ax) ==
  CASE ax \div 256 = 0 -> IF ax % 256 = 19 THEN Mode13(v) ELSE Mode3(v)
    [] ax = 20226      -> Vbe(v)
    [] OTHER           -> v
=============================================================================
