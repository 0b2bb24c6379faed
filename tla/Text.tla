--------------------------------- MODULE Text ---------------------------------
(***************************************************************************)
(* The routines that make text of numbers, and those that compare and dump *)
(* bytes: lib/itoa.c, lib/string.c, x86/console.c (kprintf), fs/fat16.c    *)
(* (sizes and dates of a listing), drivers/cmos.c, debug/debug_print.c,    *)
(* bios/teletype.asm and the user library's mystdio.h.                     *)
(*                                                                         *)
(* A text is a sequence of one-character strings.  Numbers are those       *)
(* TLC can hold: itoa of -2^31, whose negation overflows, is not asked.    *)
(***************************************************************************)
EXTENDS Integers, SequencesExt

CONSTANTS
  ROOM,       \* bytes of the buffer of printf_d and printf_x (128 in the code)
  LINE        \* columns of the BIOS's text screen (80)

ASSUME TextAssumption == ROOM \in Nat \ {0} /\ LINE \in Nat \ {0}

Figure == <<"0", "1", "2", "3", "4", "5", "6", "7", "8", "9",
            "a", "b", "c", "d", "e", "f">>
Capital == <<"0", "1", "2", "3", "4", "5", "6", "7", "8", "9",
             "A", "B", "C", "D", "E", "F">>

Comma == ","
Blank == " "

\* The bases utoa is called with.
Base == {10, 16}

\* The do-while of itoa and utoa: the figures of v, the last one first.
Figures(v, base) ==
  LET of[n \in 0..v] ==
        <<Figure[(n % base) + 1]>> \o (IF n < base THEN <<>> ELSE of[n \div base])
  IN  of[v]

Utoa(v, base) == Reverse(Figures(v, base))

\* Mutated form: the sign is put in front before the figures are turned round.
ItoaSignLast(v) ==
  IF v < 0 THEN Reverse(<<"-">> \o Figures(-v, 10)) ELSE Reverse(Figures(v, 10))

Itoa(v) ==
  IF v < 0 THEN Reverse(Append(Figures(-v, 10), "-")) ELSE Reverse(Figures(v, 10))

\* What is left of value for the figures up to the i-th of itoa_hex's loop, which
\* starts at the eighth.
Shifted4(v) ==
  LET left[i \in 0..8] == IF i = 8 THEN v ELSE left[i + 1] \div 16
  IN  left

ItoaHex(v) == <<"0", "x">> \o [i \in 1..8 |-> Capital[(Shifted4(v)[i] % 16) + 1]]
-----------------------------------------------------------------------------
(* The listing of fat16.c. *)

\* The do-while of num_with_commas: the figures of n and the commas, the last one
\* first; idx counts the commas written so far too.
Grouped(v) ==
  LET of[n \in 0..v] ==
        [idx \in Nat |->
           <<Figure[(n % 10) + 1]>>
             \o (IF n < 10 THEN <<>>
                 ELSE IF (idx + 1) % 3 = 0 THEN <<Comma>> \o of[n \div 10][idx + 2]
                 ELSE of[n \div 10][idx + 1])]
  IN  of[v][0]

\* Mutated form: the comma is written before it is known that figures follow.
CommasAhead(n) ==
  LET s == Reverse(Grouped(n)) IN IF n \in 100..999 THEN <<Comma>> \o s ELSE s

\* num_with_commas
Commas(n) == Reverse(Grouped(n))

\* pr_right
PrRight(n, width) ==
  LET s   == Commas(n)
      pad == IF width > Len(s) THEN width - Len(s) ELSE 0
  IN [i \in 1..pad |-> Blank] \o s

\* pr_dos_datetime, minutes not padded, and the fields of its two words.
DosFields(month, day, year, hour, minute) ==
  LET h == IF hour % 12 = 0 THEN 12 ELSE hour % 12
  IN Itoa(month) \o <<"-">> \o Itoa(day) \o <<"-">> \o Itoa(year) \o <<Blank, Blank>>
       \o Itoa(h) \o <<":">> \o Itoa(minute) \o <<IF hour >= 12 THEN "p" ELSE "a">>
DosDateTime(date, time) ==
  DosFields((date \div 32) % 16, date % 32, 1980 + date \div 512,
            (time \div 2048) % 32, (time \div 32) % 64)

\* bcd_to_bin, and two figures of format_date_time.
BcdToBin(val) == (val % 16) + (val \div 16) * 10
Two(val) == <<Figure[(BcdToBin(val) \div 10) + 1], Figure[(BcdToBin(val) % 10) + 1]>>

\* format_date_time over the bytes of the clock, the century first.
DateTime(r) ==
  Two(r[1]) \o Two(r[2]) \o <<"/">> \o Two(r[3]) \o <<"/">> \o Two(r[4])
    \o <<Blank>> \o Two(r[5]) \o <<":">> \o Two(r[6]) \o <<":">> \o Two(r[7])
-----------------------------------------------------------------------------
(* kprintf.  args is the stack above the format, a slot of four bytes for   *)
(* each argument.  %c moves arg_ptr one byte on and not a slot, so that     *)
(* what is converted after it straddles two slots; a % at the end of the    *)
(* format steps over its NUL.                                               *)

Straddled == "straddled"    \* a value made of bytes of two arguments
Overrun   == "overrun"      \* what lies behind the format

Conversion == {"c", "s", "d", "i", "u", "x"}

Converted(kind, arg) ==
  CASE kind = "c" -> <<arg>>
    [] kind = "s" -> arg
    [] kind \in {"d", "i"} -> Itoa(arg)
    [] kind = "u" -> Utoa(arg, 10)
    [] kind = "x" -> Utoa(arg, 16)

\* One character of the format, or a conversion.
Scanned(s, fmt, args) ==
  LET here == fmt[s.p]
      kind == fmt[s.p + 1]
      arg  == IF s.at % 4 = 0 THEN Converted(kind, args[(s.at \div 4) + 1]) ELSE <<Straddled>>
      Sent(n, out) == [s EXCEPT !.p = @ + n, !.out = @ \o out]
  IN IF s.p > Len(fmt) THEN s
     ELSE IF here # "%" THEN Sent(1, <<here>>)
     ELSE IF s.p = Len(fmt) THEN Sent(2, <<"%", Overrun>>)
     ELSE IF kind \notin Conversion THEN Sent(2, IF kind = "%" THEN <<"%">> ELSE <<"%", kind>>)
     ELSE [Sent(2, arg) EXCEPT !.at = @ + (IF kind = "c" THEN 1 ELSE 4)]

\* Its loop takes no more rounds than the format has characters.
Kprintf(fmt, args) ==
  LET after[n \in 0..Len(fmt)] ==
        IF n = 0 THEN [p |-> 1, at |-> 0, out |-> <<>>] ELSE Scanned(after[n - 1], fmt, args)
  IN  after[Len(fmt)].out

\* starts_with and is_bare_metal: spaces in front of the name are skipped.
BareMetal(name) ==
  LET skipped == CHOOSE n \in 0..Len(name) :
                   /\ \A i \in 1..n : name[i] = Blank
                   /\ n = Len(name) \/ name[n + 1] # Blank
  IN IsPrefix(<<"I", "n", "t", "e", "l">>, SubSeq(name, skipped + 1, Len(name)))

\* debug_printf: the same conversions, to the serial port except on Intel.
DebugPrintf(cpu, fmt, args) ==
  [to |-> IF BareMetal(cpu) THEN "screen" ELSE "serial", text |-> Kprintf(fmt, args)]

\* debug_dump_mem: the rows, each the addresses of its bytes.
DumpMem(addr, bytes) ==
  [r \in 1..((bytes + 15) \div 16) |->
     LET i == 16 * (r - 1)
         n == IF bytes - i < 16 THEN bytes - i ELSE 16
     IN [j \in 1..n |-> addr + i + j - 1]]

\* debug_dump_stack: the words above esp going up, those below going down.
DumpStack(esp, below, above) ==
  LET Words(n) == ((IF n < 64 THEN n ELSE 64) + 3) \div 4
  IN [i \in 1..Words(above) |-> esp + 4 * i]
       \o [i \in 1..Words(below) |-> esp - 4 * i]

\* printf_d and printf_x of the user library: %letter becomes text until
\* the buffer has room only for the NUL.
Filling(s, fmt, letter, text) ==
  LET left  == ROOM - 1 - Len(s.out)
      shown == SubSeq(text, 1, IF Len(text) < left THEN Len(text) ELSE left)
  IN IF s.i > Len(fmt) \/ left <= 0 THEN s
     ELSE IF fmt[s.i] = "%" /\ s.i < Len(fmt) /\ fmt[s.i + 1] = letter
          THEN [i |-> s.i + 2, out |-> s.out \o shown]
     ELSE [i |-> s.i + 1, out |-> s.out \o <<fmt[s.i]>>]
PrintfOne(fmt, letter, text) ==
  LET after[n \in 0..Len(fmt)] ==
        IF n = 0 THEN [i |-> 1, out |-> <<>>] ELSE Filling(after[n - 1], fmt, letter, text)
  IN  after[Len(fmt)].out

PrintfD(fmt, val) == PrintfOne(fmt, "d", Itoa(val))
PrintfX(fmt, val) == PrintfOne(fmt, "x", ItoaHex(val))
-----------------------------------------------------------------------------
(* Bytes 0..255; a string ends in 0. *)

\* strcmp: the difference of the bytes at which its loop stops, the end of a string
\* or the first that differ.
Strcmp(a, b) ==
  LET Stops == {i \in DOMAIN a \intersect DOMAIN b : a[i] = 0 \/ a[i] # b[i]}
      stop  == CHOOSE i \in Stops : \A j \in Stops : i <= j
  IN a[stop] - b[stop]

\* memcmp compares chars, which are signed.
Signed(byte) == IF byte < 128 THEN byte ELSE byte - 256

Memcmp(a, b, length) ==
  LET Differs == {i \in 1..length : a[i] # b[i]}
      first   == CHOOSE i \in Differs : \A j \in Differs : i <= j
  IN IF Differs = {} THEN 0 ELSE Signed(a[first]) - Signed(b[first])
-----------------------------------------------------------------------------
(* The teletype of the BIOS: a cursor that only CR and LF move back or down. *)

Tty(screen, ch) ==
  CASE ch = "CR" -> [screen EXCEPT !.pos = (@ \div LINE) * LINE]
    [] ch = "LF" -> [screen EXCEPT !.pos = @ + LINE]
    [] OTHER -> [screen EXCEPT !.pos = @ + 1, !.cell[screen.pos] = ch]

Typed(screen, s) ==
  LET after[n \in 0..Len(s)] == IF n = 0 THEN screen ELSE Tty(after[n - 1], s[n])
  IN  after[Len(s)]
=============================================================================
