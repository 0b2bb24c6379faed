-------------------------------- MODULE Shell --------------------------------
(***************************************************************************)
(* The shell of kernel_main: the input line and its echo, the commands of  *)
(* kernel/command.c, and run_file from the name it looks up (to_83_format  *)
(* of fs/fat16.c) to the argc and argv it hands to the program.            *)
(*                                                                         *)
(* The loop of kernel_main takes one character at a time; nothing else     *)
(* writes the line, the screen or the arguments, so each turn is one step. *)
(* Sizes are constants, so that short lines meet every limit.              *)
(***************************************************************************)
EXTENDS Console, Order

CONSTANTS
  Typed,      \* characters the keyboard gives, without Newline and Backspace
  Dot, Prompt,
  Upper,      \* to_upper_char, on the characters of a name
  Suffix,     \* ".bin"
  LINE_SIZE,  \* sizeof(line), 128 in the code
  FILE_SIZE,  \* sizeof(filename), 64 in the code
  BASE_LEN, EXT_LEN,  \* 8 and 3
  Dir,        \* names of the root directory, as the entries hold them
  Builtin,    \* lines of the commands that print or do nothing
  ClearLine,  \* "clear"
  Output,     \* what a command or a program may print
  CxMax       \* furthest the cursor goes right (a bound of the model)

ASSUME ShellAssumption ==
  /\ LINE_SIZE \in Nat \ {0} /\ FILE_SIZE \in Nat \ {0}
  /\ BASE_LEN \in Nat /\ EXT_LEN \in Nat /\ CxMax \in Nat
  /\ Space \in Typed /\ Dot \in Typed /\ {Newline, Backspace} \cap Typed = {}
  /\ Suffix \in Seq(Typed \ {Space}) /\ DOMAIN Upper = Typed
  /\ Newline # Backspace /\ Prompt \notin {Newline, Backspace}
  /\ \A out \in Output : Len(out) \in Nat

VARIABLES
  line,  \* line[0..len)
  con,   \* the console
  pc,    \* "prompt" or "user"
  run    \* what run_file made of the line for the running program

vars == <<line, con, pc, run>>

\* name: filename[]; prog: the directory entry it was found in; args:
\* USER_ARG_MEM as copied, before its spaces become NUL; argv: the elements
\* from argv[1] on that were written, as offsets into args.
NoRun == [name |-> <<>>, prog |-> <<>>, args |-> <<>>, argc |-> 0, argv |-> <<>>]

NewPrompt == <<Newline, Prompt>>

Init ==
  /\ line = <<>> /\ con = Kputs(Cleared, NewPrompt) /\ pc = "prompt"
  /\ run = NoRun

-----------------------------------------------------------------------------
(* The input line.                                                         *)

\* Mutated form: the character is shown though the line is full.
TypeCharEcho(c) ==
  /\ pc = "prompt" /\ con.cx <= CxMax
  /\ line' = IF Len(line) < LINE_SIZE - 1 THEN Append(line, c) ELSE line
  /\ con' = Kputc(con, c)
  /\ UNCHANGED <<pc, run>>

\* Mutated form: no room is left for the NUL of '\n'.
TypeCharLast(c) ==
  /\ pc = "prompt"
  /\ IF Len(line) < LINE_SIZE
       THEN line' = Append(line, c) /\ con' = Kputc(con, c)
       ELSE UNCHANGED <<line, con>>
  /\ UNCHANGED <<pc, run>>

TypeChar(c) ==
  /\ pc = "prompt"
  /\ IF Len(line) < LINE_SIZE - 1
       THEN line' = Append(line, c) /\ con' = Kputc(con, c)
       ELSE UNCHANGED <<line, con>>
  /\ UNCHANGED <<pc, run>>

TypeBackspace ==
  /\ pc = "prompt"
  /\ IF line # <<>>
       THEN /\ line' = Front(line)
            /\ con' = Kputs(con, <<Backspace, Space, Backspace>>)
       ELSE UNCHANGED <<line, con>>
  /\ UNCHANGED <<pc, run>>

-----------------------------------------------------------------------------
(* run_file: the name and the arguments.                                   *)

\* Length of the word that becomes the file name.
WordEnd(l) ==
  Max({n \in 0..Len(l) : n <= FILE_SIZE - 1 /\ \A k \in 1..n : l[k] # Space})

Word(l) == SubSeq(l, 1, WordEnd(l))

HasSuffix(w) == IsSuffix(Suffix, w)

\* Mutated form: the suffix may take the place of the terminating NUL.
TooLongLate(w) == ~HasSuffix(w) /\ Len(w) + Len(Suffix) > FILE_SIZE

TooLong(w) == ~HasSuffix(w) /\ Len(w) + Len(Suffix) >= FILE_SIZE

WithSuffix(w) == IF HasSuffix(w) THEN w ELSE w \o Suffix

\* n characters of s in capitals, filled up with spaces.
Field(s, n) == [i \in 1..n |-> IF i <= Len(s) THEN Upper[s[i]] ELSE Space]

Dots(w) == {i \in DOMAIN w : w[i] = Dot}

\* to_83_format: the name up to the first dot, and what follows that dot.
To83(w) ==
  IF Dots(w) = {} THEN Field(w, BASE_LEN) \o Field(<<>>, EXT_LEN)
  ELSE Field(SubSeq(w, 1, Min(Dots(w)) - 1), BASE_LEN)
         \o Field(SubSeq(w, Min(Dots(w)) + 1, Len(w)), EXT_LEN)

\* A space right after the name starts the arguments.
HasArgs(l) == WordEnd(l) < Len(l) /\ l[WordEnd(l) + 1] = Space

ArgStr(l) == IF HasArgs(l) THEN SubSeq(l, WordEnd(l) + 2, Len(l)) ELSE <<>>

\* Where in s a word starts.
WordStarts(s) == {j \in DOMAIN s : s[j] # Space /\ (j > 1 => s[j - 1] = Space)}

Argc(s) == 1 + Cardinality(WordStarts(s))

\* Mutated form: an argument starts at the space before it.
ArgvAtSpace(l) ==
  LET s == ArgStr(l)
      spaces == InOrder({j \in DOMAIN s : s[j] = Space})
      n == Min({Len(spaces), Max({Argc(s) - 2, 0})})
  IN  IF HasArgs(l) THEN <<1>> \o [k \in 1..n |-> spaces[k]] ELSE <<>>

\* argv[1], argv[2], ...: the first one is written whatever argc is, and one
\* more after each space while argc allows.
Argv(l) ==
  LET s == ArgStr(l)
      spaces == InOrder({j \in DOMAIN s : s[j] = Space})
      n == Min({Len(spaces), Max({Argc(s) - 2, 0})})
  IN  IF HasArgs(l) THEN <<1>> \o [k \in 1..n |-> spaces[k] + 1] ELSE <<>>

-----------------------------------------------------------------------------
(* '\n': a command, a program, or neither.                                 *)

Commands == Builtin \cup {ClearLine}

\* The line is empty again and the prompt printed after what c shows.
PromptAfter(c) ==
  /\ line' = <<>> /\ con' = Kputs(c, NewPrompt) /\ pc' = "prompt"

EnterBuiltin ==
  /\ pc = "prompt" /\ line \in Builtin
  /\ \E out \in Output : PromptAfter(Kputs(con, out))
  /\ UNCHANGED run

EnterClear ==
  /\ pc = "prompt" /\ line = ClearLine
  /\ PromptAfter(Cleared)
  /\ UNCHANGED run

EnterEmpty ==
  /\ pc = "prompt" /\ line = <<>>
  /\ PromptAfter(con)
  /\ UNCHANGED run

EnterTooLong ==
  /\ pc = "prompt" /\ line \notin Commands \cup {<<>>} /\ TooLong(Word(line))
  /\ PromptAfter(Kputs(con, Word(line)))
  /\ UNCHANGED run

\* fs_open fails: there is no such file, or it could not be opened.
EnterUnknown ==
  /\ pc = "prompt" /\ line \notin Commands \cup {<<>>} /\ ~TooLong(Word(line))
  /\ PromptAfter(Kputs(con, <<Newline>> \o line))
  /\ UNCHANGED run

EnterRun ==
  /\ pc = "prompt" /\ line \notin Commands \cup {<<>>} /\ ~TooLong(Word(line))
  /\ LET n == WithSuffix(Word(line)) IN
       /\ To83(n) \in Dir
       /\ run' = [name |-> n, prog |-> To83(n), args |-> ArgStr(line),
                  argc |-> Argc(ArgStr(line)), argv |-> Argv(line)]
  /\ con' = Kputc(con, Newline) /\ pc' = "user"
  /\ UNCHANGED line

\* The program prints by SYS_WRITE.
ProgramWrites ==
  /\ pc = "user" /\ con.cx < CxMax
  /\ \E out \in Output : con' = Kputs(con, out)
  /\ UNCHANGED <<line, pc, run>>

\* The locals of run_file end, and the next run clears USER_ARG_MEM.
ProgramReturns ==
  /\ pc = "user"
  /\ PromptAfter(con)
  /\ run' = NoRun

Next ==
  \/ (\E c \in Typed : TypeChar(c)) \/ TypeBackspace
  \/ EnterBuiltin \/ EnterClear \/ EnterEmpty \/ EnterTooLong \/ EnterUnknown \/ EnterRun
  \/ ProgramWrites \/ ProgramReturns

Spec == Init /\ [][Next]_vars

-----------------------------------------------------------------------------
(* Properties.                                                             *)

\* Every variable has its type; the cursor's row is on the screen.
TypeOK ==
  /\ line \in Seq(Typed) /\ Len(line) < LINE_SIZE
  /\ con.cx \in Nat /\ con.cy \in Row /\ DOMAIN con.text = Row
  /\ \A y \in Row : DOMAIN con.text[y] = Col
  /\ pc \in {"prompt", "user"} /\ run.argc \in Nat
  /\ \A i \in DOMAIN run.argv : run.argv[i] \in 1..LINE_SIZE

\* What the user sees behind the prompt is the line the shell will execute, up
\* to the right edge, after any typing, correcting, scrolling and output.
PromptShowsLine ==
  pc = "prompt" =>
    /\ con.cx = Len(line) + 1
    /\ con.text[con.cy] =
         [x \in Col |-> IF x = 0 THEN Prompt ELSE IF x \in DOMAIN line THEN line[x] ELSE Space]

\* No output ever draws one glyph over another: the cells from the cursor on
\* are blank, whatever programs print and wherever the screen has scrolled.
NothingSmeared ==
  \A y \in Row, x \in Col :
    y > con.cy \/ (y = con.cy /\ x >= con.cx) => con.text[y][x] = Space

\* The name with its suffix and its NUL fits filename[], whatever was typed.
NameFits == pc = "user" => Len(run.name) < FILE_SIZE

\* Single spaces between the words and none at the end.
Plain(l) == \A j \in DOMAIN l : l[j] = Space => j < Len(l) /\ l[j + 1] # Space

\* A program started by a plain line gets each word as one element of argv.
ArgvOfPlainLine ==
  pc = "user" /\ Plain(line) =>
    run.argv = InOrder(WordStarts(run.args)) /\ run.argc = Len(run.argv) + 1
=============================================================================
