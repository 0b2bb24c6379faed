------------------------------ MODULE MCShell ------------------------------
(* Four characters to type, names of two letters and one for the suffix,   *)
(* ".b" for ".bin".  The cfg gives the sizes of line, name and screen.     *)
EXTENDS Shell

MCTyped == {"a", "b", ".", " "}
MCUpper == [c \in MCTyped |-> CASE c = "a" -> "A" [] c = "b" -> "B" [] OTHER -> c]
MCSuffix == <<".", "b">>

\* a.b, ab.b and a.a, a file that is no program.
MCDir == {<<"A", " ", "B">>, <<"A", "B", "B">>, <<"A", " ", "A">>}

MCBuiltin == {<<"b", "b">>}
MCClearLine == <<"b", "a">>
MCOutput == {<<>>, <<"a">>, <<Newline, "a", Newline>>, <<Backspace>>, <<"a", "a", "a", Backspace>>}
=============================================================================
