---------------------------- MODULE MCKeyboard ----------------------------
(* Small keyboards for TLC.                                                *)
EXTENDS Keyboard

CONSTANTS kLetter, kEnter, letter

\* A letter and Enter.  Their releases are the scancodes without a character.
MCKey    == {kLetter, kEnter}
MCChar   == {letter, Enter}
MCkeymap == [k \in MCKey |-> IF k = kLetter THEN letter ELSE Enter]
=============================================================================
