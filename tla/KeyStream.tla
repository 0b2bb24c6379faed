------------------------------ MODULE KeyStream ------------------------------
(***************************************************************************)
(* What the keyboard path promises the shell: it is given the characters   *)
(* of the keys that were pressed, each one once and in the order of the    *)
(* presses.  A character is lost only if the keyboard's own buffer was     *)
(* full at the press, or Capacity earlier ones are still undelivered.      *)
(*                                                                         *)
(* Before the shell is ready ("open") the machine may throw away or make   *)
(* up characters: the firmware's leftovers are still being drained.        *)
(***************************************************************************)
EXTENDS Integers, Sequences

CONSTANTS Key, Char, NoChar, keymap, Capacity

VARIABLES open,    \* the shell has started to read
          held,    \* keys held down
          jammed,  \* the keyboard's own buffer is full; it may change at any time
          stream,  \* characters typed and not yet delivered, oldest first
          given    \* the character the shell was given and has not used yet

svars == <<open, held, jammed, stream, given>>

Init ==
  /\ open = FALSE /\ held = {} /\ jammed \in BOOLEAN
  /\ stream \in Seq(Char) /\ given = NoChar

\* A key goes down.  Its character, if it has one, joins the stream at its end.
Press(k) ==
  /\ k \notin held /\ held' = held \cup {k}
  /\ stream' = IF keymap[k] = NoChar \/ jammed THEN stream ELSE Append(stream, keymap[k])
  /\ UNCHANGED <<open, given>>

\* A key that comes up types nothing.
Release(k) ==
  /\ k \in held /\ held' = held \ {k}
  /\ UNCHANGED <<open, stream, given>>

\* The shell is given the oldest character, which leaves the stream.
Deliver ==
  /\ open /\ given = NoChar /\ stream # <<>>
  /\ given' = Head(stream) /\ stream' = Tail(stream)
  /\ UNCHANGED <<open, held>>

\* The shell has used its character and may ask for the next.
Use == given # NoChar /\ given' = NoChar /\ UNCHANGED <<open, held, stream>>

\* Capacity characters wait in front of it, so the next one is dropped.
Lose ==
  /\ Len(stream) > Capacity
  /\ stream' = [i \in 1..(Len(stream) - 1) |->
                  IF i <= Capacity THEN stream[i] ELSE stream[i + 1]]
  /\ UNCHANGED <<open, held, given>>

\* Until the shell starts nothing is promised about the stream.
Flush == ~open /\ stream' \in Seq(Char) /\ UNCHANGED <<open, held, given>>

Open == ~open /\ open' = TRUE /\ UNCHANGED <<held, stream, given>>

\* The keyboard's own buffer fills or empties, and nothing else happens.
Buffer == UNCHANGED <<open, held, stream, given>>

Next ==
  /\ jammed' \in BOOLEAN
  /\ \/ \E k \in Key : Press(k) \/ Release(k)
     \/ Deliver \/ Use \/ Lose \/ Flush \/ Open \/ Buffer

Spec == Init /\ [][Next]_svars
=============================================================================
