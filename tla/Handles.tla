------------------------------- MODULE Handles -------------------------------
(***************************************************************************)
(* What a table of handles promises: a handle that is given out was free,  *)
(* it stands for the file it was opened with until it is closed, and only  *)
(* a close takes it away.                                                  *)
(***************************************************************************)
EXTENDS FiniteSets

CONSTANTS Handle, File

VARIABLE live  \* the open handles and the file each one stands for

Init == live = [h \in {} |-> CHOOSE f \in File : TRUE]

Open(h, f) ==
  /\ h \notin DOMAIN live
  /\ live' = [g \in DOMAIN live \cup {h} |-> IF g = h THEN f ELSE live[g]]

Close(h) ==
  /\ h \in DOMAIN live
  /\ live' = [g \in DOMAIN live \ {h} |-> live[g]]

\* A program is started through a handle that is closed again: no trace is left.
Next == \E h \in Handle : Close(h) \/ \E f \in File : Open(h, f)

Spec == Init /\ [][Next]_live
=============================================================================
