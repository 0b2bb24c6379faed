----------------------------- MODULE MCStartup -----------------------------
(* A kernel of two sectors, a clock of two registers with two values in    *)
(* each, and an optical disc of two sectors in two pieces.                 *)
EXTENDS Startup

MCFirst == <<9, 1>>
MCLast  == <<10, 2>>
=============================================================================
