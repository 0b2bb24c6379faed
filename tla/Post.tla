-------------------------------- MODULE Post --------------------------------
(***************************************************************************)
(* The test of the processor in bios/cpupost.asm.  A fault is one bit of a *)
(* flag or of a register that keeps its value whatever is written to it.   *)
(***************************************************************************)
EXTENDS Integers, Sequences

Flag == {"CF", "ZF", "PF", "SF", "AF", "OF"}

\* AX, and the registers the test moves it through, in its order.
Register == {"AX", "DS", "BX", "ES", "CX", "SS", "DX", "SP", "BP", "SI", "DI"}

\* part: the part that is stuck, or "none"; at: its value
Fault == [part : Flag \cup Register, at : {0, 1}] \cup {[part |-> "none", at |-> 0]}

\* What is read back from a part after w was written.
Kept(fault, part, w) == IF fault.part = part THEN fault.at ELSE w

\* Each flag is set and cleared; AF and then CF are seen through a shift.
FlagsPass(fault) ==
  \A w \in {0, 1} :
    /\ \A f \in {"CF", "ZF", "PF", "SF", "OF"} : Kept(fault, f, w) = w
    /\ Kept(fault, "CF", Kept(fault, "AF", w)) = w

\* AX after it went through the whole chain.
Moved(fault, ax) ==
  LET Through(a, b, w) == Kept(fault, b, Kept(fault, a, w)) IN
  Through("SI", "DI", Through("SP", "BP", Through("SS", "DX",
    Through("ES", "CX", Through("DS", "BX", ax)))))

\* All ones and then all zeros come out of the chain as AX holds them.
RegistersPass(fault) ==
  \A w \in {0, 1} : LET ax == Kept(fault, "AX", w) IN Moved(fault, ax) = ax

PostPasses(fault) == FlagsPass(fault) /\ RegistersPass(fault)
=============================================================================
