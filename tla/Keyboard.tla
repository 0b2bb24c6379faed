------------------------------ MODULE Keyboard ------------------------------
(***************************************************************************)
(* The keyboard path of KansoOS: the 8042 controller and the 8259 PIC (not *)
(* in the repository, modelled from how the drivers use them), the IRQ1    *)
(* handler and the ring buffer of drivers/keyboard.c, pic_mask_irq and     *)
(* pic_unmask_irq of x86/pic.c, and the parts of kernel_main and run_file  *)
(* that boot, read and mask the keyboard.                                  *)
(*                                                                         *)
(* There is one CPU.  Its program (pc) and the handler (hpc) never run at  *)
(* once: the gate is an interrupt gate, so the handler runs with IF clear, *)
(* and a pending interrupt is taken before the program's next step.  The   *)
(* keyboard and its controller run beside both.                            *)
(***************************************************************************)
EXTENDS Integers, Sequences, FiniteSets

CONSTANTS
  KBD_BUF_SIZE,  \* slots of the ring buffer (128 in the code)
  Key,           \* physical keys
  Char,          \* characters of the keymap
  NoChar,        \* the 0 of the keymap: a key without a character
  Enter,         \* '\n'
  keymap,        \* character of each key, or NoChar
  DevMax,        \* scancodes the keyboard holds before it drops new ones
  DownMax        \* keys held down at once (a bound of the model)

ASSUME KeyboardAssumption ==
  /\ KBD_BUF_SIZE \in Nat /\ KBD_BUF_SIZE >= 2
  /\ NoChar \notin Char /\ Enter \in Char
  /\ keymap \in [Key -> Char \cup {NoChar}]
  /\ DevMax \in Nat /\ DownMax \in Nat

Slot == 0..(KBD_BUF_SIZE - 1)
Scancode == [key : Key, up : BOOLEAN]

VARIABLES
  \* the keyboard and the 8042 controller
  down,    \* keys held down
  devq,    \* scancodes the keyboard has not yet handed to the controller
  obf,     \* output buffer full: the controller's IRQ1 line is high
  data,    \* last scancode in the output buffer; port 0x60 reads it even when ~obf
  \* the PIC's bits for IRQ1, and the CPU
  irr,     \* requested (a rising edge latches it, masked or not)
  isr,     \* in service, until an EOI
  imr,     \* masked
  IFlag,   \* EFLAGS.IF
  gate,    \* IDT entry 0x21 is set
  \* drivers/keyboard.c
  buf, head, tail,
  hpc,     \* where keyboard_handler is
  hc,      \* its local character c, NoChar outside its scope
  \* kernel_main, keyboard_getchar, run_file
  pc,
  c,       \* keyboard_getchar's local character, NoChar outside its scope
  shell    \* kernel_main has reached its prompt

device == <<down, devq, obf, data>>
pic    == <<irr, isr, imr>>
ring   == <<buf, head, tail>>
vars   == <<device, pic, IFlag, gate, ring, hpc, hc, pc, c, shell>>

BootPc  == {"pic_init", "boot_unmask", "drain", "gate", "sti", "discard"}
GetPc   == {"check", "hlt", "halted", "load", "advance", "got"}
ShellPc == {"command", "user", "run_unmask"}
HandlerPc == {"idle", "read", "push", "eoi", "iret"}

Init ==
  /\ down = {} /\ devq = <<>> /\ obf \in BOOLEAN /\ data \in Scancode
  /\ irr \in BOOLEAN /\ isr = FALSE /\ imr \in BOOLEAN
  /\ IFlag = FALSE /\ gate = FALSE
  /\ buf = [i \in Slot |-> NoChar] /\ head = 0 /\ tail = 0
  /\ hpc = "idle" /\ hc = NoChar
  /\ pc = "pic_init" /\ c = NoChar /\ shell = FALSE

-----------------------------------------------------------------------------
(* The keyboard and the controller.                                        *)

\* A scancode joins the keyboard's queue, or is dropped there when it is full.
Send(s) == devq' = IF Len(devq) < DevMax THEN Append(devq, s) ELSE devq

Press(k) ==
  /\ k \notin down /\ Cardinality(down) < DownMax
  /\ down' = down \cup {k}
  /\ Send([key |-> k, up |-> FALSE])
  /\ UNCHANGED <<obf, data, pic, IFlag, gate, ring, hpc, hc, pc, c, shell>>

Release(k) ==
  /\ k \in down
  /\ down' = down \ {k}
  /\ Send([key |-> k, up |-> TRUE])
  /\ UNCHANGED <<obf, data, pic, IFlag, gate, ring, hpc, hc, pc, c, shell>>

\* The controller takes the next scancode: the line rises, the PIC latches it.
Load ==
  /\ ~obf /\ devq # <<>>
  /\ obf' = TRUE /\ data' = Head(devq) /\ devq' = Tail(devq)
  /\ irr' = TRUE
  /\ UNCHANGED <<down, isr, imr, IFlag, gate, ring, hpc, hc, pc, c, shell>>

-----------------------------------------------------------------------------
(* Interrupt delivery and keyboard_handler.                                *)

Interruptible == IFlag /\ irr /\ ~imr /\ ~isr

\* The CPU enters irq1 through gate 0x21; a halted CPU resumes after its hlt.
TakeIrq1 ==
  /\ hpc = "idle" /\ Interruptible
  /\ irr' = FALSE /\ isr' = TRUE /\ IFlag' = FALSE
  /\ hpc' = "read"
  /\ pc' = IF pc = "halted" THEN "check" ELSE pc
  /\ UNCHANGED <<device, imr, gate, ring, hc, c, shell>>

HasChar(s) == ~s.up /\ keymap[s.key] # NoChar

\* Mutated form: the early return for a released key forgets pic_send_eoi.
HandlerReadNoEoi ==
  /\ hpc = "read"
  /\ obf' = FALSE
  /\ hc' = IF HasChar(data) THEN keymap[data.key] ELSE NoChar
  /\ hpc' = IF HasChar(data) THEN "push" ELSE IF data.up THEN "iret" ELSE "eoi"
  /\ UNCHANGED <<down, devq, data, pic, IFlag, gate, ring, pc, c, shell>>

\* inb(0x60): the byte is taken, or read once more if none was there.
HandlerRead ==
  /\ hpc = "read"
  /\ obf' = FALSE
  /\ hc' = IF HasChar(data) THEN keymap[data.key] ELSE NoChar
  /\ hpc' = IF HasChar(data) THEN "push" ELSE "eoi"
  /\ UNCHANGED <<down, devq, data, pic, IFlag, gate, ring, pc, c, shell>>

\* Mutated form: the index is not wrapped.
SuccUnwrapped(i) == i + 1

Succ(i) == (i + 1) % KBD_BUF_SIZE

\* Mutated form: buf_push does not look whether the ring is full.
NeverFull == FALSE

Full == Succ(head) = tail

\* buf_push
HandlerPush ==
  /\ hpc = "push" /\ hpc' = "eoi" /\ hc' = NoChar
  /\ IF Full
       THEN UNCHANGED ring
       ELSE /\ buf' = [buf EXCEPT ![head] = hc]
            /\ head' = Succ(head)
            /\ UNCHANGED tail
  /\ UNCHANGED <<device, pic, IFlag, gate, pc, c, shell>>

\* pic_send_eoi(1)
HandlerEoi ==
  /\ hpc = "eoi" /\ hpc' = "iret"
  /\ isr' = FALSE
  /\ UNCHANGED <<device, irr, imr, IFlag, gate, ring, hc, pc, c, shell>>

HandlerIret ==
  /\ hpc = "iret" /\ hpc' = "idle"
  /\ IFlag' = TRUE
  /\ UNCHANGED <<device, pic, gate, ring, hc, pc, c, shell>>

-----------------------------------------------------------------------------
(* kernel_main up to the prompt.  The CPU executes a step of the program   *)
(* only outside the handler and with no interrupt to take.                 *)

At(l) == pc = l /\ hpc = "idle" /\ ~Interruptible

\* pic_init: ICW1 forgets latched edges, and OCW1 masks everything.
PicInit ==
  /\ At("pic_init") /\ pc' = "boot_unmask"
  /\ irr' = FALSE /\ imr' = TRUE
  /\ UNCHANGED <<device, isr, IFlag, gate, ring, hpc, hc, c, shell>>

\* pic_unmask_irq(1) of kernel_main
BootUnmask ==
  /\ At("boot_unmask") /\ pc' = "drain"
  /\ imr' = FALSE
  /\ UNCHANGED <<device, irr, isr, IFlag, gate, ring, hpc, hc, c, shell>>

\* Mutated form: keyboard_init does not drain the controller.
DrainNot ==
  /\ At("drain") /\ pc' = "gate"
  /\ UNCHANGED <<device, pic, IFlag, gate, ring, hpc, hc, c, shell>>

\* keyboard_init: while (inb(0x64) & 1) inb(0x60)
Drain ==
  /\ At("drain")
  /\ obf' = FALSE
  /\ pc' = IF obf THEN "drain" ELSE "gate"
  /\ UNCHANGED <<down, devq, data, pic, IFlag, gate, ring, hpc, hc, c, shell>>

\* keyboard_init: idt_set_gate(0x21, irq1)
SetGate ==
  /\ At("gate") /\ pc' = "sti"
  /\ gate' = TRUE
  /\ UNCHANGED <<device, pic, IFlag, ring, hpc, hc, c, shell>>

Sti ==
  /\ At("sti") /\ pc' = "discard"
  /\ IFlag' = TRUE
  /\ UNCHANGED <<device, pic, gate, ring, hpc, hc, c, shell>>

\* Mutated form: a ring whose head has wrapped looks empty.
AvailableUnwrapped == tail < head

\* keyboard_available
Available == head # tail

\* while (keyboard_available()) keyboard_getchar(): the prompt follows.
Discard ==
  /\ At("discard") /\ pc' = "check"
  /\ shell' = ~Available
  /\ UNCHANGED <<device, pic, IFlag, gate, ring, hpc, hc, c>>

-----------------------------------------------------------------------------
(* keyboard_getchar: the test, the hlt and the two halves of the removal   *)
(* are steps of their own, since IRQ1 may come between any two of them.    *)

GetCheck ==
  /\ At("check") /\ pc' = IF Available THEN "load" ELSE "hlt"
  /\ UNCHANGED <<device, pic, IFlag, gate, ring, hpc, hc, c, shell>>

GetHlt ==
  /\ At("hlt") /\ pc' = "halted"
  /\ UNCHANGED <<device, pic, IFlag, gate, ring, hpc, hc, c, shell>>

GetLoad ==
  /\ At("load") /\ pc' = "advance"
  /\ c' = buf[tail]
  /\ UNCHANGED <<device, pic, IFlag, gate, ring, hpc, hc, shell>>

\* Mutated form: the slot is not given up, so the character comes again.
GetAdvanceNot ==
  /\ At("advance") /\ pc' = "got"
  /\ UNCHANGED <<device, pic, IFlag, gate, ring, hpc, hc, c, shell>>

GetAdvance ==
  /\ At("advance") /\ pc' = "got"
  /\ tail' = Succ(tail)
  /\ UNCHANGED <<device, pic, IFlag, gate, buf, head, hpc, hc, c, shell>>

-----------------------------------------------------------------------------
(* The shell loop, and the masking of IRQ1 around a program in run_file.   *)

\* The character goes to the discard loop, the line or, on '\n', a command.
Got ==
  /\ At("got")
  /\ pc' = IF ~shell THEN "discard" ELSE IF c = Enter THEN "command" ELSE "check"
  /\ c' = NoChar
  /\ UNCHANGED <<device, pic, IFlag, gate, ring, hpc, hc, shell>>

\* A built-in command, or a run_file that starts no program.
CommandDone ==
  /\ At("command") /\ pc' = "check"
  /\ UNCHANGED <<device, pic, IFlag, gate, ring, hpc, hc, c, shell>>

\* pic_mask_irq(1); user_exec
RunProgram ==
  /\ At("command") /\ pc' = "user"
  /\ imr' = TRUE
  /\ UNCHANGED <<device, irr, isr, IFlag, gate, ring, hpc, hc, c, shell>>

UserReturns ==
  /\ At("user") /\ pc' = "run_unmask"
  /\ UNCHANGED <<device, pic, IFlag, gate, ring, hpc, hc, c, shell>>

\* Mutated form: what was typed during the program is polled away first.
RunUnmaskFlush ==
  /\ At("run_unmask") /\ pc' = "check"
  /\ imr' = FALSE /\ obf' = FALSE
  /\ UNCHANGED <<down, devq, data, irr, isr, IFlag, gate, ring, hpc, hc, c, shell>>

\* pic_unmask_irq(1) of run_file
RunUnmask ==
  /\ At("run_unmask") /\ pc' = "check"
  /\ imr' = FALSE
  /\ UNCHANGED <<device, irr, isr, IFlag, gate, ring, hpc, hc, c, shell>>

-----------------------------------------------------------------------------
Handler == HandlerRead \/ HandlerPush \/ HandlerEoi \/ HandlerIret

\* The kernel's own steps; a program need not return, so UserReturns is not one.
Kernel ==
  \/ PicInit \/ BootUnmask \/ Drain \/ SetGate \/ Sti \/ Discard
  \/ GetCheck \/ GetHlt \/ GetLoad \/ GetAdvance \/ Got
  \/ CommandDone \/ RunProgram \/ RunUnmask

Device == Load \/ \E k \in Key : Press(k) \/ Release(k)

Next == Device \/ TakeIrq1 \/ Handler \/ Kernel \/ UserReturns

Spec == Init /\ [][Next]_vars

(* Fairness.  The controller and the CPU run and held keys are let go.  SF *)
(* for the kernel, since every interrupt disables its next step; it does   *)
(* not help a kernel that interrupts never leave a step.                   *)
FairSpec ==
  /\ Spec
  /\ WF_vars(Load) /\ WF_vars(TakeIrq1) /\ WF_vars(Handler)
  /\ SF_vars(Kernel)
  /\ \A k \in Key : WF_vars(Release(k))

-----------------------------------------------------------------------------
(* Properties.                                                             *)

\* Every variable has its type; head and tail always index a slot.
TypeOK ==
  /\ down \subseteq Key /\ devq \in Seq(Scancode)
  /\ obf \in BOOLEAN /\ data \in Scancode
  /\ irr \in BOOLEAN /\ isr \in BOOLEAN /\ imr \in BOOLEAN
  /\ IFlag \in BOOLEAN /\ gate \in BOOLEAN
  /\ buf \in [Slot -> Char \cup {NoChar}] /\ head \in Slot /\ tail \in Slot
  /\ hpc \in HandlerPc /\ hc \in Char \cup {NoChar}
  /\ pc \in BootPc \cup GetPc \cup ShellPc /\ c \in Char \cup {NoChar}
  /\ shell \in BOOLEAN

\* The keyboard never wedges: once keyboard_init has drained the controller,
\* a byte in its output buffer always has an interrupt latched or a handler
\* about to read it, however pressing, masking and handling interleave.
NeverWedged ==
  obf /\ pc \notin {"pic_init", "boot_unmask", "drain"} => irr \/ hpc = "read"

\* The order in which kernel_main brings the interrupt up is safe although it
\* unmasks IRQ1 before keyboard_init: no interrupt is taken before gate 0x21 is
\* set, and outside the handler IRQ1 is in service never and IFlag as the boot left it.
BootOrder ==
  /\ hpc # "idle" => gate
  /\ isr <=> hpc \in {"read", "push", "eoi"}
  /\ IFlag <=> hpc = "idle" /\ pc \notin BootPc \ {"discard"}

\* The characters between tail and head, oldest first.
Waiting ==
  [i \in 1..((head - tail) % KBD_BUF_SIZE) |-> buf[(tail + i - 1) % KBD_BUF_SIZE]]

\* A byte drained by keyboard_init may leave its interrupt latched, and the
\* handler then reads the old byte once more.  That is over before the prompt:
\* from then on each interrupt has a byte of its own.
NoGhost == shell /\ (irr \/ hpc = "read") => obf

\* The ring is a queue whatever interrupts whom.  The end of buf_push has appended
\* the handler's character, or dropped it with KBD_BUF_SIZE - 1 waiting; the return
\* of keyboard_getchar has taken the oldest character, which is the one it returns;
\* no other step changes what waits.
Pushes  == hpc = "push" /\ hpc' # "push"
Returns == pc' = "got" /\ pc # "got"
RingStep ==
  /\ Pushes => \/ Waiting' = Append(Waiting, hc)
               \/ Waiting' = Waiting /\ Len(Waiting) = KBD_BUF_SIZE - 1
  /\ Returns => Waiting # <<>> /\ c' = Head(Waiting) /\ Waiting' = Tail(Waiting)
  /\ ~Pushes /\ ~Returns => Waiting' = Waiting
RingIsFifo == [][RingStep]_vars

\* The character of a scancode, if it has one, and those of a queue.
CharOf(s) == IF HasChar(s) THEN <<keymap[s.key]>> ELSE <<>>
Chars(q) ==
  LET first[n \in 0..Len(q)] == IF n = 0 THEN <<>> ELSE first[n - 1] \o CharOf(q[n])
  IN  first[Len(q)]

\* The characters on their way to the shell, oldest first.
Pushing == IF hpc = "push" THEN <<hc>> ELSE <<>>
Held == IF obf THEN CharOf(data) ELSE <<>>
Stream == Waiting \o Pushing \o Held \o Chars(devq)

\* What keyboard_getchar has returned to the shell's loop.
Given == IF shell /\ pc = "got" THEN c ELSE NoChar

\* The path from the keys to the shell is a FIFO: each return of keyboard_getchar
\* gives the shell the oldest character of the keys pressed and takes it from the
\* stream, so none is repeated or overtaken by the interleavings of the handler with
\* keyboard_getchar; one is lost only at a press that finds the keyboard's own buffer
\* full, or with KBD_BUF_SIZE - 1 earlier ones in the ring.
KS == INSTANCE KeyStream WITH open <- shell, held <- down, jammed <- Len(devq) >= DevMax,
                              stream <- Stream, given <- Given,
                              Capacity <- KBD_BUF_SIZE - 1
ImplementsKeyStream == KS!Spec

\* The handler is done with the interrupts so far: the kernel can step.
CaughtUp == hpc = "idle" /\ ~Interruptible

\* While keys keep interrupting (so no program runs for ever) and the handler
\* keeps catching up with them, a character in the buffer is eventually given
\* to keyboard_getchar's caller.
ServedWhileTyping ==
  ([]<><<TakeIrq1>>_vars /\ []<>CaughtUp) => ((shell /\ Waiting # <<>>) ~> (pc = "got"))

\* kernel_main says of keyboard_getchar that it waits for keyboard input,
\* "inside: hlt -> IRQ1".  So a shell asleep in it wakes for a character that
\* has arrived.
SleeperServed ==
  []<>CaughtUp => ((pc = "halted" /\ Waiting # <<>>) ~> (pc = "got"))
=============================================================================
