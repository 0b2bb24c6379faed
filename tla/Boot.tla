-------------------------------- MODULE Boot --------------------------------
(***************************************************************************)
(* From reset to kernel_main: the repository's BIOS (bios/), the boot      *)
(* sector (boot/vbr.asm), and the kernel's first 16-bit instructions       *)
(* (boot/switch32.asm, kernel/a20.asm), with the 8042, the keyboard, the   *)
(* disk and the user beside the CPU.                                       *)
(*                                                                         *)
(* The BIOS is written for QEMU, whose 8042 answers before the next        *)
(* instruction.  A PC boots with its own firmware, which loads the boot    *)
(* sector, handles the keyboard's interrupt and serves int 0x13; there the *)
(* 8042 takes its time.  A byte of the 8042 is named for what it is: an    *)
(* answer of the controller, a reply of the keyboard or a key's scancode.  *)
(***************************************************************************)
EXTENDS Integers, Sequences, Post

CONSTANTS
  SECTORS,   \* sectors of the kernel (128 in the code)
  KernelLba, \* the first one (72 in the code)
  KeyMax     \* scancodes of keys used, from before the reset on (a bound of the model)

ASSUME BootAssumption ==
  SECTORS \in Nat \ {0} /\ KernelLba \in Nat /\ KeyMax \in Nat \ {0}

None == "none"

VARIABLES
  \* the machine: it does not change
  machine,  \* "qemu" or "pc"
  cpu,      \* "8086", "286" or "386" (or later)
  fault,    \* the stuck bit of the processor
  fpu, vbe, \* it has an FPU; its video BIOS knows VBE
  sig,      \* LBA 0 ends with 0xAA55
  \* the CPU
  pc, IFlag,
  shadow,   \* the instruction after sti runs before any interrupt
  irr,      \* IRQ1 is requested
  sp,       \* the stack pointer at the call of cpupost: 0 after reset, then 2
  al,       \* the byte last read from port 0x60 and kept
  \* the 8042 and the keyboard
  ibf,      \* the input buffer: a command or a data byte not yet taken, or <<>>
  want,     \* where the next data byte goes: "kbd", "cfg" or "port"
  answer,   \* the controller's answer not yet in the output buffer, or None
  out,      \* the output buffer, or None
  cfg, port,  \* what the configuration byte and the output port were last set from
  sent,     \* bytes of the keyboard not yet in the controller
  half,     \* the keyboard has got 0xF0 and waits for the number of a set
  set1,     \* it uses scan-code set 1
  keys,     \* scancodes used up
  \* the disk and int 0x13
  drv,      \* "busy", "drq", "idle" or "failed"
  at, left, \* the next sector of the command, and how many it still owes
  loaded    \* sectors the last call of int 0x13 has put in memory

hardware == <<machine, cpu, fault, fpu, vbe, sig>>
flags    == <<IFlag, shadow, irr, sp>>
i8042    == <<ibf, want, answer, out, cfg, port>>
kbd      == <<sent, half, set1, keys>>
disk     == <<drv, at, left, loaded>>
bootVars     == <<hardware, pc, flags, al, i8042, kbd, disk>>

\* Places without a way on: in the kernel, halted by a check, reset through the
\* output port, or executing what is no code.
End == {"kernel_main", "halted", "reset", "lost", "no_handler"}

Kernel == [i \in 1..SECTORS |-> KernelLba + i - 1]

Reset ==
  /\ machine = "qemu" /\ cpu = "386" /\ fpu = TRUE /\ vbe = TRUE
  /\ fault \in Fault /\ sig \in BOOLEAN /\ drv \in {"busy", "idle"}
  /\ pc = "post" /\ IFlag = FALSE
  /\ sent \in {<<>>, <<"key">>} /\ set1 = FALSE
  /\ loaded = <<>>

Firmware ==
  /\ machine = "pc" /\ cpu \in {"8086", "286", "386"} /\ fpu \in BOOLEAN /\ vbe \in BOOLEAN
  /\ fault = [part |-> None, at |-> 0] /\ sig = TRUE /\ drv = "idle"
  /\ pc = "vbr" /\ IFlag = TRUE
  /\ sent = <<>> /\ set1 = TRUE
  /\ loaded = <<0>>

BootInit ==
  /\ Reset \/ Firmware
  /\ shadow = FALSE /\ irr = FALSE /\ sp = 0 /\ al = None
  /\ ibf = <<>> /\ want = "kbd" /\ answer = None /\ out = None
  /\ cfg = "cfg" /\ port = "port" /\ half = FALSE /\ keys = Len(sent)
  /\ at = 0 /\ left = 0

-----------------------------------------------------------------------------
(* The 8042, the keyboard and the user.                                    *)

KeyUsed ==
  /\ pc \notin End /\ keys < KeyMax
  /\ keys' = keys + 1 /\ sent' = Append(sent, "key")
  /\ UNCHANGED <<hardware, pc, flags, al, i8042, half, set1, disk>>

\* The output buffer takes the controller's own answer before a keyboard byte.
CtlFills ==
  /\ pc \notin End /\ out = None /\ irr' = TRUE
  /\ \/ answer # None /\ out' = answer /\ answer' = None /\ UNCHANGED sent
     \/ answer = None /\ sent # <<>> /\ out' = Head(sent) /\ sent' = Tail(sent)
        /\ UNCHANGED answer
  /\ UNCHANGED <<hardware, pc, IFlag, shadow, sp, al, ibf, want, cfg, port,
                 half, set1, keys, disk>>

\* A command: 0x20 and 0xD0 ask for a byte, 0x60 and 0xD1 announce one.
CtlCommand ==
  /\ pc \notin End /\ ibf # <<>> /\ ibf[1] \in {"read", "write"} /\ ibf' = <<>>
  /\ answer' = IF ibf[1] = "read" THEN ibf[2] ELSE answer
  /\ want' = IF ibf[1] = "write" THEN ibf[2] ELSE want
  /\ UNCHANGED <<hardware, pc, flags, al, out, cfg, port, kbd, disk>>

\* A data byte for the keyboard, which replies to each.
CtlToKeyboard ==
  /\ pc \notin End /\ ibf # <<>> /\ ibf[1] = "data" /\ want = "kbd" /\ ibf' = <<>>
  /\ half' = (ibf[2] = "F0") /\ set1' = (set1 \/ (half /\ ibf[2] = "01"))
  /\ sent' = Append(sent, "reply")
  /\ UNCHANGED <<hardware, pc, flags, al, want, answer, out, cfg, port, keys, disk>>

\* A data byte for the controller.  Bit 0 of the output port resets the CPU when
\* it is 0: it is 1 in the port's own value, 0 in 0xFA, either in a scancode.
CtlWritten ==
  /\ pc \notin End /\ ibf # <<>> /\ ibf[1] = "data" /\ want # "kbd" /\ ibf' = <<>>
  /\ want' = "kbd"
  /\ cfg'  = IF want = "cfg" THEN ibf[2] ELSE cfg
  /\ port' = IF want = "port" THEN ibf[2] ELSE port
  /\ \/ pc' = pc /\ (want = "port" => ibf[2] # "reply")
     \/ pc' = "reset" /\ want = "port" /\ ibf[2] # "port"
  /\ UNCHANGED <<hardware, flags, al, answer, out, kbd, disk>>

Controller == CtlFills \/ CtlCommand \/ CtlToKeyboard \/ CtlWritten

Settled == ibf = <<>> /\ (out # None \/ (answer = None /\ sent = <<>>))

-----------------------------------------------------------------------------
(* The disk.                                                               *)

\* Ready after power on, or with the next sector.
DiskReady ==
  /\ pc \notin End /\ drv = "busy"
  /\ drv' = IF left > 0 THEN "drq" ELSE "idle"
  /\ UNCHANGED <<hardware, pc, flags, al, i8042, kbd, at, left, loaded>>

DiskFails ==
  /\ pc \notin End /\ drv = "busy" /\ left > 0
  /\ drv' = "failed" /\ left' = 0
  /\ UNCHANGED <<hardware, pc, flags, al, i8042, kbd, at, loaded>>

-----------------------------------------------------------------------------
(* Interrupts, and when the CPU takes its next step.                       *)

Interruptible == IFlag /\ ~shadow /\ irr

\* IRQ1: the firmware's handler reads the byte; this BIOS sets no vector for it.
TakeIrq1 ==
  /\ pc \notin End /\ Interruptible /\ irr' = FALSE
  /\ IF machine = "pc" THEN out' = None /\ pc' = pc ELSE pc' = "no_handler" /\ out' = out
  /\ UNCHANGED <<hardware, IFlag, shadow, sp, al, ibf, want, answer, cfg, port, kbd, disk>>

At(l) == pc = l /\ ~Interruptible /\ (machine = "qemu" => Settled)

\* The CPU goes on to l and does nothing but what the action says.
Goto(l) == pc' = l /\ UNCHANGED <<hardware, flags>>

-----------------------------------------------------------------------------
(* Ports 0x60 and 0x64: 8042.asm and a20.asm.                              *)

\* Where the input buffer is waited for, what is written then, and where it goes
\* on.  At "set_data" the byte kept is written, with bits 0 and 4 changed.
Sends == [
  cfg_cmd   |-> <<<<"read", "cfg">>,   "cfg_read">>,
  set_cmd   |-> <<<<"write", "cfg">>,  "set_data">>,
  set_data  |-> <<<<"data", "cfg">>,   "f0">>,
  f0        |-> <<<<"data", "F0">>,    "f0_set">>,
  f0_set    |-> <<<<"data", "01">>,    "ack">>,
  a20_cmd   |-> <<<<"read", "port">>,  "a20_read">>,
  a20_write |-> <<<<"write", "port">>, "a20_data">>]

\* Mutated form: after the ACK nothing is drained.
ReceivesLast == [cfg_read |-> "set_cmd", ack |-> "install", a20_read |-> "a20_write"]

\* Where the output buffer is waited for.
Receives == [cfg_read |-> "set_cmd", ack |-> "final", a20_read |-> "a20_write"]

\* Where it is read until it is empty.
Drains == [garbage |-> "cfg_cmd", final |-> "install"]

Send ==
  \E l \in DOMAIN Sends :
    /\ At(l) /\ ibf = <<>>
    /\ ibf' = IF l = "set_data" THEN <<"data", al>> ELSE Sends[l][1]
    /\ Goto(Sends[l][2])
    /\ UNCHANGED <<al, want, answer, out, cfg, port, kbd, disk>>

Receive ==
  \E l \in DOMAIN Receives :
    /\ At(l) /\ out # None
    /\ al' = out /\ out' = None /\ Goto(Receives[l])
    /\ UNCHANGED <<ibf, want, answer, cfg, port, kbd, disk>>

Drain ==
  \E l \in DOMAIN Drains :
    /\ At(l)
    /\ out' = None /\ Goto(IF out = None THEN Drains[l] ELSE l)
    /\ UNCHANGED <<al, ibf, want, answer, cfg, port, kbd, disk>>

\* The data byte of 0xD1 is written at once: a command not yet taken is lost.
A20Data ==
  /\ At("a20_data") /\ ibf' = <<"data", al>> /\ Goto("a20_fast")
  /\ UNCHANGED <<al, want, answer, out, cfg, port, kbd, disk>>

\* a20_enable_fast: port 0x92 is no part of the 8042, and its reset bit is left 0.
A20Fast ==
  /\ At("a20_fast") /\ Goto("vbe")
  /\ UNCHANGED <<al, i8042, kbd, disk>>

-----------------------------------------------------------------------------
(* The BIOS.                                                               *)

\* The test leaves SP at 0, so its ret takes the word at 0:0, not the one the
\* call pushed: on zeroed memory that is bios_start once more, and the second
\* call, made with SP = 2, pushes to 0:0.
Cpupost ==
  /\ At("post")
  /\ pc' = IF ~PostPasses(fault) THEN "halted" ELSE IF sp = 0 THEN "post" ELSE "garbage"
  /\ sp' = 2
  /\ UNCHANGED <<hardware, IFlag, shadow, irr, al, i8042, kbd, disk>>

\* The vectors of 0x10, 0x12, 0x13 and 0x19, mode 3, port 0x92, and sti.
Install ==
  /\ At("install") /\ pc' = "int19" /\ IFlag' = TRUE /\ shadow' = TRUE
  /\ UNCHANGED <<hardware, irr, sp, al, i8042, kbd, disk>>

\* Mutated form: the handler of int 0x19 runs with interrupts on.
Int19Open ==
  /\ At("int19") /\ pc' = "mbr" /\ shadow' = FALSE
  /\ UNCHANGED <<hardware, IFlag, irr, sp, al, i8042, kbd, disk>>

\* int 0x19 clears IF, and its handler never returns.
Int19 ==
  /\ At("int19") /\ pc' = "mbr" /\ IFlag' = FALSE /\ shadow' = FALSE
  /\ UNCHANGED <<hardware, irr, sp, al, i8042, kbd, disk>>

\* The sector and the count of a call of int 0x13, and where it returns to.
Dap == [mbr |-> <<0, 1, "check">>, kernel |-> <<KernelLba, SECTORS, "start">>]

\* int13h_handler up to the command: it waits for BSY only.
DiskCommand ==
  /\ machine = "qemu" /\ drv # "busy"
  /\ \E l \in DOMAIN Dap :
       /\ At(l) /\ Goto(IF l = "mbr" THEN "mbr_drq" ELSE "kernel_drq")
       /\ at' = Dap[l][1] /\ left' = Dap[l][2]
  /\ drv' = "busy" /\ loaded' = <<>>
  /\ UNCHANGED <<al, i8042, kbd>>

\* Mutated form: a sector is fetched without waiting for DRQ.
DrqAlways == TRUE

Drq == drv = "drq"

\* Mutated form: CX is counted down after its test.
MoreSectorsLate == left > 0

\* loop .read_sector
MoreSectors == left > 1

\* .wait_drq and .read_word: ERR is not looked at, and the clc of a success and
\* the stc of .error, which nothing jumps to, are both undone by iret.
DiskSector ==
  /\ pc \in {"mbr_drq", "kernel_drq"} /\ At(pc) /\ Drq
  /\ loaded' = Append(loaded, IF drv = "drq" THEN at ELSE -1)
  /\ at' = at + 1 /\ left' = left - 1
  /\ drv' = IF left > 1 THEN "busy" ELSE "idle"
  /\ Goto(IF MoreSectors THEN pc ELSE Dap[IF pc = "mbr_drq" THEN "mbr" ELSE "kernel"][3])
  /\ UNCHANGED <<al, i8042, kbd>>

\* int19h: the signature of the boot sector
CheckBootSector ==
  /\ At("check") /\ Goto(IF sig THEN "vbr" ELSE "halted")
  /\ UNCHANGED <<al, i8042, kbd, disk>>

-----------------------------------------------------------------------------
(* The boot sector and the kernel's 16-bit start.                          *)

\* is8086: push sp leaves SP - 2 on the stack.
CheckCpu ==
  /\ At("vbr") /\ Goto(IF cpu = "8086" THEN "halted" ELSE "kernel")
  /\ UNCHANGED <<al, i8042, kbd, disk>>

\* The firmware's int 0x13, and load_error
FirmwareLoads ==
  /\ machine = "pc" /\ At("kernel")
  /\ \/ loaded' = Kernel /\ Goto("start")
     \/ UNCHANGED loaded /\ Goto("halted")
  /\ UNCHANGED <<al, i8042, kbd, drv, at, left>>

\* start: cli and IsFPU?
Start ==
  /\ At("start") /\ IFlag' = FALSE
  /\ pc' = IF fpu THEN "a20_cmd" ELSE "halted"
  /\ UNCHANGED <<hardware, shadow, irr, sp, al, i8042, kbd, disk>>

\* Three calls of VBE, then 32 bits.  no_vbe returns, on an empty stack, to what
\* lies at 0x7C00; a 286 has no EAX.
Switch32 ==
  /\ At("vbe") /\ Goto(IF vbe /\ cpu = "386" THEN "kernel_main" ELSE "lost")
  /\ UNCHANGED <<al, i8042, kbd, disk>>

-----------------------------------------------------------------------------
Cpu ==
  \/ Send \/ Receive \/ Drain \/ A20Data \/ A20Fast
  \/ Cpupost \/ Install \/ Int19 \/ DiskCommand \/ DiskSector \/ CheckBootSector
  \/ CheckCpu \/ FirmwareLoads \/ Start \/ Switch32 \/ TakeIrq1

Disk == DiskReady \/ DiskFails

BootNext == Cpu \/ Controller \/ Disk \/ KeyUsed

BootSpec == BootInit /\ [][BootNext]_bootVars

-----------------------------------------------------------------------------
(* Properties.                                                             *)

Place == End \cup DOMAIN Sends \cup DOMAIN Receives \cup DOMAIN Drains
  \cup {"post", "install", "int19", "mbr", "mbr_drq", "check", "vbr", "kernel",
        "kernel_drq", "start", "a20_data", "a20_fast", "vbe"}

KbdByte == {"key", "reply"}
OutByte == KbdByte \cup {"cfg", "port"}

\* Every variable has its type.
BootTypeOK ==
  /\ machine \in {"qemu", "pc"} /\ cpu \in {"8086", "286", "386"} /\ fault \in Fault
  /\ fpu \in BOOLEAN /\ vbe \in BOOLEAN /\ sig \in BOOLEAN
  /\ pc \in Place /\ IFlag \in BOOLEAN /\ shadow \in BOOLEAN /\ irr \in BOOLEAN
  /\ sp \in {0, 2} /\ al \in OutByte \cup {None}
  /\ ibf = <<>> \/ ibf[1] \in {"read", "write", "data"}
  /\ want \in {"kbd", "cfg", "port"} /\ answer \in {None, "cfg", "port"}
  /\ out \in OutByte \cup {None} /\ cfg \in OutByte /\ port \in OutByte
  /\ sent \in Seq(KbdByte) /\ half \in BOOLEAN /\ set1 \in BOOLEAN /\ keys \in 0..KeyMax
  /\ drv \in {"busy", "drq", "idle", "failed"} /\ left \in 0..(SECTORS + 1) /\ at \in Nat
  /\ loaded \in Seq(Int)

\* Between sti and the kernel's IDT no interrupt finds the BIOS's empty vector,
\* whenever a key is used: nothing runs between sti and int 0x19, and IF stays
\* clear from there.
NoInterruptInBios == pc # "no_handler"

\* The kernel starts on a processor it can run on, found sound by the test (which
\* cannot see a stuck bit of AX), with all its sectors in their order.
KernelLoaded ==
  pc = "kernel_main" =>
    /\ loaded = Kernel /\ sig
    /\ cpu = "386" /\ fpu /\ fault.part \in {None, "AX"}

\* When no key is used, the controller's bytes are only ever rewritten from
\* themselves and the keyboard is left in set 1: no reply of the keyboard is
\* taken for an answer of the controller.  Under QEMU, as the BIOS requires.
\* What a key between two steps of the dialogue does is not part of this property;
\* the disagreement of BootA20.cfg is of that kind.
QuietKeyboardReady ==
  machine = "qemu" /\ keys = 0 =>
    /\ cfg = "cfg" /\ port = "port"
    /\ pc = "kernel_main" => set1 /\ out = None

\* "Read the output port" (a20.asm): the byte that a20_enable_8042 changes and
\* writes back is the output port.
ReadsOutputPort == pc = "a20_write" => al = "port"
=============================================================================
