---------------------------- MODULE Startup_proofs ----------------------------
(***************************************************************************)
(* Proofs about the start, part by part: from reset to kernel_main for a   *)
(* kernel of any length at any place of the disk and any number of keys,   *)
(* the clock for any number of registers and any ranges, and the optical   *)
(* drive for any sectors, pieces of a sector and polls.  Then the parts'   *)
(* invariants in the whole: one part at a time moves, and what kernel_main *)
(* does between them leaves each as its own start does.                    *)
(***************************************************************************)
EXTENDS Startup, TLAPS

-----------------------------------------------------------------------------
(* From reset to kernel_main.                                              *)

\* Only a bit of AX can be stuck in a processor that passes the test: AX is
\* what the other registers are compared with.
LEMMA PostFindsFaults ==
  ASSUME NEW f \in Fault, PostPasses(f)
  PROVE  f.part \in {None, "AX"}
<1> SUFFICES ASSUME f.part \notin {None, "AX"} PROVE FALSE
  OBVIOUS
<1>1. f.part \in (Flag \cup Register) \ {"AX"} /\ f.at \in {0, 1}
  BY DEF Fault, None
<1> DEFINE w == 1 - f.at
<1>2. w \in {0, 1} /\ w # f.at
  BY <1>1
<1>3. CASE f.part \in Flag
  <2>1. \A g \in {"CF", "ZF", "PF", "SF", "OF"} : Kept(f, g, w) = w
    BY <1>2 DEF PostPasses, FlagsPass
  <2>2. Kept(f, "CF", Kept(f, "AF", w)) = w
    BY <1>2 DEF PostPasses, FlagsPass
  <2>3. QED
    BY <1>2, <1>3, <2>1, <2>2 DEF Kept, Flag
<1>4. CASE f.part \in Register \ {"AX"}
  <2>1. Kept(f, "AX", w) = w /\ Moved(f, w) = w
    BY <1>2, <1>4 DEF PostPasses, RegistersPass, Kept
  <2>2. Moved(f, w) = f.at
    BY <1>4 DEF Moved, Kept, Register
  <2>3. QED
    BY <1>2, <2>1, <2>2
<1>5. QED
  BY <1>1, <1>3, <1>4

-----------------------------------------------------------------------------
\* From the kernel's A20 gate on.
Late == {"a20_cmd", "a20_read", "a20_write", "a20_data", "a20_fast", "vbe", "kernel_main"}
FromSector == {"vbr", "kernel", "kernel_drq", "start"} \cup Late

\* What int 0x13 has read of the kernel so far, and what the disk still owes.
Sectors ==
  /\ drv \in {"busy", "drq"} /\ left \in 1..SECTORS /\ at = KernelLba + SECTORS - left
  /\ loaded \in Seq(Int) /\ Len(loaded) = SECTORS - left
  /\ \A i \in 1..Len(loaded) : loaded[i] = KernelLba + i - 1

\* What is known of the machine at each place of the boot.
Checked ==
  /\ fault \in Fault /\ machine \in {"qemu", "pc"}
  /\ machine = "pc" => sig = TRUE /\ fault.part = None
  /\ pc \notin {"post", "halted", "reset", "no_handler"} => fault.part \in {None, "AX"}
  /\ pc \in FromSector => sig = TRUE
  /\ pc = "kernel_drq" => drv = "failed" \/ Sectors
  /\ pc \in {"start"} \cup Late => loaded = Kernel
  /\ pc \in Late => fpu = TRUE
  /\ pc = "kernel_main" => cpu = "386"

\* In the BIOS, IF is set only while sti still holds interrupts back.
Masked ==
  /\ machine = "qemu" => IFlag = FALSE \/ shadow = TRUE
  /\ pc # "no_handler"

\* The inductive invariant.
BootIInv == Checked /\ Masked

LEMMA BootInitIInv == BootInit => BootIInv
<1> SUFFICES ASSUME BootInit PROVE BootIInv
  OBVIOUS
<1>1. CASE Reset
  BY <1>1 DEF BootInit, Reset, BootIInv, Checked, Masked, FromSector, Late
<1>2. CASE Firmware
  BY <1>2 DEF BootInit, Firmware, BootIInv, Checked, Masked, FromSector, Late, Fault, None
<1>3. QED
  BY <1>1, <1>2 DEF BootInit

\* The tables of the ports lead from the BIOS's part to the BIOS's part, and
\* from the A20 gate to the A20 gate.
Early == {"garbage", "cfg_cmd", "cfg_read", "set_cmd", "set_data", "f0", "f0_set",
          "ack", "final", "install"}

LEMMA PortsLead ==
  /\ \A l \in DOMAIN Sends :
       \/ l \in Early /\ Sends[l][2] \in Early
       \/ l \in Late /\ Sends[l][2] \in Late \ {"kernel_main"}
  /\ \A l \in DOMAIN Receives :
       \/ l \in Early /\ Receives[l] \in Early
       \/ l \in Late /\ Receives[l] \in Late \ {"kernel_main"}
  /\ \A l \in DOMAIN Drains : l \in Early /\ Drains[l] \in Early
<1>1. /\ \A l \in DOMAIN Receives :
           \/ l \in Early /\ Receives[l] \in Early
           \/ l \in Late /\ Receives[l] \in Late \ {"kernel_main"}
      /\ \A l \in DOMAIN Drains : l \in Early /\ Drains[l] \in Early
  BY DEF Receives, Drains, Early, Late
<1>2. ASSUME NEW l \in DOMAIN Sends
      PROVE  \/ l \in Early /\ Sends[l][2] \in Early
             \/ l \in Late /\ Sends[l][2] \in Late \ {"kernel_main"}
  <2>1. /\ Sends.cfg_cmd[2] = "cfg_read" /\ Sends.set_cmd[2] = "set_data"
        /\ Sends.set_data[2] = "f0" /\ Sends.f0[2] = "f0_set" /\ Sends.f0_set[2] = "ack"
        /\ Sends.a20_cmd[2] = "a20_read" /\ Sends.a20_write[2] = "a20_data"
    BY DEF Sends
  <2>2. l \in {"cfg_cmd", "set_cmd", "set_data", "f0", "f0_set", "a20_cmd", "a20_write"}
    BY DEF Sends
  <2>3. QED
    BY <2>1, <2>2 DEF Early, Late
<1>3. QED
  BY <1>1, <1>2

\* A step along the ports keeps what is known: it changes neither the machine
\* nor what is loaded.
LEMMA PortStep ==
  ASSUME BootIInv, Send \/ Receive \/ Drain \/ A20Data
  PROVE  BootIInv'
<1>1. UNCHANGED <<hardware, flags, disk>>
  BY DEF Send, Receive, Drain, A20Data, Goto
<1>2. \/ pc \in Early /\ pc' \in Early
      \/ pc \in Late /\ pc' \in Late \ {"kernel_main"}
  <2>1. CASE Send
    BY <2>1, PortsLead DEF Send, Goto, At
  <2>2. CASE Receive
    BY <2>2, PortsLead DEF Receive, Goto, At
  <2>3. CASE Drain
    BY <2>3, PortsLead DEF Drain, Goto, At
  <2>4. CASE A20Data
    BY <2>4 DEF A20Data, Goto, At, Late
  <2>5. QED
    BY <2>1, <2>2, <2>3, <2>4
<1>3. QED
  BY <1>1, <1>2 DEF BootIInv, Checked, Masked, Early, Late, FromSector, Sectors, Kernel,
    hardware, flags, disk

\* Keys, the controller and the keyboard move nothing the boot depends on, but
\* that a wrong output port resets the machine.
LEMMA KeyboardStep ==
  ASSUME BootIInv, KeyUsed \/ Controller
  PROVE  BootIInv'
<1>1. /\ UNCHANGED <<hardware, IFlag, shadow, disk>>
      /\ pc' = pc \/ pc' = "reset"
  BY DEF KeyUsed, Controller, CtlFills, CtlCommand, CtlToKeyboard, CtlWritten, flags
<1>2. QED
  BY <1>1 DEF BootIInv, Checked, Masked, Late, FromSector, Sectors, Kernel, hardware, disk

\* The disk becomes ready or gives the command up.
LEMMA DiskStep == ASSUME BootIInv, Disk PROVE BootIInv'
<1>1. /\ UNCHANGED <<hardware, pc, flags, at, loaded>> /\ drv = "busy"
      /\ \/ left' = left /\ drv' = (IF left > 0 THEN "drq" ELSE "idle")
         \/ drv' = "failed"
  BY DEF Disk, DiskReady, DiskFails
<1>2. pc = "kernel_drq" => (drv = "failed" \/ Sectors)'
  BY <1>1, BootAssumption DEF BootIInv, Checked, Sectors
<1>3. QED
  BY <1>1, <1>2 DEF BootIInv, Checked, Masked, Kernel, hardware, flags

\* IRQ1 cannot be taken while the BIOS runs.
LEMMA IrqStep == ASSUME BootIInv, TakeIrq1 PROVE BootIInv'
<1>1. /\ UNCHANGED <<hardware, IFlag, shadow, disk>> /\ IFlag /\ ~shadow
      /\ machine = "pc" => pc' = pc
  BY DEF TakeIrq1, Interruptible
<1>2. machine = "pc"
  BY <1>1 DEF BootIInv, Checked, Masked
<1>3. QED
  BY <1>1, <1>2 DEF BootIInv, Checked, Masked, Sectors, Kernel, hardware, disk

\* The test, the vectors and int 0x19; the checks of the boot sector, of the
\* processor and of the FPU.
LEMMA CheckStep ==
  ASSUME BootIInv, Cpupost \/ Install \/ Int19 \/ CheckBootSector \/ CheckCpu
  PROVE  BootIInv'
<1>1. UNCHANGED <<hardware, disk>>
  BY DEF Cpupost, Install, Int19, CheckBootSector, CheckCpu, Goto
<1>2. Masked'
  BY <1>1 DEF BootIInv, Masked, Cpupost, Install, Int19, CheckBootSector, CheckCpu, Goto, At,
    hardware, flags
<1>3. \/ pc = "post" /\ pc' \in {"halted", "post", "garbage"}
         /\ (pc' = "garbage" => PostPasses(fault))
      \/ pc = "install" /\ pc' = "int19"
      \/ pc = "int19" /\ pc' = "mbr"
      \/ pc = "check" /\ pc' = (IF sig THEN "vbr" ELSE "halted")
      \/ pc = "vbr" /\ pc' \in {"halted", "kernel"}
  BY DEF Cpupost, Install, Int19, CheckBootSector, CheckCpu, Goto, At
<1>4. PostPasses(fault) => fault.part \in {None, "AX"}
  BY PostFindsFaults DEF BootIInv, Checked
<1>5. fault' = fault /\ machine' = machine /\ sig' = sig
  BY <1>1 DEF hardware
<1>6. Checked'
  BY <1>3, <1>4, <1>5 DEF BootIInv, Checked, Late, FromSector
<1>7. QED
  BY <1>2, <1>6 DEF BootIInv

\* The kernel's first instructions.
LEMMA StartStep ==
  ASSUME BootIInv, FirmwareLoads \/ Start \/ A20Fast \/ Switch32
  PROVE  BootIInv'
<1>1. UNCHANGED hardware
  BY DEF FirmwareLoads, Start, A20Fast, Switch32, Goto
<1>2. Masked'
  BY <1>1 DEF BootIInv, Checked, Masked, FirmwareLoads, Start, A20Fast, Switch32, Goto, At, hardware, flags
<1>3. \/ pc = "kernel" /\ (pc' = "halted" \/ (pc' = "start" /\ loaded' = Kernel))
      \/ pc = "start" /\ loaded' = loaded /\ pc' = (IF fpu THEN "a20_cmd" ELSE "halted")
      \/ pc = "a20_fast" /\ loaded' = loaded /\ pc' = "vbe"
      \/ pc = "vbe" /\ loaded' = loaded
         /\ pc' = (IF vbe /\ cpu = "386" THEN "kernel_main" ELSE "lost")
  BY DEF FirmwareLoads, Start, A20Fast, Switch32, Goto, At, disk
<1>4. Checked'
  BY <1>1, <1>3 DEF BootIInv, Checked, Late, FromSector, hardware, Kernel
<1>5. QED
  BY <1>2, <1>4 DEF BootIInv

\* int 0x13 begins with nothing read.
LEMMA CommandStep == ASSUME BootIInv, DiskCommand PROVE BootIInv'
<1>1. /\ UNCHANGED <<hardware, flags>> /\ drv' = "busy" /\ loaded' = <<>>
      /\ \/ pc = "mbr" /\ pc' = "mbr_drq"
         \/ pc = "kernel" /\ pc' = "kernel_drq" /\ at' = KernelLba /\ left' = SECTORS
  <2>1. PICK l \in DOMAIN Dap :
          /\ At(l) /\ Goto(IF l = "mbr" THEN "mbr_drq" ELSE "kernel_drq")
          /\ at' = Dap[l][1] /\ left' = Dap[l][2]
    BY DEF DiskCommand
  <2>2. l \in {"mbr", "kernel"} /\ Dap.kernel[1] = KernelLba /\ Dap.kernel[2] = SECTORS
    BY DEF Dap
  <2>3. QED
    BY <2>1, <2>2 DEF DiskCommand, Goto, At
<1>2. pc' = "kernel_drq" => Sectors'
  BY <1>1, BootAssumption DEF Sectors
<1>3. QED
  BY <1>1, <1>2 DEF BootIInv, Checked, Masked, Late, FromSector, hardware, flags

\* What Append does, element by element.
LEMMA Appended ==
  ASSUME NEW s \in Seq(Int), NEW e \in Int
  PROVE  /\ Append(s, e) \in Seq(Int) /\ Len(Append(s, e)) = Len(s) + 1
         /\ Append(s, e)[Len(s) + 1] = e
         /\ \A i \in 1..Len(s) : Append(s, e)[i] = s[i]
OBVIOUS

\* A sector read is the next one, and the last one completes the kernel.
LEMMA SectorStep == ASSUME BootIInv, DiskSector PROVE BootIInv'
<1>1. /\ UNCHANGED <<hardware, flags>> /\ drv = "drq" /\ pc \in {"mbr_drq", "kernel_drq"}
      /\ loaded' = Append(loaded, at) /\ at' = at + 1 /\ left' = left - 1
      /\ drv' = (IF left > 1 THEN "busy" ELSE "idle")
  BY DEF DiskSector, Drq, Goto
<1>2. \/ left > 1 /\ pc' = pc
      \/ ~(left > 1) /\ pc = "mbr_drq" /\ pc' = "check"
      \/ ~(left > 1) /\ pc = "kernel_drq" /\ pc' = "start"
  BY <1>1 DEF DiskSector, MoreSectors, Goto, Dap
<1>3. CASE pc = "mbr_drq"
  BY <1>1, <1>2, <1>3 DEF BootIInv, Checked, Masked, Late, FromSector, hardware, flags
<1>4. CASE pc = "kernel_drq"
  <2>1. Sectors /\ SECTORS \in Nat /\ KernelLba \in Nat
    BY <1>1, <1>4, BootAssumption DEF BootIInv, Checked
  <2>2. /\ loaded' \in Seq(Int) /\ Len(loaded') = SECTORS - left + 1
        /\ \A i \in 1..Len(loaded') : loaded'[i] = KernelLba + i - 1
    <3>1. /\ at \in Int /\ loaded \in Seq(Int) /\ Len(loaded) \in Nat
          /\ at = KernelLba + Len(loaded) /\ Len(loaded) = SECTORS - left
          /\ \A i \in 1..Len(loaded) : loaded[i] = KernelLba + i - 1
      BY <2>1 DEF Sectors
    <3>2. /\ loaded' \in Seq(Int) /\ Len(loaded') = Len(loaded) + 1
          /\ loaded'[Len(loaded) + 1] = at
          /\ \A i \in 1..Len(loaded) : loaded'[i] = loaded[i]
      BY <1>1, <3>1, Appended
    <3>3. ASSUME NEW i \in 1..(Len(loaded) + 1) PROVE loaded'[i] = KernelLba + i - 1
      <4>1. i = Len(loaded) + 1 \/ i \in 1..Len(loaded)
        BY <3>1
      <4>2. QED
        BY <2>1, <3>1, <3>2, <4>1
    <3>4. Len(loaded) = SECTORS - left /\ left \in Int
      BY <2>1, <3>1 DEF Sectors
    <3>5. QED
      BY <2>1, <3>2, <3>3, <3>4
  <2>3. CASE left > 1
    <3>1. Sectors'
      BY <1>1, <2>1, <2>2, <2>3 DEF Sectors
    <3>2. QED
      BY <1>1, <1>2, <1>4, <2>3, <3>1 DEF BootIInv, Checked, Masked, Late, FromSector, hardware, flags
  <2>4. CASE ~(left > 1)
    <3>1. Len(loaded') = SECTORS
      BY <2>1, <2>2, <2>4 DEF Sectors
    <3>2. loaded' = Kernel
      BY <2>1, <2>2, <3>1 DEF Kernel
    <3>3. QED
      BY <1>1, <1>2, <1>4, <2>4, <3>2 DEF BootIInv, Checked, Masked, Late, FromSector, Kernel, hardware, flags
  <2>5. QED
    BY <2>3, <2>4
<1>5. QED
  BY <1>1, <1>3, <1>4

\* Every step keeps the inductive invariant.
LEMMA BootNextStep == ASSUME BootIInv, [BootNext]_bootVars PROVE BootIInv'
<1>1. CASE UNCHANGED bootVars
  BY <1>1 DEF bootVars, hardware, flags, disk, BootIInv, Checked, Masked, Sectors, Kernel
<1>2. CASE Cpu
  BY <1>2, PortStep, IrqStep, CheckStep, StartStep, CommandStep, SectorStep DEF Cpu
<1>3. QED
  BY <1>1, <1>2, KeyboardStep, DiskStep DEF BootNext

\* The inductive invariant holds in every behaviour.
THEOREM BootInvariance == BootSpec => []BootIInv
BY BootInitIInv, BootNextStep, PTL DEF BootSpec

LEMMA IInvKernelLoaded == BootIInv => KernelLoaded
BY DEF BootIInv, Checked, KernelLoaded, Late, FromSector

\* No interrupt reaches a vector the BIOS has not set.
THEOREM BiosMasked == BootSpec => []NoInterruptInBios
<1>1. BootIInv => NoInterruptInBios
  BY DEF BootIInv, Masked, NoInterruptInBios
<1>2. QED
  BY BootInvariance, <1>1, PTL

\* kernel_main starts on a complete kernel, whatever its length, and only on a
\* processor that passed every check.
THEOREM KernelComplete == BootSpec => []KernelLoaded
BY BootInvariance, IInvKernelLoaded, PTL

-----------------------------------------------------------------------------
(* Types: what may be in the 8042's input buffer, and where it goes.       *)

\* A command, a byte read from the output buffer, or an argument of the
\* keyboard's command 0xF0, which goes to no other place.
Input ==
  \/ ibf = <<>>
  \/ \E x \in {"cfg", "port"} : ibf = <<"read", x>> \/ ibf = <<"write", x>>
  \/ \E x \in OutByte : ibf = <<"data", x>>
  \/ \E x \in {"F0", "01"} : ibf = <<"data", x>> /\ want = "kbd"

\* Before the keyboard's command is written, data bytes go to the keyboard; a
\* byte that is written back has been read; a sector that is ready is owed.
Prepared ==
  /\ pc \in {"f0", "f0_set"} => (ibf = <<>> /\ want = "kbd") \/ \E x : ibf = <<"data", x>>
  /\ pc \in {"set_cmd", "set_data", "a20_write", "a20_data"} => al # None
  /\ drv = "drq" => left > 0

BootTyped == BootTypeOK /\ Input /\ Prepared

LEMMA Pairs == \A a, b : <<a, b>> # <<>> /\ <<a, b>>[1] = a /\ <<a, b>>[2] = b
OBVIOUS

LEMMA BootTypedInit == BootInit => BootTyped
<1> SUFFICES ASSUME BootInit PROVE BootTyped
  OBVIOUS
<1>1. sent \in Seq(KbdByte) /\ keys \in 0..KeyMax
  <2>1. sent = <<>> \/ sent = <<"key">>
    BY DEF BootInit, Reset, Firmware
  <2>2. keys = Len(sent)
    BY DEF BootInit
  <2>3. CASE sent = <<>>
    BY <2>2, <2>3, BootAssumption
  <2>4. CASE sent = <<"key">>
    <3>1. "key" \in KbdByte
      BY DEF KbdByte
    <3>2. sent \in Seq(KbdByte) /\ Len(sent) = 1
      BY <2>4, <3>1
    <3>3. QED
      BY <2>2, <3>2, BootAssumption
  <2>5. QED
    BY <2>1, <2>3, <2>4
<1>2. loaded \in Seq(Int)
  <2>1. loaded = <<>> \/ loaded = <<0>>
    BY DEF BootInit, Reset, Firmware
  <2>2. <<>> \in Seq(Int) /\ <<0>> \in Seq(Int)
    OBVIOUS
  <2>3. QED
    BY <2>1, <2>2
<1>3. /\ machine \in {"qemu", "pc"} /\ cpu \in {"8086", "286", "386"} /\ fault \in Fault
      /\ fpu \in BOOLEAN /\ vbe \in BOOLEAN /\ sig \in BOOLEAN
      /\ pc \in {"post", "vbr"} /\ IFlag \in BOOLEAN /\ set1 \in BOOLEAN /\ drv \in {"busy", "idle"}
  BY DEF BootInit, Reset, Firmware, Fault, None
<1>4. Input
  BY DEF BootInit, Input
<1>5. Prepared
  BY <1>3 DEF BootInit, Prepared
<1>6. pc \in Place
  BY <1>3 DEF Place
<1>7. left \in 0..(SECTORS + 1) /\ at \in Nat
  BY BootAssumption DEF BootInit
<1>8. /\ sp \in {0, 2} /\ al \in OutByte \cup {None} /\ ibf = <<>> /\ want \in {"kbd", "cfg", "port"}
      /\ answer \in {None, "cfg", "port"} /\ out \in OutByte \cup {None}
      /\ cfg \in OutByte /\ port \in OutByte
      /\ shadow \in BOOLEAN /\ irr \in BOOLEAN /\ half \in BOOLEAN
  BY DEF BootInit, OutByte
<1>9. drv \in {"busy", "drq", "idle", "failed"}
  BY <1>3
<1>10. BootTypeOK
  BY <1>1, <1>2, <1>3, <1>6, <1>7, <1>8, <1>9 DEF BootTypeOK
<1>11. QED
  BY <1>4, <1>5, <1>10 DEF BootTyped

\* Where the tables of the ports lead is a place.
LEMMA PortPlaces ==
  /\ \A l \in DOMAIN Sends : Sends[l][2] \in Place
  /\ \A l \in DOMAIN Receives : Receives[l] \in Place
  /\ \A l \in DOMAIN Drains : Drains[l] \in Place
BY PortsLead DEF Early, Late, Place, Sends, Receives, Drains, End

\* The steps on the ports.
LEMMA SendTyped == ASSUME BootTyped, Send PROVE BootTyped'
<1>1. PICK l \in DOMAIN Sends :
        /\ pc = l /\ ibf = <<>> /\ pc' = Sends[l][2]
        /\ ibf' = IF l = "set_data" THEN <<"data", al>> ELSE Sends[l][1]
        /\ UNCHANGED <<hardware, flags, al, want, answer, out, cfg, port, kbd, disk>>
  BY DEF Send, Goto, At
<1>2. l \in {"cfg_cmd", "set_cmd", "set_data", "f0", "f0_set", "a20_cmd", "a20_write"}
  BY DEF Sends
<1>3. pc' \in Place
  BY <1>1, PortPlaces
<1>4. Input' /\ (ibf' = <<>> \/ ibf'[1] \in {"read", "write", "data"})
      /\ (pc' \in {"f0", "f0_set"} => \E x : ibf' = <<"data", x>>)
      /\ (pc' \in {"set_cmd", "set_data", "a20_write", "a20_data"} => al # None)
  <2>1. CASE l = "cfg_cmd"
    <3>1. ibf' = <<"read", "cfg">> /\ pc' = "cfg_read"
      BY <1>1, <2>1 DEF Sends
    <3>2. QED
      BY <3>1, Pairs DEF Input
  <2>2. CASE l = "set_cmd"
    <3>1. ibf' = <<"write", "cfg">> /\ pc' = "set_data" /\ al # None
      BY <1>1, <2>2 DEF Sends, BootTyped, Prepared
    <3>2. QED
      BY <3>1, Pairs DEF Input
  <2>3. CASE l = "set_data"
    <3>1. ibf' = <<"data", al>> /\ pc' = "f0" /\ al \in OutByte
      BY <1>1, <2>3 DEF Sends, BootTyped, Prepared, BootTypeOK
    <3>2. QED
      BY <3>1, Pairs DEF Input
  <2>4. CASE l = "f0"
    <3>1. ibf' = <<"data", "F0">> /\ pc' = "f0_set" /\ want' = "kbd"
      BY <1>1, <2>4, Pairs DEF Sends, BootTyped, Prepared
    <3>2. QED
      BY <3>1, Pairs DEF Input
  <2>5. CASE l = "f0_set"
    <3>1. ibf' = <<"data", "01">> /\ pc' = "ack" /\ want' = "kbd"
      BY <1>1, <2>5, Pairs DEF Sends, BootTyped, Prepared
    <3>2. QED
      BY <3>1, Pairs DEF Input
  <2>6. CASE l = "a20_cmd"
    <3>1. ibf' = <<"read", "port">> /\ pc' = "a20_read"
      BY <1>1, <2>6 DEF Sends
    <3>2. QED
      BY <3>1, Pairs DEF Input
  <2>7. CASE l = "a20_write"
    <3>1. ibf' = <<"write", "port">> /\ pc' = "a20_data" /\ al # None
      BY <1>1, <2>7 DEF Sends, BootTyped, Prepared
    <3>2. QED
      BY <3>1, Pairs DEF Input
  <2>8. QED
    BY <1>2, <2>1, <2>2, <2>3, <2>4, <2>5, <2>6, <2>7
<1>5. QED
  BY <1>1, <1>3, <1>4 DEF BootTyped, BootTypeOK, Prepared, hardware, flags, kbd, disk

LEMMA ReceiveTyped == ASSUME BootTyped, Receive \/ Drain \/ A20Data PROVE BootTyped'
<1>1. CASE Receive
  <2>1. PICK l \in DOMAIN Receives :
          /\ pc = l /\ out # None /\ al' = out /\ out' = None /\ pc' = Receives[l]
          /\ UNCHANGED <<hardware, flags, ibf, want, answer, cfg, port, kbd, disk>>
    BY <1>1 DEF Receive, Goto, At
  <2>2. pc' \in Place /\ pc' \notin {"f0", "f0_set"}
    BY <2>1, PortPlaces DEF Receives
  <2>3. QED
    BY <2>1, <2>2 DEF BootTyped, BootTypeOK, Input, Prepared, hardware, flags, kbd, disk
<1>2. CASE Drain
  <2>1. PICK l \in DOMAIN Drains :
          /\ pc = l /\ out' = None /\ pc' \in {l, Drains[l]}
          /\ UNCHANGED <<hardware, flags, al, ibf, want, answer, cfg, port, kbd, disk>>
    BY <1>2 DEF Drain, Goto, At
  <2>2. pc' \in Place
        /\ pc' \notin {"f0", "f0_set", "set_cmd", "set_data", "a20_write", "a20_data"}
    BY <2>1, PortPlaces DEF Drains, Place
  <2>3. QED
    BY <2>1, <2>2 DEF BootTyped, BootTypeOK, Input, Prepared, hardware, flags, kbd, disk
<1>3. CASE A20Data
  <2>1. /\ pc = "a20_data" /\ ibf' = <<"data", al>> /\ pc' = "a20_fast"
        /\ UNCHANGED <<hardware, flags, al, want, answer, out, cfg, port, kbd, disk>>
    BY <1>3 DEF A20Data, Goto, At
  <2>2. al \in OutByte
    BY <2>1 DEF BootTyped, BootTypeOK, Prepared
  <2>3. Input' /\ ibf'[1] \in {"read", "write", "data"}
    BY <2>1, <2>2, Pairs DEF Input
  <2>4. QED
    BY <2>1, <2>3 DEF BootTyped, BootTypeOK, Prepared, Place, hardware, flags, kbd, disk
<1>4. QED
  BY <1>1, <1>2, <1>3

\* The steps of the 8042 and of the user.
LEMMA ControllerTyped == ASSUME BootTyped, KeyUsed \/ Controller PROVE BootTyped'
<1>1. CASE KeyUsed
  <2>1. /\ keys' = keys + 1 /\ keys < KeyMax /\ sent' = Append(sent, "key")
        /\ UNCHANGED <<hardware, pc, flags, al, i8042, half, set1, disk>>
    BY <1>1 DEF KeyUsed
  <2>2. keys' \in 0..KeyMax /\ sent' \in Seq(KbdByte)
    <3>1. "key" \in KbdByte /\ sent \in Seq(KbdByte) /\ keys \in 0..KeyMax
      BY DEF KbdByte, BootTyped, BootTypeOK
    <3>2. QED
      BY <2>1, <3>1, BootAssumption
  <2>3. QED
    BY <2>1, <2>2 DEF BootTyped, BootTypeOK, Input, Prepared, hardware, flags, i8042, disk
<1>2. CASE CtlFills
  <2>1. /\ irr' \in BOOLEAN
        /\ \/ out' = answer /\ answer # None /\ answer' = None /\ sent' = sent
           \/ answer' = answer /\ sent # <<>> /\ out' = Head(sent) /\ sent' = Tail(sent)
        /\ UNCHANGED <<hardware, pc, IFlag, shadow, sp, al, ibf, want, cfg, port, half, set1, keys, disk>>
    BY <1>2 DEF CtlFills
  <2>2. sent \in Seq(KbdByte) /\ answer \in {None, "cfg", "port"}
    BY DEF BootTyped, BootTypeOK
  <2>3. sent # <<>> => Head(sent) \in KbdByte /\ Tail(sent) \in Seq(KbdByte)
    BY <2>2
  <2>4. out' \in OutByte \cup {None} /\ answer' \in {None, "cfg", "port"} /\ sent' \in Seq(KbdByte)
    BY <2>1, <2>2, <2>3 DEF OutByte
  <2>5. QED
    BY <2>1, <2>4 DEF BootTyped, BootTypeOK, Input, Prepared, hardware, disk
<1>3. CASE CtlCommand
  <2>1. /\ ibf # <<>> /\ ibf[1] \in {"read", "write"} /\ ibf' = <<>>
        /\ answer' = IF ibf[1] = "read" THEN ibf[2] ELSE answer
        /\ want' = IF ibf[1] = "write" THEN ibf[2] ELSE want
        /\ UNCHANGED <<hardware, pc, flags, al, out, cfg, port, kbd, disk>>
    BY <1>3 DEF CtlCommand
  <2>2. ibf[2] \in {"cfg", "port"}
    BY <2>1, Pairs DEF BootTyped, Input
  <2>3. answer' \in {None, "cfg", "port"} /\ want' \in {"kbd", "cfg", "port"}
    BY <2>1, <2>2 DEF BootTyped, BootTypeOK
  <2>4. pc \notin {"f0", "f0_set"}
    BY <2>1, Pairs DEF BootTyped, Prepared
  <2>5. QED
    BY <2>1, <2>3, <2>4 DEF BootTyped, BootTypeOK, Input, Prepared, hardware, flags, kbd, disk
<1>4. CASE CtlToKeyboard
  <2>1. /\ want = "kbd" /\ ibf' = <<>> /\ half' \in BOOLEAN /\ set1' \in BOOLEAN
        /\ sent' = Append(sent, "reply")
        /\ UNCHANGED <<hardware, pc, flags, al, want, answer, out, cfg, port, keys, disk>>
    BY <1>4 DEF CtlToKeyboard
  <2>2. sent' \in Seq(KbdByte)
    <3>1. "reply" \in KbdByte /\ sent \in Seq(KbdByte)
      BY DEF KbdByte, BootTyped, BootTypeOK
    <3>2. QED
      BY <2>1, <3>1
  <2>3. QED
    BY <2>1, <2>2 DEF BootTyped, BootTypeOK, Input, Prepared, hardware, flags, disk
<1>5. CASE CtlWritten
  <2>1. /\ ibf # <<>> /\ ibf[1] = "data" /\ want # "kbd" /\ ibf' = <<>> /\ want' = "kbd"
        /\ cfg' \in {cfg, ibf[2]} /\ port' \in {port, ibf[2]} /\ pc' \in {pc, "reset"}
        /\ UNCHANGED <<hardware, flags, al, answer, out, kbd, disk>>
    BY <1>5 DEF CtlWritten
  <2>2. ibf[2] \in OutByte
    BY <2>1, Pairs DEF BootTyped, Input
  <2>3. cfg' \in OutByte /\ port' \in OutByte
    BY <2>1, <2>2 DEF BootTyped, BootTypeOK
  <2>4. pc' \in Place
    BY <2>1 DEF BootTyped, BootTypeOK, Place, End
  <2>5. QED
    BY <2>1, <2>3, <2>4 DEF BootTyped, BootTypeOK, Input, Prepared, hardware, flags, kbd, disk
<1>6. QED
  BY <1>1, <1>2, <1>3, <1>4, <1>5 DEF Controller

\* The disk, and the calls of int 0x13.
LEMMA DiskTyped ==
  ASSUME BootTyped, Disk \/ DiskCommand \/ DiskSector \/ FirmwareLoads PROVE BootTyped'
<1>1. /\ SECTORS \in Nat \ {0} /\ KernelLba \in Nat /\ left \in 0..(SECTORS + 1) /\ at \in Nat
      /\ loaded \in Seq(Int) /\ (drv = "drq" => left > 0)
  BY BootAssumption DEF BootTyped, BootTypeOK, Prepared
<1>2. UNCHANGED <<hardware, flags, al, i8042, kbd>>
  BY DEF Disk, DiskReady, DiskFails, DiskCommand, DiskSector, FirmwareLoads, Goto
<1>3. \/ pc' \in Place /\ pc' \notin {"f0", "f0_set", "set_cmd", "set_data", "a20_write", "a20_data"}
      \/ pc' = pc
  <2>1. CASE Disk
    BY <2>1 DEF Disk, DiskReady, DiskFails
  <2>2. CASE DiskCommand
    BY <2>2 DEF DiskCommand, Goto, Place
  <2>3. CASE DiskSector
    BY <2>3 DEF DiskSector, Goto, Place, Dap
  <2>4. CASE FirmwareLoads
    BY <2>4 DEF FirmwareLoads, Goto, Place, End
  <2>5. QED
    BY <2>1, <2>2, <2>3, <2>4
<1>4. /\ drv' \in {"busy", "drq", "idle", "failed"} /\ left' \in 0..(SECTORS + 1) /\ at' \in Nat
      /\ loaded' \in Seq(Int) /\ (drv' = "drq" => left' > 0)
  <2>1. CASE Disk
    BY <1>1, <2>1 DEF Disk, DiskReady, DiskFails
  <2>2. CASE DiskCommand
    <3>1. \A l \in DOMAIN Dap : Dap[l][1] \in {0, KernelLba} /\ Dap[l][2] \in {1, SECTORS}
      BY DEF Dap
    <3>2. at' \in {0, KernelLba} /\ left' \in {1, SECTORS} /\ drv' = "busy" /\ loaded' = <<>>
      BY <2>2, <3>1 DEF DiskCommand
    <3>3. QED
      BY <1>1, <3>2
  <2>3. CASE DiskSector
    <3>1. drv = "drq" /\ loaded' = Append(loaded, at) /\ at' = at + 1 /\ left' = left - 1
          /\ drv' \in {"busy", "idle"}
      BY <2>3 DEF DiskSector, Drq
    <3>2. loaded' \in Seq(Int)
      BY <1>1, <3>1
    <3>3. QED
      BY <1>1, <3>1, <3>2
  <2>4. CASE FirmwareLoads
    <3>1. Kernel \in Seq(Int)
      BY <1>1 DEF Kernel
    <3>2. loaded' \in {Kernel, loaded} /\ drv' = drv /\ at' = at /\ left' = left
      BY <2>4 DEF FirmwareLoads
    <3>3. drv \in {"busy", "drq", "idle", "failed"}
      BY DEF BootTyped, BootTypeOK
    <3>4. QED
      BY <1>1, <3>1, <3>2, <3>3
  <2>5. QED
    BY <2>1, <2>2, <2>3, <2>4
<1>5. QED
  BY <1>2, <1>3, <1>4 DEF BootTyped, BootTypeOK, Input, Prepared, hardware, flags, i8042, kbd

\* The other steps of the CPU.
LEMMA CpuTyped ==
  ASSUME BootTyped, Cpupost \/ Install \/ Int19 \/ CheckBootSector \/ CheckCpu \/ Start \/ A20Fast
                    \/ Switch32 \/ TakeIrq1
  PROVE  BootTyped'
<1>1. UNCHANGED <<hardware, al, ibf, want, answer, cfg, port, kbd, disk>>
  BY DEF Cpupost, Install, Int19, CheckBootSector, CheckCpu, Start, A20Fast, Switch32, TakeIrq1, Goto, i8042
<1>2. IFlag' \in BOOLEAN /\ shadow' \in BOOLEAN /\ irr' \in BOOLEAN /\ sp' \in {0, 2}
      /\ out' \in {None, out}
  BY DEF Cpupost, Install, Int19, CheckBootSector, CheckCpu, Start, A20Fast, Switch32, TakeIrq1, Goto, flags,
         i8042, BootTyped, BootTypeOK
<1>3. \/ pc' \in Place /\ pc' \notin {"f0", "f0_set", "set_cmd", "set_data", "a20_write", "a20_data"}
      \/ pc' = pc
  BY DEF Cpupost, Install, Int19, CheckBootSector, CheckCpu, Start, A20Fast, Switch32, TakeIrq1, Goto, Place, End,
         Sends, Drains
<1>4. QED
  BY <1>1, <1>2, <1>3 DEF BootTyped, BootTypeOK, Input, Prepared, hardware, kbd, disk

LEMMA BootTypedStep == ASSUME BootTyped, [BootNext]_bootVars PROVE BootTyped'
<1>1. CASE UNCHANGED bootVars
  BY <1>1 DEF bootVars, hardware, flags, i8042, kbd, disk, BootTyped, BootTypeOK, Input, Prepared
<1>2. QED
  BY <1>1, SendTyped, ReceiveTyped, ControllerTyped, DiskTyped, CpuTyped DEF BootNext, Cpu

\* Every variable keeps its type, whatever keys are used and however late the
\* 8042 answers.
THEOREM BootTyping == BootSpec => []BootTypeOK
<1>1. BootTyped => BootTypeOK
  BY DEF BootTyped
<1>2. QED
  BY BootTypedInit, BootTypedStep, <1>1, PTL DEF BootSpec

-----------------------------------------------------------------------------
(* The 8042 when no key is used: at each place of the boot, what is on its *)
(* way between the CPU, the controller and the keyboard.                   *)

\* Nothing is; d tells whether the keyboard was given set 1.
Silent(d) ==
  /\ ibf = <<>> /\ want = "kbd" /\ answer = None /\ out = None /\ sent = <<>>
  /\ half = FALSE /\ set1 = d

\* The controller was asked for x.
Asked(x, d) ==
  /\ want = "kbd" /\ sent = <<>> /\ half = FALSE /\ set1 = d
  /\ \/ ibf = <<"read", x>> /\ answer = None /\ out = None
     \/ ibf = <<>> /\ answer = x /\ out = None
     \/ ibf = <<>> /\ answer = None /\ out = x

\* It was told that x, which the CPU has read, comes next.
Announced(x, d) ==
  /\ answer = None /\ out = None /\ sent = <<>> /\ half = FALSE /\ set1 = d /\ al = x
  /\ (ibf = <<"write", x>> /\ want = "kbd") \/ (ibf = <<>> /\ want = x)

\* It was given x.
Given(x, d) ==
  /\ answer = None /\ out = None /\ sent = <<>> /\ half = FALSE /\ set1 = d
  /\ (ibf = <<"data", x>> /\ want = x) \/ (ibf = <<>> /\ want = "kbd")

\* The keyboard was given 0xF0 and replies to it; after that the number of the
\* set, and the two replies are under way; and one of them is left.
SetAsked ==
  /\ want = "kbd" /\ answer = None /\ set1 = FALSE
  /\ \/ ibf = <<"data", "F0">> /\ half = FALSE /\ sent = <<>> /\ out = None
     \/ ibf = <<>> /\ half = TRUE /\ sent = <<"reply">> /\ out = None
     \/ ibf = <<>> /\ half = TRUE /\ sent = <<>> /\ out = "reply"
SetGiven ==
  /\ want = "kbd" /\ answer = None /\ out = "reply"
  /\ \/ ibf = <<"data", "01">> /\ half = TRUE /\ set1 = FALSE /\ sent = <<>>
     \/ ibf = <<>> /\ half = FALSE /\ set1 = TRUE /\ sent = <<"reply">>
LastReply ==
  /\ ibf = <<>> /\ want = "kbd" /\ answer = None /\ half = FALSE /\ set1 = TRUE
  /\ \/ sent = <<"reply">> /\ out = None
     \/ sent = <<>> /\ out \in {"reply", None}

\* The places where nothing is under way, before and after the keyboard is set.
Before == {"post", "garbage", "cfg_cmd"}
After  == {"install", "int19", "mbr", "mbr_drq", "check", "vbr", "kernel", "kernel_drq", "start",
           "a20_cmd", "vbe", "kernel_main"}

QuietAt(l) ==
  /\ l \in Before => Silent(FALSE)
  /\ l = "cfg_read" => Asked("cfg", FALSE)
  /\ l = "set_cmd" => Silent(FALSE) /\ al = "cfg"
  /\ l = "set_data" => Announced("cfg", FALSE)
  /\ l = "f0" => Given("cfg", FALSE)
  /\ l = "f0_set" => SetAsked
  /\ l = "ack" => SetGiven
  /\ l = "final" => LastReply
  /\ l \in After => Silent(TRUE)
  /\ l = "a20_read" => Asked("port", TRUE)
  /\ l = "a20_write" => Silent(TRUE) /\ al = "port"
  /\ l = "a20_data" => Announced("port", TRUE)
  /\ l = "a20_fast" => Given("port", TRUE)

\* The inductive invariant of QuietKeyboardReady.
Quiet ==
  machine = "qemu" /\ keys = 0 =>
    /\ cfg = "cfg" /\ port = "port" /\ cpu = "386" /\ vbe = TRUE
    /\ QuietAt(pc)

LEMMA QuietInit == BootInit => Quiet
<1> SUFFICES ASSUME BootInit, machine = "qemu", keys = 0 PROVE Quiet
  BY DEF Quiet
<1>1. Reset
  BY DEF BootInit, Firmware
<1>2. sent = <<>>
  <2>1. sent \in {<<>>, <<"key">>} /\ Len(sent) = 0
    BY <1>1 DEF Reset, BootInit
  <2>2. Len(<<"key">>) = 1
    OBVIOUS
  <2>3. sent # <<"key">>
    BY <2>1, <2>2
  <2>4. QED
    BY <2>1, <2>3
<1>3. pc = "post" /\ cpu = "386" /\ vbe = TRUE
  BY <1>1 DEF Reset
<1>4. Silent(FALSE) /\ cfg = "cfg" /\ port = "port"
  BY <1>1, <1>2 DEF BootInit, Reset, Silent
<1>5. QuietAt("post")
  BY <1>4 DEF QuietAt, Before, After
<1>6. QED
  BY <1>3, <1>4, <1>5 DEF Quiet

LEMMA OneReply == <<"reply">> # <<>> /\ Head(<<"reply">>) = "reply" /\ Tail(<<"reply">>) = <<>>
                  /\ Append(<<>>, "reply") = <<"reply">>
OBVIOUS

\* When nothing is under way, the controller does nothing.
LEMMA SilentStays == ASSUME NEW d, Silent(d), Controller PROVE FALSE
BY DEF Silent, Controller, CtlFills, CtlCommand, CtlToKeyboard, CtlWritten

LEMMA AskedStays ==
  ASSUME NEW x \in {"cfg", "port"}, NEW d, Asked(x, d), Controller
  PROVE  Asked(x, d)' /\ UNCHANGED <<hardware, pc, al, keys, cfg, port>>
<1>1. CASE CtlFills
  <2>1. ibf = <<>> /\ answer = x /\ out = None /\ sent = <<>>
    BY <1>1 DEF Asked, CtlFills
  <2>2. QED
    BY <1>1, <2>1 DEF Asked, CtlFills
<1>2. CASE CtlCommand
  <2>1. ibf = <<"read", x>> /\ answer = None /\ out = None
    BY <1>2 DEF Asked, CtlCommand
  <2>2. ibf' = <<>> /\ answer' = x /\ want' = want
    BY <1>2, <2>1, Pairs DEF CtlCommand
  <2>3. QED
    BY <1>2, <2>1, <2>2 DEF Asked, CtlCommand, kbd
<1>3. CASE CtlToKeyboard \/ CtlWritten
  BY <1>3, Pairs DEF Asked, CtlToKeyboard, CtlWritten
<1>4. QED
  BY <1>1, <1>2, <1>3 DEF Controller

LEMMA AnnouncedStays ==
  ASSUME NEW x \in {"cfg", "port"}, NEW d, Announced(x, d), Controller
  PROVE  Announced(x, d)' /\ UNCHANGED <<hardware, pc, al, keys, cfg, port>>
<1>1. CASE CtlCommand
  <2>1. ibf = <<"write", x>>
    BY <1>1 DEF Announced, CtlCommand
  <2>2. ibf' = <<>> /\ want' = x /\ answer' = answer
    BY <1>1, <2>1, Pairs DEF CtlCommand
  <2>3. QED
    BY <1>1, <2>2 DEF Announced, CtlCommand, kbd
<1>2. CASE CtlFills \/ CtlToKeyboard \/ CtlWritten
  BY <1>2, Pairs DEF Announced, CtlFills, CtlToKeyboard, CtlWritten
<1>3. QED
  BY <1>1, <1>2 DEF Controller

LEMMA GivenStays ==
  ASSUME NEW x \in {"cfg", "port"}, NEW d, Given(x, d), cfg = "cfg", port = "port", Controller
  PROVE  Given(x, d)' /\ UNCHANGED <<hardware, pc, al, keys, cfg, port>>
<1>1. CASE CtlWritten
  <2>1. ibf = <<"data", x>> /\ want = x
    BY <1>1 DEF Given, CtlWritten
  <2>2. ibf[2] = x
    BY <2>1, Pairs
  <2>3. cfg' = "cfg" /\ port' = "port" /\ pc' = pc
    BY <1>1, <2>1, <2>2 DEF CtlWritten
  <2>4. QED
    BY <1>1, <2>3 DEF Given, CtlWritten, kbd
<1>2. CASE CtlFills \/ CtlCommand \/ CtlToKeyboard
  BY <1>2, Pairs DEF Given, CtlFills, CtlCommand, CtlToKeyboard
<1>3. QED
  BY <1>1, <1>2 DEF Controller

LEMMA SetStays ==
  ASSUME Controller, SetAsked \/ SetGiven \/ LastReply
  PROVE  /\ UNCHANGED <<hardware, pc, al, keys, cfg, port>>
         /\ (SetAsked => SetAsked') /\ (SetGiven => SetGiven') /\ (LastReply => LastReply')
<1>1. CASE CtlFills
  <2>1. /\ out = None /\ answer = None /\ sent = <<"reply">>
    BY <1>1 DEF SetAsked, SetGiven, LastReply, CtlFills
  <2>2. out' = "reply" /\ sent' = <<>> /\ answer' = None
    BY <1>1, <2>1, OneReply DEF CtlFills
  <2>3. QED
    <3>1. UNCHANGED <<hardware, pc, al, keys, cfg, port, ibf, want, half, set1>>
      BY <1>1 DEF CtlFills
    <3>2. ~SetGiven
      BY <2>1 DEF SetGiven, None
    <3>3. SetAsked => SetAsked'
      BY <2>1, <2>2, <3>1, OneReply DEF SetAsked
    <3>4. LastReply => LastReply'
      BY <2>1, <2>2, <3>1, OneReply DEF LastReply
    <3>5. QED
      BY <3>1, <3>2, <3>3, <3>4
<1>2. CASE CtlToKeyboard
  <2>1. ibf # <<>> /\ sent = <<>> /\ ibf' = <<>> /\ half' = (ibf[2] = "F0")
        /\ set1' = (set1 \/ (half /\ ibf[2] = "01")) /\ sent' = <<"reply">>
        /\ UNCHANGED <<hardware, pc, al, keys, cfg, port, want, answer, out>>
    BY <1>2, OneReply DEF CtlToKeyboard, SetAsked, SetGiven, LastReply, flags
  <2>2. CASE SetAsked
    <3>1. ibf[2] = "F0" /\ half = FALSE /\ set1 = FALSE
      BY <2>1, <2>2, Pairs DEF SetAsked
    <3>2. half' = TRUE /\ set1' = FALSE
      BY <2>1, <3>1
    <3>3. ~SetGiven /\ ~LastReply
      BY <2>1, <2>2, Pairs DEF SetAsked, SetGiven, LastReply
    <3>4. QED
      BY <2>1, <2>2, <3>2, <3>3 DEF SetAsked
  <2>3. CASE SetGiven
    <3>1. ibf[2] = "01" /\ half = TRUE /\ set1 = FALSE
      BY <2>1, <2>3, Pairs DEF SetGiven
    <3>2. half' = FALSE /\ set1' = TRUE
      BY <2>1, <3>1
    <3>3. ~SetAsked /\ ~LastReply
      BY <2>1, <2>3, Pairs DEF SetAsked, SetGiven, LastReply
    <3>4. QED
      BY <2>1, <2>3, <3>2, <3>3 DEF SetGiven
  <2>4. ~LastReply
    BY <2>1 DEF LastReply
  <2>5. QED
    BY <2>2, <2>3, <2>4
<1>3. CASE CtlCommand \/ CtlWritten
  BY <1>3, Pairs DEF SetAsked, SetGiven, LastReply, CtlCommand, CtlWritten
<1>4. QED
  BY <1>1, <1>2, <1>3 DEF Controller

\* The controller keeps what is known at each place.
LEMMA QuietController == ASSUME Quiet, BootTyped, Controller PROVE Quiet'
<1>1. UNCHANGED <<hardware, keys>> /\ pc \notin End
  BY DEF Controller, CtlFills, CtlCommand, CtlToKeyboard, CtlWritten, kbd
<1>2. SUFFICES ASSUME machine = "qemu", keys = 0 PROVE Quiet'
  BY <1>1 DEF Quiet, hardware
<1>3. cfg = "cfg" /\ port = "port" /\ cpu = "386" /\ vbe = TRUE /\ QuietAt(pc)
  BY <1>2 DEF Quiet
<1>4. QuietAt(pc)' /\ UNCHANGED <<cfg, port>>
  <2>1. pc \notin Before \cup After \cup {"set_cmd", "a20_write"}
    BY <1>3, SilentStays DEF QuietAt
  <2>2. pc \in {"cfg_read", "set_data", "f0", "f0_set", "ack", "final", "a20_read", "a20_data", "a20_fast"}
    BY <1>1, <2>1 DEF BootTyped, BootTypeOK, Place, Sends, Receives, Drains, Before, After
  <2>3. CASE pc = "cfg_read"
    <3>1. Asked("cfg", FALSE)' /\ pc' = "cfg_read" /\ UNCHANGED <<cfg, port>>
      BY <1>3, <2>3, AskedStays DEF QuietAt
    <3>2. QED
      BY <3>1 DEF QuietAt, Before, After
  <2>4. CASE pc = "a20_read"
    <3>1. Asked("port", TRUE)' /\ pc' = "a20_read" /\ UNCHANGED <<cfg, port>>
      BY <1>3, <2>4, AskedStays DEF QuietAt
    <3>2. QED
      BY <3>1 DEF QuietAt, Before, After
  <2>5. CASE pc = "set_data"
    <3>1. Announced("cfg", FALSE)' /\ pc' = "set_data" /\ UNCHANGED <<cfg, port>>
      BY <1>3, <2>5, AnnouncedStays DEF QuietAt
    <3>2. QED
      BY <3>1 DEF QuietAt, Before, After
  <2>6. CASE pc = "a20_data"
    <3>1. Announced("port", TRUE)' /\ pc' = "a20_data" /\ UNCHANGED <<cfg, port>>
      BY <1>3, <2>6, AnnouncedStays DEF QuietAt
    <3>2. QED
      BY <3>1 DEF QuietAt, Before, After
  <2>7. CASE pc = "f0"
    <3>1. Given("cfg", FALSE)' /\ pc' = "f0" /\ UNCHANGED <<cfg, port>>
      BY <1>3, <2>7, GivenStays DEF QuietAt
    <3>2. QED
      BY <3>1 DEF QuietAt, Before, After
  <2>8. CASE pc = "a20_fast"
    <3>1. Given("port", TRUE)' /\ pc' = "a20_fast" /\ UNCHANGED <<cfg, port>>
      BY <1>3, <2>8, GivenStays DEF QuietAt
    <3>2. QED
      BY <3>1 DEF QuietAt, Before, After
  <2>9. CASE pc = "f0_set"
    <3>1. SetAsked' /\ pc' = "f0_set" /\ UNCHANGED <<cfg, port>>
      BY <1>3, <2>9, SetStays DEF QuietAt
    <3>2. QED
      BY <3>1 DEF QuietAt, Before, After
  <2>10. CASE pc = "ack"
    <3>1. SetGiven' /\ pc' = "ack" /\ UNCHANGED <<cfg, port>>
      BY <1>3, <2>10, SetStays DEF QuietAt
    <3>2. QED
      BY <3>1 DEF QuietAt, Before, After
  <2>11. CASE pc = "final"
    <3>1. LastReply' /\ pc' = "final" /\ UNCHANGED <<cfg, port>>
      BY <1>3, <2>11, SetStays DEF QuietAt
    <3>2. QED
      BY <3>1 DEF QuietAt, Before, After
  <2>12. QED
    BY <2>2, <2>3, <2>4, <2>5, <2>6, <2>7, <2>8, <2>9, <2>10, <2>11
<1>5. QED
  BY <1>1, <1>3, <1>4 DEF Quiet, hardware

\* The CPU on the ports.
LEMMA QuietPorts == ASSUME Quiet, Send \/ Receive \/ Drain \/ A20Data PROVE Quiet'
<1>1. UNCHANGED <<hardware, want, answer, cfg, port, kbd>>
  BY DEF Send, Receive, Drain, A20Data, Goto
<1>2. SUFFICES ASSUME machine = "qemu", keys = 0 PROVE Quiet'
  BY <1>1 DEF Quiet, hardware, kbd
<1>3. /\ cfg = "cfg" /\ port = "port" /\ cpu = "386" /\ vbe = TRUE /\ QuietAt(pc) /\ At(pc) /\ Settled
      /\ UNCHANGED <<hardware, want, answer, cfg, port, sent, half, set1, keys>>
  BY <1>1, <1>2 DEF Quiet, Send, Receive, Drain, A20Data, At, kbd
<1>4. QuietAt(pc)'
  <2>1. CASE Send
    <3>1. PICK l \in DOMAIN Sends :
            /\ pc = l /\ pc' = Sends[l][2] /\ UNCHANGED <<al, out>>
            /\ ibf' = IF l = "set_data" THEN <<"data", al>> ELSE Sends[l][1]
      BY <2>1 DEF Send, Goto, At
    <3>2. l \in {"cfg_cmd", "set_cmd", "set_data", "f0", "f0_set", "a20_cmd", "a20_write"}
      BY DEF Sends
    <3>3. CASE l = "cfg_cmd"
      <4>1. ibf' = <<"read", "cfg">> /\ pc' = "cfg_read" /\ Silent(FALSE)
        BY <1>3, <3>1, <3>3 DEF Sends, QuietAt, Before
      <4>2. Asked("cfg", FALSE)'
        BY <1>3, <3>1, <4>1 DEF Silent, Asked
      <4>3. QED
        BY <4>1, <4>2 DEF QuietAt, Before, After
    <3>4. CASE l = "set_cmd"
      <4>1. ibf' = <<"write", "cfg">> /\ pc' = "set_data" /\ Silent(FALSE) /\ al = "cfg"
        BY <1>3, <3>1, <3>4 DEF Sends, QuietAt
      <4>2. Announced("cfg", FALSE)'
        BY <1>3, <3>1, <4>1 DEF Silent, Announced
      <4>3. QED
        BY <4>1, <4>2 DEF QuietAt, Before, After
    <3>5. CASE l = "set_data"
      <4>1. /\ ibf' = <<"data", al>> /\ pc' = "f0" /\ Announced("cfg", FALSE) /\ ibf = <<>>
        BY <1>3, <2>1, <3>1, <3>5 DEF Sends, QuietAt, Send
      <4>2. Given("cfg", FALSE)'
        BY <1>3, <3>1, <4>1, Pairs DEF Announced, Given
      <4>3. QED
        BY <4>1, <4>2 DEF QuietAt, Before, After
    <3>6. CASE l = "f0"
      <4>1. /\ ibf' = <<"data", "F0">> /\ pc' = "f0_set" /\ Given("cfg", FALSE) /\ ibf = <<>>
        BY <1>3, <2>1, <3>1, <3>6 DEF Sends, QuietAt, Send
      <4>2. SetAsked'
        BY <1>3, <3>1, <4>1, Pairs DEF Given, SetAsked
      <4>3. QED
        BY <4>1, <4>2 DEF QuietAt, Before, After
    <3>7. CASE l = "f0_set"
      <4>1. /\ ibf' = <<"data", "01">> /\ pc' = "ack" /\ SetAsked /\ ibf = <<>>
        BY <1>3, <2>1, <3>1, <3>7 DEF Sends, QuietAt, Send
      <4>2. sent = <<>> /\ out = "reply" /\ half = TRUE
        BY <1>3, <4>1, Pairs, OneReply DEF SetAsked, Settled
      <4>3. SetGiven'
        BY <1>3, <3>1, <4>1, <4>2 DEF SetAsked, SetGiven
      <4>4. QED
        BY <4>1, <4>3 DEF QuietAt, Before, After
    <3>8. CASE l = "a20_cmd"
      <4>1. ibf' = <<"read", "port">> /\ pc' = "a20_read" /\ Silent(TRUE)
        BY <1>3, <3>1, <3>8 DEF Sends, QuietAt, After
      <4>2. Asked("port", TRUE)'
        BY <1>3, <3>1, <4>1 DEF Silent, Asked
      <4>3. QED
        BY <4>1, <4>2 DEF QuietAt, Before, After
    <3>9. CASE l = "a20_write"
      <4>1. ibf' = <<"write", "port">> /\ pc' = "a20_data" /\ Silent(TRUE) /\ al = "port"
        BY <1>3, <3>1, <3>9 DEF Sends, QuietAt
      <4>2. Announced("port", TRUE)'
        BY <1>3, <3>1, <4>1 DEF Silent, Announced
      <4>3. QED
        BY <4>1, <4>2 DEF QuietAt, Before, After
    <3>10. QED
      BY <3>2, <3>3, <3>4, <3>5, <3>6, <3>7, <3>8, <3>9
  <2>2. CASE Receive
    <3>1. PICK l \in DOMAIN Receives :
            /\ pc = l /\ pc' = Receives[l] /\ out # None /\ al' = out /\ out' = None /\ ibf' = ibf
      BY <2>2 DEF Receive, Goto, At
    <3>2. l \in {"cfg_read", "ack", "a20_read"}
      BY DEF Receives
    <3>3. CASE l = "cfg_read"
      <4>1. pc' = "set_cmd" /\ Asked("cfg", FALSE)
        BY <1>3, <3>1, <3>3 DEF Receives, QuietAt
      <4>2. Silent(FALSE)' /\ al' = "cfg"
        BY <1>3, <3>1, <4>1 DEF Silent, Asked
      <4>3. QED
        BY <4>1, <4>2 DEF QuietAt, Before, After
    <3>4. CASE l = "a20_read"
      <4>1. pc' = "a20_write" /\ Asked("port", TRUE)
        BY <1>3, <3>1, <3>4 DEF Receives, QuietAt
      <4>2. Silent(TRUE)' /\ al' = "port"
        BY <1>3, <3>1, <4>1 DEF Silent, Asked
      <4>3. QED
        BY <4>1, <4>2 DEF QuietAt, Before, After
    <3>5. CASE l = "ack"
      <4>1. pc' = "final" /\ SetGiven /\ ibf = <<>>
        BY <1>3, <3>1, <3>5 DEF Receives, QuietAt, Settled
      <4>2. LastReply'
        BY <1>3, <3>1, <4>1, Pairs DEF SetGiven, LastReply
      <4>3. QED
        BY <4>1, <4>2 DEF QuietAt, Before, After
    <3>6. QED
      BY <3>2, <3>3, <3>4, <3>5
  <2>3. CASE Drain
    <3>1. PICK l \in DOMAIN Drains :
            /\ pc = l /\ pc' = (IF out = None THEN Drains[l] ELSE l) /\ out' = None
            /\ ibf' = ibf /\ al' = al
      BY <2>3 DEF Drain, Goto, At
    <3>2. l \in {"garbage", "final"}
      BY DEF Drains
    <3>3. CASE l = "garbage"
      <4>1. pc' = "cfg_cmd" /\ Silent(FALSE)
        BY <1>3, <3>1, <3>3 DEF Drains, QuietAt, Before, Silent
      <4>2. Silent(FALSE)'
        BY <1>3, <3>1, <4>1 DEF Silent
      <4>3. QED
        BY <4>1, <4>2 DEF QuietAt, Before, After
    <3>4. CASE l = "final" /\ out = None
      <4>1. pc' = "install" /\ LastReply
        BY <1>3, <3>1, <3>4 DEF Drains, QuietAt
      <4>2. sent = <<>>
        BY <1>3, <3>4, OneReply DEF Settled
      <4>3. Silent(TRUE)'
        BY <1>3, <3>1, <4>1, <4>2 DEF LastReply, Silent
      <4>4. QED
        BY <4>1, <4>3 DEF QuietAt, Before, After
    <3>5. CASE l = "final" /\ out # None
      <4>1. pc' = "final" /\ LastReply
        BY <1>3, <3>1, <3>5 DEF QuietAt
      <4>2. LastReply'
        BY <1>3, <3>1, <4>1 DEF LastReply
      <4>3. QED
        BY <4>1, <4>2 DEF QuietAt, Before, After
    <3>6. QED
      BY <3>2, <3>3, <3>4, <3>5
  <2>4. CASE A20Data
    <3>1. /\ pc' = "a20_fast" /\ ibf' = <<"data", al>> /\ UNCHANGED <<al, out>> /\ Announced("port", TRUE)
          /\ ibf = <<>>
      BY <1>3, <2>4 DEF A20Data, Goto, At, QuietAt, Settled
    <3>2. Given("port", TRUE)'
      BY <1>3, <3>1, Pairs DEF Announced, Given
    <3>3. QED
      BY <3>1, <3>2 DEF QuietAt, Before, After
  <2>5. QED
    BY <2>1, <2>2, <2>3, <2>4
<1>5. QED
  BY <1>3, <1>4 DEF Quiet, hardware

\* The rest of the boot: to the kernel's last port is once more nothing under way.
LEMMA QuietRest ==
  ASSUME Quiet, BootTyped, Disk \/ Cpupost \/ Install \/ Int19 \/ DiskCommand \/ DiskSector
                \/ CheckBootSector \/ CheckCpu \/ FirmwareLoads \/ Start \/ A20Fast \/ Switch32 \/ TakeIrq1
  PROVE  Quiet'
<1>1. UNCHANGED <<hardware, al, ibf, want, answer, cfg, port, kbd>>
  BY DEF Disk, DiskReady, DiskFails, Cpupost, Install, Int19, DiskCommand, DiskSector,
         CheckBootSector, CheckCpu, FirmwareLoads, Start, A20Fast, Switch32, TakeIrq1, Goto, i8042
<1>2. SUFFICES ASSUME machine = "qemu", keys = 0 PROVE Quiet'
  BY <1>1 DEF Quiet, hardware, kbd
<1>3. /\ cfg = "cfg" /\ port = "port" /\ cpu = "386" /\ vbe = TRUE /\ QuietAt(pc)
      /\ UNCHANGED <<hardware, al, ibf, want, answer, cfg, port, sent, half, set1, keys>>
  BY <1>1, <1>2 DEF Quiet, kbd
<1>4. CASE TakeIrq1
  <2>1. pc' = "no_handler"
    BY <1>2, <1>4 DEF TakeIrq1
  <2>2. QuietAt("no_handler")'
    BY DEF QuietAt, Before, After
  <2>3. QED
    BY <1>3, <2>1, <2>2 DEF Quiet, hardware
<1>5. CASE ~TakeIrq1
  <2>1. out' = out
    BY <1>5 DEF Disk, DiskReady, DiskFails, Cpupost, Install, Int19, DiskCommand, DiskSector,
         CheckBootSector, CheckCpu, FirmwareLoads, Start, A20Fast, Switch32, Goto, i8042
  <2>2. \/ pc' = pc
        \/ pc' \in {"halted"}
        \/ (pc \in Before /\ pc' \in Before)
        \/ (pc \in After /\ pc' \in After)
        \/ (pc = "a20_fast" /\ Settled /\ pc' = "vbe")
    <3>1. CASE Cpupost \/ Install \/ Int19 \/ CheckBootSector \/ CheckCpu \/ FirmwareLoads \/ Start
      BY <3>1 DEF Cpupost, Install, Int19, CheckBootSector, CheckCpu, FirmwareLoads, Start, Goto, At,
                  Before, After
    <3>2. CASE A20Fast
      BY <1>2, <1>3, <3>2 DEF A20Fast, Goto, At
    <3>7. CASE Switch32
      BY <1>3, <3>7 DEF Switch32, Goto, At, After
    <3>3. CASE Disk
      BY <3>3 DEF Disk, DiskReady, DiskFails
    <3>4. CASE DiskCommand
      BY <3>4 DEF DiskCommand, Goto, At, Dap, After
    <3>5. CASE DiskSector
      BY <3>5 DEF DiskSector, Goto, At, Dap, After
    <3>6. QED
      BY <1>5, <3>1, <3>2, <3>3, <3>4, <3>5, <3>7
  <2>3. QuietAt(pc)'
    <3>1. CASE pc' = pc
      BY <1>3, <2>1, <3>1 DEF QuietAt, Silent, Asked, Announced, Given, SetAsked, SetGiven, LastReply
    <3>2. CASE pc' = "halted"
      BY <3>2 DEF QuietAt, Before, After
    <3>3. CASE pc \in Before /\ pc' \in Before
      <4>1. Silent(FALSE)'
        BY <1>3, <2>1, <3>3 DEF QuietAt, Silent
      <4>2. QED
        BY <3>3, <4>1 DEF QuietAt, Before, After
    <3>4. CASE pc \in After /\ pc' \in After
      <4>1. Silent(TRUE)'
        BY <1>3, <2>1, <3>4 DEF QuietAt, Silent
      <4>2. QED
        BY <3>4, <4>1 DEF QuietAt, Before, After
    <3>5. CASE pc = "a20_fast" /\ Settled /\ pc' = "vbe"
      <4>1. Given("port", TRUE) /\ ibf = <<>>
        BY <1>3, <3>5 DEF QuietAt, Settled
      <4>2. Silent(TRUE)'
        BY <1>3, <2>1, <4>1 DEF Given, Silent
      <4>3. QED
        BY <3>5, <4>2 DEF QuietAt, Before, After
    <3>6. QED
      BY <2>2, <3>1, <3>2, <3>3, <3>4, <3>5
  <2>4. QED
    BY <1>3, <2>3 DEF Quiet, hardware
<1>6. QED
  BY <1>4, <1>5

LEMMA QuietStep == ASSUME Quiet, BootTyped, [BootNext]_bootVars PROVE Quiet'
<1>1. CASE UNCHANGED bootVars
  BY <1>1 DEF bootVars, hardware, i8042, kbd, Quiet, QuietAt, Silent, Asked, Announced, Given,
              SetAsked, SetGiven, LastReply
<1>2. CASE KeyUsed
  <2>1. keys' = keys + 1 /\ keys \in Nat
    BY <1>2 DEF KeyUsed, BootTyped, BootTypeOK
  <2>2. QED
    BY <2>1 DEF Quiet
<1>3. QED
  BY <1>1, <1>2, QuietController, QuietPorts, QuietRest DEF BootNext, Cpu

LEMMA QuietReady == Quiet => QuietKeyboardReady
BY DEF Quiet, QuietKeyboardReady, QuietAt, After, Silent

\* Under QEMU the controller and the keyboard are left as they must be when no
\* key is used: their bytes are told apart by their order alone.
THEOREM KeyboardReady == BootSpec => []QuietKeyboardReady
<1>1. BootInit => BootTyped /\ Quiet
  BY BootTypedInit, QuietInit
<1>2. BootTyped /\ Quiet /\ [BootNext]_bootVars => BootTyped' /\ Quiet'
  BY BootTypedStep, QuietStep
<1>3. QED
  BY <1>1, <1>2, QuietReady, PTL DEF BootSpec


-----------------------------------------------------------------------------
(* The clock.                                                              *)

\* The date that would come out if the update came to its end and the clock
\* stopped then: what has been read, and the clock's own registers for the rest.
Mixed == [r \in Reg |-> IF r <= next THEN rtc[r] ELSE due[r]]

\* a is not an earlier date than b: register k is ahead (none, if k is 0) and
\* those slower than k agree.
AheadAt(a, b, k) ==
  (k > 0 => b[k] < a[k]) /\ \A r \in Reg : r > k => a[r] = b[r]
NotBefore(a, b) == \E k \in 0..N : AheadAt(a, b, k)

\* The inductive invariant.  NeverEarly speaks of the end only; before it, the
\* mixed date is what a carry between two reads cannot set back.
ClockIInv == ClockTypeOK /\ (torn \/ NotBefore(Mixed, began))

\* Decoding a register gives the number in it.
LEMMA BcdDecoded == ASSUME NEW v \in 0..99 PROVE BcdToBin(Bcd(v)) = v
<1> DEFINE t == v \div 10
<1> DEFINE u == v % 10
<1>1. v = 10 * t + u /\ u \in 0..9 /\ t \in 0..9
  OBVIOUS
<1> HIDE DEF t, u
<1>2. (16 * t + u) % 16 = u /\ (16 * t + u) \div 16 = t
  BY <1>1
<1>3. BcdToBin(16 * t + u) = v
  BY <1>1, <1>2 DEF BcdToBin
<1>4. QED
  BY <1>3 DEF Bcd, t, u

\* What is read is what the register shows.
LEMMA RegisterRead ==
  ASSUME now \in Date, NEW r \in Reg
  PROVE  BcdToBin(CmosRead(r)) = now[r]
<1>1. now[r] \in First[r]..Last[r] /\ First[r] \in Nat /\ Last[r] \in Nat /\ Last[r] <= 99
  BY ClockAssumption DEF Date, Reg
<1>2. now[r] \in 0..99
  BY <1>1
<1>3. QED
  BY <1>2, BcdDecoded DEF CmosRead

\* A date with a register changed for one of its range is a date.
LEMMA DateWith ==
  ASSUME NEW d \in Date, NEW e \in Date, NEW k \in Reg
  PROVE  [d EXCEPT ![k] = e[k]] \in Date
<1> DEFINE f == [d EXCEPT ![k] = e[k]]
<1>1. \A r \in Reg : f[r] \in First[r]..Last[r]
  BY DEF Date
<1>2. f \in [Reg -> UNION {First[r]..Last[r] : r \in Reg}]
  BY DEF Date
<1>3. QED
  BY <1>1, <1>2 DEF Date

\* The registers' first values are a date.
LEMMA FirstDate == First \in Date
BY ClockAssumption DEF Date, Reg

\* A date not before another is not earlier.
LEMMA NotBeforeNotEarlier ==
  ASSUME NEW a \in [Reg -> Int], NEW b \in [Reg -> Int], NotBefore(a, b)
  PROVE  ~Earlier(a, b)
<1> SUFFICES ASSUME NEW j \in Reg, a[j] < b[j], \A r \in Reg : r > j => a[r] = b[r]
             PROVE  FALSE
  BY DEF Earlier
<1>1. PICK k \in 0..N : AheadAt(a, b, k)
  BY DEF NotBefore
<1>2. N \in Nat
  BY ClockAssumption
<1>3. CASE j > k
  BY <1>1, <1>3 DEF AheadAt
<1>4. CASE j = k
  BY <1>1, <1>2, <1>4 DEF AheadAt, Reg
<1>5. CASE j < k
  <2>1. k \in Reg /\ k > 0
    BY <1>2, <1>5 DEF Reg
  <2>2. a[k] = b[k] /\ b[k] < a[k]
    BY <1>1, <1>5, <2>1 DEF AheadAt
  <2>3. QED
    BY <2>1, <2>2
<1>6. QED
  BY <1>2, <1>3, <1>4, <1>5 DEF Reg

\* The registers of a date are numbers.
LEMMA DateNumbers == \A d \in Date : d \in [Reg -> Int] /\ \A r \in Reg : d[r] \in Nat
<1> SUFFICES ASSUME NEW d \in Date, NEW r \in Reg PROVE d[r] \in Nat
  BY DEF Date
<1>1. First[r] \in Nat /\ Last[r] \in Nat /\ d[r] \in First[r]..Last[r]
  BY ClockAssumption DEF Date, Reg
<1>2. QED
  BY <1>1

\* At the call the date is that of the call.
LEMMA ClockInitIInv == ClockInit => ClockIInv
<1> SUFFICES ASSUME ClockInit PROVE ClockIInv
  OBVIOUS
<1>1. N \in Nat /\ First \in [Reg -> Nat]
  BY ClockAssumption DEF Reg
<1>2. ClockTypeOK
  <2>1. now \in Date /\ due = now /\ began = now /\ rtc = First /\ next = 0 /\ torn = FALSE
    BY DEF ClockInit
  <2>2. 0 \in 0..N
    BY <1>1
  <2>3. QED
    BY <2>1, <2>2, FirstDate DEF ClockTypeOK
<1>3. \A r \in Reg : Mixed[r] = began[r]
  BY <1>1 DEF ClockInit, Mixed, Reg
<1>4. AheadAt(Mixed, began, 0)
  BY <1>3 DEF AheadAt
<1>5. QED
  BY <1>1, <1>2, <1>4 DEF ClockIInv, NotBefore

\* Reading a register does not change the mixed date.
LEMMA ReadStep == ASSUME ClockIInv, ReadRegister PROVE ClockIInv'
<1>1. N \in Nat /\ next \in 0..N /\ next < N /\ next' = next + 1
  BY ClockAssumption DEF ClockIInv, ClockTypeOK, ReadRegister
<1>2. ReadAt \in Reg /\ ReadAt = next + 1
  BY <1>1 DEF ReadAt, Reg
<1>3. /\ now' = now /\ due' = due /\ began' = began /\ torn' = (torn \/ now # due)
      /\ now \in Date /\ rtc \in Date
  BY DEF ClockIInv, ClockTypeOK, ReadRegister
<1>4. rtc' = [rtc EXCEPT ![ReadAt] = now[ReadAt]]
  BY <1>2, <1>3, RegisterRead DEF ReadRegister
<1>5. rtc' \in Date
  BY <1>2, <1>3, <1>4, DateWith
<1>6. torn' \in BOOLEAN
  BY <1>3 DEF ClockIInv, ClockTypeOK
<1>7. ClockTypeOK'
  BY <1>1, <1>3, <1>5, <1>6 DEF ClockIInv, ClockTypeOK, Date
<1>8. rtc'[next + 1] = now[next + 1] /\ \A r \in Reg \ {next + 1} : rtc'[r] = rtc[r]
  BY <1>2, <1>3, <1>4 DEF Date
<1>9. CASE torn \/ now # due
  BY <1>3, <1>7, <1>9 DEF ClockIInv
<1>10. CASE ~torn /\ now = due
  <2>1. \A r \in Reg : Mixed'[r] = Mixed[r]
    BY <1>1, <1>2, <1>3, <1>8, <1>10 DEF Mixed, Reg
  <2>2. NotBefore(Mixed', began')
    BY <1>3, <1>10, <2>1 DEF ClockIInv, NotBefore, AheadAt, Reg
  <2>3. QED
    BY <1>7, <2>2 DEF ClockIInv
<1>11. QED
  BY <1>9, <1>10

\* An update that moves a register changes neither the date to come nor what is read.
LEMMA MoveStep == ASSUME ClockIInv, UpdateMoves PROVE ClockIInv'
<1>1. UNCHANGED <<due, began, rtc, next, torn>>
  BY DEF UpdateMoves
<1>2. now' \in Date
  <2>1. PICK r \in Reg : now' = [now EXCEPT ![r] = due[r]]
    BY DEF UpdateMoves
  <2>2. now \in Date /\ due \in Date
    BY DEF ClockIInv, ClockTypeOK
  <2>3. QED
    BY <2>1, <2>2, DateWith
<1>3. ClockTypeOK'
  BY <1>1, <1>2 DEF ClockIInv, ClockTypeOK, Date
<1>4. Mixed' = Mixed
  BY <1>1 DEF Mixed
<1>5. QED
  BY <1>1, <1>3, <1>4 DEF ClockIInv, NotBefore, AheadAt

\* An update raises the mixed date or leaves it: what it sets back is faster than
\* what it raises, and what is read already does not move.
LEMMA TickStep == ASSUME ClockIInv, UpdateBegins PROVE ClockIInv'
<1>1. N \in Nat /\ next \in 0..N
  BY ClockAssumption DEF ClockIInv, ClockTypeOK
<1>2. now' = now /\ began' = began /\ rtc' = rtc /\ next' = next /\ torn' = torn
  BY DEF UpdateBegins
<1>3. PICK k \in Reg :
        /\ due[k] < Last[k]
        /\ due' = [r \in Reg |-> IF r < k THEN First[r] ELSE IF r = k THEN due[r] + 1 ELSE due[r]]
  BY DEF UpdateBegins
<1>4. \A r \in Reg : First[r] \in Nat /\ Last[r] \in Nat /\ due[r] \in First[r]..Last[r]
  BY ClockAssumption DEF ClockIInv, ClockTypeOK, Date, Reg
<1>5. k \in Int /\ k > 0 /\ k <= N
  BY <1>1 DEF Reg
<1>6. due' \in Date
  <2>1. \A r \in Reg : due'[r] \in First[r]..Last[r]
    BY <1>3, <1>4, <1>5 DEF Reg
  <2>2. due' \in [Reg -> UNION {First[r]..Last[r] : r \in Reg}]
    BY <1>3, <2>1
  <2>3. QED
    BY <2>1, <2>2 DEF Date
<1>7. ClockTypeOK'
  BY <1>2, <1>6 DEF ClockIInv, ClockTypeOK, Date
<1>t. CASE torn
  BY <1>2, <1>7, <1>t DEF ClockIInv
<1>u. SUFFICES ASSUME ~torn PROVE ClockIInv'
  BY <1>t
<1>8. PICK j \in 0..N : AheadAt(Mixed, began, j)
  BY <1>u DEF ClockIInv, NotBefore
<1>9. \A r \in Reg : Mixed[r] = (IF r <= next THEN rtc[r] ELSE due[r])
                  /\ Mixed'[r] = (IF r <= next THEN rtc[r] ELSE due'[r])
  BY <1>2 DEF Mixed
<1>10. \A r \in Reg : r > k => Mixed'[r] = Mixed[r]
  BY <1>3, <1>5, <1>9 DEF Reg
<1>11. CASE k <= next
  <2>1. \A r \in Reg : Mixed'[r] = Mixed[r]
    BY <1>1, <1>3, <1>5, <1>9, <1>11 DEF Reg
  <2>2. AheadAt(Mixed', began', j)
    BY <1>2, <1>8, <2>1 DEF AheadAt, Reg
  <2>3. QED
    BY <1>7, <2>2 DEF ClockIInv, NotBefore
<1>12. CASE k > next /\ j > k
  <2>1. j \in Reg /\ j > 0 /\ Mixed'[j] = Mixed[j]
    BY <1>1, <1>5, <1>10, <1>12 DEF Reg
  <2>2. \A r \in Reg : r > j => Mixed'[r] = Mixed[r]
    BY <1>5, <1>10, <1>12 DEF Reg
  <2>3. AheadAt(Mixed', began', j)
    BY <1>2, <1>8, <2>1, <2>2 DEF AheadAt
  <2>4. QED
    BY <1>7, <2>3 DEF ClockIInv, NotBefore
<1>13. CASE k > next /\ j <= k
  <2>1. Mixed[k] = due[k] /\ Mixed'[k] = due[k] + 1
    BY <1>1, <1>3, <1>5, <1>9, <1>13
  <2>2. Mixed[k] = began[k] \/ began[k] < Mixed[k]
    BY <1>5, <1>8, <1>13 DEF AheadAt
  <2>3. began[k] \in Nat /\ due[k] \in Nat
    BY DateNumbers DEF ClockIInv, ClockTypeOK
  <2>4. \A r \in Reg : r > k => Mixed[r] = began[r]
    BY <1>5, <1>8, <1>13 DEF AheadAt, Reg
  <2>5. AheadAt(Mixed', began', k)
    BY <1>2, <1>10, <2>1, <2>2, <2>3, <2>4 DEF AheadAt
  <2>6. QED
    BY <1>5, <1>7, <2>5, <1>1 DEF ClockIInv, NotBefore
<1>14. QED
  BY <1>1, <1>5, <1>11, <1>12, <1>13

\* Every step keeps the inductive invariant.
LEMMA ClockNextStep == ASSUME ClockIInv, [ClockNext]_clockVars PROVE ClockIInv'
<1>1. CASE UNCHANGED clockVars
  BY <1>1 DEF clockVars, ClockIInv, ClockTypeOK, NotBefore, AheadAt, Mixed, Date
<1>2. QED
  BY <1>1, ReadStep, TickStep, MoveStep DEF ClockNext, Tick

\* The inductive invariant holds in every behaviour.
THEOREM ClockInvariance == ClockSpec => []ClockIInv
BY ClockInitIInv, ClockNextStep, PTL DEF ClockSpec

\* Every variable keeps its type.
THEOREM ClockTyping == ClockSpec => []ClockTypeOK
<1>1. ClockIInv => ClockTypeOK
  BY DEF ClockIInv
<1>2. QED
  BY ClockInvariance, <1>1, PTL

\* When all is read, the mixed date is the date reported.
LEMMA IInvNeverEarly == ClockIInv => NeverEarly
<1> SUFFICES ASSUME ClockIInv, next = N, ~torn PROVE ~Earlier(rtc, began)
  BY DEF NeverEarly
<1>1. rtc \in [Reg -> Int] /\ began \in [Reg -> Int]
  BY DateNumbers DEF ClockIInv, ClockTypeOK
<1>2. \A r \in Reg : Mixed[r] = rtc[r]
  BY ClockAssumption DEF Mixed, Reg
<1>3. NotBefore(rtc, began)
  BY <1>2 DEF ClockIInv, NotBefore, AheadAt, Reg
<1>4. QED
  BY <1>1, <1>3, NotBeforeNotEarlier

\* The date of cmos_read_rtc is not before the call if no read fell into an update,
\* for any registers.
THEOREM DateNeverEarly == ClockSpec => []NeverEarly
BY ClockInvariance, IInvNeverEarly, PTL

-----------------------------------------------------------------------------
(* The optical drive.                                                      *)

\* Nothing is read before the detection is over.  While a call is under way the
\* buffer holds its fill, and once the CDB is out
\* the drive's sector is the one called for and no burst exceeds what it owes.
Underway ==
  /\ apc \in {"detect", "identify"} => ret = 1
  /\ apc \in {"clear", "cdb", "data"} => buf = Filled
  /\ apc = "data" => sector = lba /\ phase = "data"
  /\ st = "drq" /\ phase = "data" => count <= owed

\* The inductive invariant: what a call will return is prepared from its start.
AtapiIInv == AtapiTypeOK /\ Underway /\ SectorOrFill

LEMMA AtapiInitIInv == AtapiInit => AtapiIInv
<1> SUFFICES ASSUME AtapiInit PROVE AtapiIInv
  OBVIOUS
<1>1. lba \in Lbas /\ PARTS \in Nat \ {0} /\ POLLS \in Nat
  BY AtapiAssumption DEF AtapiInit
<1>2. Filled \in [Part -> {AA} \cup (Lbas \X Part)]
  BY DEF Filled
<1>3. kind \in {"none", "packet", "reject", "ones"} /\ st \in {"none", "ones", "idle"}
  BY DEF AtapiInit
<1>4. /\ phase = "identify" /\ owed = 0 /\ count = PARTS /\ sector = lba /\ buf = Filled
      /\ apc = "detect" /\ present = FALSE /\ model = FALSE /\ polls = 0 /\ ret = 1
  BY DEF AtapiInit
<1>5. 0 \in 0..PARTS /\ PARTS \in Part /\ 0 \in 0..POLLS
  BY <1>1 DEF Part
<1>6. AtapiTypeOK
  BY <1>1, <1>2, <1>3, <1>4, <1>5 DEF AtapiTypeOK
<1>7. QED
  BY <1>3, <1>4, <1>6 DEF AtapiIInv, Underway, SectorOrFill

\* The drive touches neither the buffer nor what the call asked for; a burst it
\* announces is part of what it owes.
LEMMA DriveStep == ASSUME AtapiIInv, Drive PROVE AtapiIInv'
<1>1. UNCHANGED <<kind, phase, sector, driver>>
  BY DEF Drive, DriveReady, DriveFails
<1>2. PARTS \in Nat \ {0} /\ owed \in 0..PARTS /\ owed' \in 0..PARTS
  BY AtapiAssumption DEF Drive, DriveReady, DriveFails, AtapiIInv, AtapiTypeOK
<1>3. count' \in Part /\ (st' = "drq" /\ phase' = "data" => count' <= owed')
  BY <1>2 DEF Drive, DriveReady, DriveFails, AtapiIInv, AtapiTypeOK, Part
<1>4. st' \in {"drq", "err"}
  BY DEF Drive, DriveReady, DriveFails
<1>5. QED
  BY <1>1, <1>2, <1>3, <1>4 DEF AtapiIInv, AtapiTypeOK, Underway, SectorOrFill, driver

\* atapi_detect comes before any read.
LEMMA DetectStep ==
  ASSUME AtapiIInv, DetectNothing \/ Identify \/ IdentifyRead
  PROVE  AtapiIInv'
<1>1. UNCHANGED <<kind, phase, sector, owed, count, lba, buf, polls, ret>>
  BY DEF DetectNothing, Identify, IdentifyRead, drive
<1>2. /\ apc' \in {"idle", "identify"} /\ present' \in BOOLEAN /\ model' \in BOOLEAN
      /\ st' \in {"none", "idle", "busy", "drq", "err", "ones"}
      /\ st' = "drq" => st = "drq"
  BY DEF DetectNothing, Identify, IdentifyRead, drive, AtapiIInv, AtapiTypeOK
<1>3. AtapiTypeOK'
  BY <1>1, <1>2 DEF AtapiIInv, AtapiTypeOK
<1>4. apc \in {"detect", "identify"}
  BY DEF DetectNothing, Identify, IdentifyRead
<1>5. QED
  BY <1>1, <1>2, <1>3, <1>4 DEF AtapiIInv, Underway, SectorOrFill, AtapiTypeOK

\* A call fills the buffer.
LEMMA CallStep == ASSUME AtapiIInv, NEW l \in Lbas, Call(l) PROVE AtapiIInv'
<1>1. Filled \in [Part -> {AA} \cup (Lbas \X Part)]
  BY DEF Filled
<1>2. UNCHANGED <<drive, present, model, polls, ret>> /\ apc' = "clear" /\ lba' = l /\ buf' = Filled
  BY DEF Call
<1>3. QED
  BY <1>1, <1>2 DEF AtapiIInv, AtapiTypeOK, Underway, SectorOrFill, drive

\* PACKET, the polls, and their failure leave the buffer alone.
LEMMA WaitStep ==
  ASSUME AtapiIInv, Packet \/ PollFails \/ PollAgain
  PROVE  AtapiIInv'
<1>1. UNCHANGED <<kind, sector, count, present, model, lba, buf>>
  BY DEF Packet, PollFails, PollAgain, drive
<1>2. PARTS \in Nat \ {0} /\ POLLS \in Nat /\ polls \in 0..POLLS
  BY AtapiAssumption DEF AtapiIInv, AtapiTypeOK
<1>3. /\ polls' \in 0..POLLS /\ owed' \in 0..PARTS
      /\ st' \in {"none", "idle", "busy", "drq", "err", "ones"}
      /\ phase' \in {"identify", "cdb", "data"}
      /\ apc' \in {"idle", "cdb", "data"} /\ ret' \in {1, 0, -1}
  BY <1>2 DEF Packet, PollFails, PollAgain, PollsLeft, Return, drive, AtapiIInv, AtapiTypeOK
<1>4. AtapiTypeOK'
  BY <1>1, <1>3 DEF AtapiIInv, AtapiTypeOK
<1>5. /\ apc \in {"clear", "cdb", "data"}
      /\ apc' = "data" => apc = "data" /\ phase' = phase
      /\ apc' = "idle" => ret' = -1
      /\ st' = "drq" => st = "drq" /\ phase' = phase /\ owed' = owed
  BY DEF Packet, PollFails, PollAgain, Clear, Return, drive
<1>6. Underway'
  BY <1>1, <1>3, <1>5 DEF AtapiIInv, Underway
<1>7. SectorOrFill'
  BY <1>5 DEF SectorOrFill
<1>8. QED
  BY <1>4, <1>6, <1>7 DEF AtapiIInv

\* The CDB names the sector of this call.
LEMMA CdbStep == ASSUME AtapiIInv, SendCdb PROVE AtapiIInv'
<1>1. PARTS \in Nat \ {0} /\ POLLS \in Nat
  BY AtapiAssumption
<1>2. /\ st' = "busy" /\ phase' = "data" /\ sector' = lba /\ owed' = PARTS /\ polls' = 0
      /\ apc = "cdb" /\ apc' = "data"
      /\ UNCHANGED <<kind, count, present, model, lba, buf, ret>>
  BY DEF SendCdb, Ready
<1>3. AtapiTypeOK'
  BY <1>1, <1>2 DEF AtapiIInv, AtapiTypeOK
<1>4. QED
  BY <1>2, <1>3 DEF AtapiIInv, Underway, SectorOrFill

\* A burst puts the first count pieces of the sector in front of the fill.
LEMMA BurstStep == ASSUME AtapiIInv, ReadBurst PROVE AtapiIInv'
<1>1. PARTS \in Nat \ {0} /\ owed \in 0..PARTS /\ count \in 1..PARTS /\ count <= owed
  BY AtapiAssumption DEF ReadBurst, Ready, AtapiIInv, AtapiTypeOK, Underway, Part
<1>2. /\ st = "drq" /\ apc = "data" /\ apc' = "idle" /\ ret' = 0
      /\ buf = Filled /\ sector = lba
      /\ owed' = owed - count /\ st' \in {"busy", "idle"}
      /\ UNCHANGED <<kind, phase, sector, count, present, model, lba, polls>>
  BY DEF ReadBurst, Ready, Return, AtapiIInv, Underway
<1>3. buf' = [i \in Part |-> IF i <= count THEN <<lba, i>> ELSE AA]
  BY <1>1, <1>2 DEF ReadBurst, Filled, Part
<1>4. lba \in Lbas
  BY DEF AtapiIInv, AtapiTypeOK
<1>5. buf' \in [Part -> {AA} \cup (Lbas \X Part)]
  BY <1>3, <1>4
<1>6. AtapiTypeOK'
  BY <1>1, <1>2, <1>5 DEF AtapiIInv, AtapiTypeOK
<1>7. SectorOrFill'
  BY <1>1, <1>2, <1>3 DEF SectorOrFill, Part
<1>8. QED
  BY <1>2, <1>6, <1>7 DEF AtapiIInv, Underway

\* Every step keeps the inductive invariant.
LEMMA AtapiNextStep == ASSUME AtapiIInv, [AtapiNext]_atapiVars PROVE AtapiIInv'
<1>1. CASE UNCHANGED atapiVars
  BY <1>1 DEF atapiVars, drive, driver, AtapiIInv, AtapiTypeOK, Underway, SectorOrFill
<1>2. QED
  BY <1>1, DriveStep, DetectStep, CallStep, WaitStep, CdbStep, BurstStep DEF AtapiNext, Driver

\* The inductive invariant holds in every behaviour.
THEOREM AtapiInvariance == AtapiSpec => []AtapiIInv
BY AtapiInitIInv, AtapiNextStep, PTL DEF AtapiSpec

\* Every variable keeps its type.
THEOREM AtapiTyping == AtapiSpec => []AtapiTypeOK
<1>1. AtapiIInv => AtapiTypeOK
  BY DEF AtapiIInv
<1>2. QED
  BY AtapiInvariance, <1>1, PTL

\* A read that reports success holds the beginning of the sector asked for and
\* fill, however large a sector, its bursts and the number of polls are.
THEOREM ReadsSectorOrFill == AtapiSpec => []SectorOrFill
<1>1. AtapiIInv => SectorOrFill
  BY DEF AtapiIInv
<1>2. QED
  BY AtapiInvariance, <1>1, PTL

-----------------------------------------------------------------------------
(* The whole.                                                              *)

\* All that is known of the boot.
BootKnown == BootIInv /\ BootTyped /\ Quiet

\* Where kernel_main is, and what it has found out.
Staged ==
  /\ stage \in {"bios", "clock", "mount", "up"} /\ rootdev \in {"H", "C"} /\ mounted \in BOOLEAN
  /\ stage # "bios" => pc = "kernel_main"

\* The inductive invariant.  The clock has not been read when kernel_main is
\* entered: its call of format_date_time starts as ClockInit does.
IInv ==
  /\ BootKnown /\ ClockIInv /\ AtapiIInv /\ Staged
  /\ stage = "bios" => next = 0 /\ rtc = First /\ torn = FALSE

\* The invariants of the parts speak of the parts' variables only.
LEMMA BootStep == ASSUME BootKnown, [BootNext]_bootVars PROVE BootKnown'
BY BootNextStep, BootTypedStep, QuietStep DEF BootKnown

LEMMA BootKept == ASSUME BootKnown, UNCHANGED bootVars PROVE BootKnown'
BY BootStep

LEMMA ClockKept == ASSUME ClockIInv, UNCHANGED clockVars PROVE ClockIInv'
BY ClockNextStep

LEMMA AtapiKept == ASSUME AtapiIInv, UNCHANGED atapiVars PROVE AtapiIInv'
BY AtapiNextStep

\* Wherever it is called, cmos_read_rtc starts with its invariant.
LEMMA ClockStarts == ClockInit' => ClockIInv'
BY ClockInitIInv, PTL

LEMMA InitIInv == Init => IInv
<1> SUFFICES ASSUME Init PROVE IInv
  OBVIOUS
<1>1. ClockInit /\ next = 0 /\ rtc = First /\ torn = FALSE
  BY FirstDate DEF Init, ClockInit
<1>2. BootKnown /\ ClockIInv /\ AtapiIInv
  BY <1>1, BootInitIInv, BootTypedInit, QuietInit, ClockInitIInv, AtapiInitIInv DEF Init, BootKnown
<1>3. Staged
  BY DEF Init, Staged
<1>4. QED
  BY <1>1, <1>2, <1>3 DEF IInv

\* While the BIOS, the boot sector or switch32 runs.
LEMMA BiosStage ==
  ASSUME IInv, BootCpu \/ BootController \/ BootDisk \/ BootKey PROVE IInv'
<1>1. [BootNext]_bootVars /\ UNCHANGED <<clockVars, atapiVars, mount, stage>> /\ stage = "bios"
  BY DEF BootCpu, BootController, BootDisk, BootKey, BootNext, notBoot
<1>2. BootKnown' /\ ClockIInv' /\ AtapiIInv'
  BY <1>1, BootStep, ClockKept, AtapiKept DEF IInv
<1>3. QED
  BY <1>1, <1>2 DEF IInv, Staged, clockVars, mount

\* While the clock is read.
LEMMA ClockStage == ASSUME IInv, ClockRead \/ ClockTick PROVE IInv'
<1>1. [ClockNext]_clockVars /\ UNCHANGED <<bootVars, atapiVars, mount, stage>> /\ stage = "clock"
  BY DEF ClockRead, ClockTick, ClockNext, notClock
<1>2. BootKnown' /\ ClockIInv' /\ AtapiIInv'
  BY <1>1, BootKept, ClockNextStep, AtapiKept DEF IInv
<1>3. QED
  BY <1>1, <1>2 DEF IInv, Staged, bootVars, mount

\* With an optical drive.
LEMMA OpticalStage ==
  ASSUME IInv, OpticalDriver \/ OpticalDrive \/ OpticalCall PROVE IInv'
<1>1. [AtapiNext]_atapiVars /\ UNCHANGED <<bootVars, clockVars, mount, stage>> /\ stage = "up"
  BY DEF OpticalDriver, OpticalDrive, OpticalCall, AtapiNext, notAtapi
<1>2. BootKnown' /\ ClockIInv' /\ AtapiIInv'
  BY <1>1, BootKept, ClockKept, AtapiNextStep DEF IInv
<1>3. QED
  BY <1>1, <1>2 DEF IInv, Staged, bootVars, mount

\* kernel_main between the parts: a call of the clock begins, or its date is put
\* away, and a file system is mounted.
LEMMA MainStage == ASSUME IInv, Main PROVE IInv'
<1>1. UNCHANGED <<bootVars, atapiVars>> /\ stage' # "bios"
  BY DEF Main, KernelMain, DateRead, Mount
<1>2. BootKnown' /\ AtapiIInv'
  BY <1>1, BootKept, AtapiKept DEF IInv
<1>3. Staged'
  BY <1>1 DEF IInv, Staged, Main, KernelMain, DateRead, Mount, bootVars, mount
<1>4. CASE KernelMain \/ DateRead
  <2>1. ClockInit'
    BY <1>4, FirstDate DEF KernelMain, DateRead, ClockInit, Date, IInv
  <2>2. QED
    BY <1>1, <1>2, <1>3, <2>1, ClockStarts DEF IInv
<1>5. CASE Mount
  BY <1>1, <1>2, <1>3, <1>5, ClockKept DEF IInv, Mount
<1>6. QED
  BY <1>4, <1>5 DEF Main

\* Every step keeps the inductive invariant.
LEMMA NextStep == ASSUME IInv, [Next]_vars PROVE IInv'
<1>1. CASE UNCHANGED vars
  BY <1>1, BootKept, ClockKept, AtapiKept DEF vars, IInv, Staged, bootVars, clockVars, mount
<1>2. CASE Next
  BY <1>2, BiosStage, ClockStage, OpticalStage, MainStage DEF Next
<1>3. QED
  BY <1>1, <1>2

\* The inductive invariant holds from reset on.
THEOREM Invariance == Spec => []IInv
BY InitIInv, NextStep, PTL DEF Spec

\* Every variable keeps its type, and kernel_main runs on from where the boot
\* entered it.
THEOREM StartTyping == Spec => []TypeOK
<1>1. IInv => TypeOK
  BY DEF IInv, BootKnown, BootTyped, ClockIInv, AtapiIInv, Staged, TypeOK
<1>2. QED
  BY Invariance, <1>1, PTL

\* No key used, the controller's bytes are rewritten from themselves only and
\* the keyboard is in set 1 when kernel_main is entered, and from then on.
THEOREM StartKeyboard == Spec => []QuietKeyboardReady
<1>1. IInv => QuietKeyboardReady
  BY QuietReady DEF IInv, BootKnown
<1>2. QED
  BY Invariance, <1>1, PTL

\* However the machine is started, no interrupt reaches a vector the BIOS has
\* not set.
THEOREM StartMasked == Spec => []NoInterruptInBios
<1>1. IInv => NoInterruptInBios
  BY DEF IInv, BootKnown, BootIInv, Masked, NoInterruptInBios
<1>2. QED
  BY Invariance, <1>1, PTL

\* kernel_main runs from a complete image, whatever its length, on a processor
\* that passed the checks.
THEOREM StartLoaded == Spec => []KernelLoaded
<1>1. IInv => KernelLoaded
  BY IInvKernelLoaded DEF IInv, BootKnown
<1>2. QED
  BY Invariance, <1>1, PTL

\* The date of the start is not before the start if no read fell into an update of
\* the clock, whenever it carries between the reads.
THEOREM StartDated == Spec => []NeverEarly
<1>1. IInv => NeverEarly
  BY IInvNeverEarly DEF IInv
<1>2. QED
  BY Invariance, <1>1, PTL

\* A successful read of an optical disc gives the sector asked for, or fill.
THEOREM StartReads == Spec => []SectorOrFill
<1>1. IInv => SectorOrFill
  BY DEF IInv, AtapiIInv
<1>2. QED
  BY Invariance, <1>1, PTL
=============================================================================
