------------------------------ MODULE Startup ------------------------------
(***************************************************************************)
(* A start of the machine as a whole: Boot up to kernel_main, then what    *)
(* kernel_main does before the keyboard's part of it (module Keyboard):    *)
(* the date from the clock (Clock), the boot device and its file system,   *)
(* and the optical drive (Atapi), whose read may be called from then on.   *)
(* The parts run one after another on the one CPU; each has its own        *)
(* devices beside it.                                                      *)
(***************************************************************************)
EXTENDS Boot, Clock, Atapi

VARIABLES
  stage,    \* "bios", "clock", "mount" or "up"
  rootdev,  \* the byte before the boot sector's 0xAA55: "H", or "C" on a CD
  mounted   \* g_fs_ops and g_fs_blk are set

mount == <<rootdev, mounted>>
vars  == <<bootVars, clockVars, atapiVars, mount, stage>>

Init ==
  /\ BootInit /\ AtapiInit
  /\ now = First /\ due = First /\ began = First /\ rtc = First /\ next = 0 /\ torn = FALSE
  /\ rootdev \in (IF machine = "qemu" THEN {"H"} ELSE {"H", "C"}) /\ mounted = FALSE /\ stage = "bios"

-----------------------------------------------------------------------------
notBoot  == <<clockVars, atapiVars, mount, stage>>
notClock == <<bootVars, atapiVars, mount, stage>>
notAtapi == <<bootVars, clockVars, mount, stage>>

BootCpu        == stage = "bios" /\ Cpu /\ UNCHANGED notBoot
BootController == stage = "bios" /\ Controller /\ UNCHANGED notBoot
BootDisk       == stage = "bios" /\ Disk /\ UNCHANGED notBoot
BootKey        == stage = "bios" /\ KeyUsed /\ UNCHANGED notBoot

ClockRead == stage = "clock" /\ ReadRegister /\ UNCHANGED notClock
ClockTick == stage = "clock" /\ Tick /\ UNCHANGED notClock

OpticalDriver == stage = "up" /\ Driver /\ UNCHANGED notAtapi
OpticalDrive  == stage = "up" /\ Drive /\ UNCHANGED notAtapi
OpticalCall   == stage = "up" /\ (\E l \in Lbas : Call(l)) /\ UNCHANGED notAtapi

\* gdt_init, tss_init; format_date_time is called at whatever time it is.
KernelMain ==
  /\ stage = "bios" /\ pc = "kernel_main" /\ stage' = "clock"
  /\ now' \in Date /\ due' = now' /\ began' = now'
  /\ UNCHANGED <<bootVars, rtc, next, torn, atapiVars, mount>>

\* The date is put into boot_time, struct RTC ends, and nothing reads the clock
\* again; the console comes up.
DateRead ==
  /\ stage = "clock" /\ next = N /\ stage' = "mount"
  /\ now' = First /\ due' = First /\ began' = First /\ rtc' = First /\ next' = 0 /\ torn' = FALSE
  /\ UNCHANGED <<bootVars, atapiVars, mount>>

\* bootdev_type: the boot sector's byte; anything but 'C' is a hard disk.
BootDevice == IF rootdev = "C" THEN "CD" ELSE "HDD"

\* fs_mount_root: there is no driver to mount a CD with.
Mount ==
  /\ stage = "mount" /\ stage' = "up"
  /\ mounted' = (BootDevice = "HDD")
  /\ UNCHANGED <<bootVars, clockVars, atapiVars, rootdev>>

Main == KernelMain \/ DateRead \/ Mount

Next ==
  \/ BootCpu \/ BootController \/ BootDisk \/ BootKey
  \/ Main \/ ClockRead \/ ClockTick
  \/ OpticalDriver \/ OpticalDrive \/ OpticalCall

\* The fairness of the parts, each while it runs.
Fairness ==
  /\ WF_vars(BootCpu) /\ WF_vars(BootController) /\ WF_vars(BootDisk)
  /\ WF_vars(Main) /\ WF_vars(ClockRead)
  /\ WF_vars(OpticalDriver) /\ WF_vars(OpticalDrive)

Spec == Init /\ [][Next]_vars /\ Fairness

-----------------------------------------------------------------------------
(* Properties of the whole; the safety of each part is stated in its module. *)

\* Every variable has its type; kernel_main runs on from where it was entered.
TypeOK ==
  /\ BootTypeOK /\ ClockTypeOK /\ AtapiTypeOK
  /\ stage \in {"bios", "clock", "mount", "up"} /\ rootdev \in {"H", "C"} /\ mounted \in BOOLEAN
  /\ stage # "bios" => pc = "kernel_main"

\* A start comes to rest.  Besides the kernel with the search for an optical drive
\* done, these count as rest: a halt behind a message ("halted"), a reset that the
\* output port written back gives ("reset"), a key that meets an empty vector
\* ("no_handler"), code run in the wrong place ("lost"), the wait for a sector of a
\* disk that has failed, and the wait for a drive that rejects IDENTIFY PACKET
\* DEVICE or is none.
StartEnds ==
  <>(\/ pc \in End \ {"kernel_main"}
     \/ drv = "failed"
     \/ stage = "up" /\ (apc \notin {"detect", "identify"} \/ kind \notin {"none", "packet"}))

\* From then on every call on a packet drive or without one returns, unless it
\* waits for a transfer that an earlier call left behind to end.
AtapiReturns ==
  kind \in {"none", "packet"} =>
    [](stage = "up" /\ apc # "idle" => <>(apc = "idle" \/ WaitsForLeftover))
=============================================================================
