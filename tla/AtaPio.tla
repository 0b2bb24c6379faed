------------------------------- MODULE AtaPio -------------------------------
(***************************************************************************)
(* The ATA driver of drivers/ata.c and the drive it polls.  The drive is   *)
(* not in the repository: it is modelled from the status bits and the data *)
(* port the driver uses.  It works beside the CPU, raises BSY when it gets *)
(* a command or a sector, and then asks for the next sector with DRQ, ends *)
(* the command, or gives it up with ERR.                                   *)
(*                                                                         *)
(* A sector's 256 words are moved in one step: once DRQ is up the drive    *)
(* waits for all of them.  The wait loops have no timeout in the code.     *)
(***************************************************************************)
EXTENDS Integers, Sequences

CONSTANTS
  Lbas,     \* sectors of the drive
  Data,     \* contents of a sector
  CountMax  \* sectors of one command (255 in the code)

ASSUME AtaAssumption ==
  /\ Lbas \in Nat \ {0} /\ CountMax \in 1..Lbas
  /\ Data # {}

Lba == 0..(Lbas - 1)

VARIABLES
  \* the drive
  media,  \* contents of every sector
  bsy, drq, err,
  cmd,    \* the command it works on, or "none"
  at,     \* next sector of the command
  left,   \* sectors of the command still to transfer
  cache,  \* a sector received and not yet on the media
  \* the driver
  pc,
  op,     \* "read" (ata_read_lba28) or "write" (ata_write_lba28)
  lba, count, buffer,
  s,      \* sectors moved so far
  ret,    \* what the last call returned; 1 before any call returned
  before  \* the media at the last call (a history variable: no step reads it)

drive  == <<media, bsy, drq, err, cmd, at, left, cache>>
driver == <<pc, op, lba, count, buffer, s, ret, before>>
vars   == <<drive, driver>>

Buffers == UNION {[1..n -> Data] : n \in 1..CountMax}

\* The firmware may have left the drive busy, with no command of the kernel.
Init ==
  /\ media \in [Lba -> Data]
  /\ bsy \in BOOLEAN /\ drq = FALSE /\ err = FALSE
  /\ cmd = "none" /\ at = 0 /\ left = 0 /\ cache \in Data
  /\ pc = "idle" /\ op = "read" /\ lba = 0 /\ count = 1 /\ s = 0 /\ ret = 1
  /\ buffer = [i \in 1..1 |-> cache] /\ before = media

-----------------------------------------------------------------------------
(* The drive.                                                              *)

\* Busy without a command of the kernel, or done with one.
DriveSettles ==
  /\ bsy /\ cmd = "none"
  /\ bsy' = FALSE
  /\ UNCHANGED <<media, drq, err, cmd, at, left, cache, driver>>

\* A sector was read and can be fetched, or the first one to write is wanted.
DriveAsks ==
  /\ bsy /\ cmd \in {"read", "write"}
  /\ bsy' = FALSE /\ drq' = TRUE
  /\ UNCHANGED <<media, err, cmd, at, left, cache, driver>>

\* The sector received is put on the media; the next one is wanted, or none.
DriveCommits ==
  /\ bsy /\ cmd = "commit"
  /\ media' = [media EXCEPT ![at] = cache]
  /\ bsy' = FALSE /\ drq' = (left > 1)
  /\ cmd' = IF left > 1 THEN "write" ELSE "none"
  /\ at' = at + 1 /\ left' = left - 1
  /\ UNCHANGED <<err, cache, driver>>

\* The sector cannot be read or written; the command is over.
DriveFails ==
  /\ bsy /\ cmd # "none"
  /\ bsy' = FALSE /\ err' = TRUE /\ cmd' = "none" /\ left' = 0
  /\ UNCHANGED <<media, drq, at, cache, driver>>

-----------------------------------------------------------------------------
(* The driver.                                                             *)

\* Mutated form: the sector counter is not reset.
CallKeepsCounter(o, l, b) ==
  /\ pc = "idle" /\ pc' = "wait_busy"
  /\ l + Len(b) <= Lbas
  /\ op' = o /\ lba' = l /\ count' = Len(b) /\ buffer' = b /\ before' = media
  /\ UNCHANGED <<drive, s, ret>>

\* A call of ata_read_lba28 or ata_write_lba28.
Call(o, l, b) ==
  /\ pc = "idle" /\ pc' = "wait_busy"
  /\ l + Len(b) <= Lbas
  /\ op' = o /\ lba' = l /\ count' = Len(b) /\ buffer' = b /\ s' = 0 /\ before' = media
  /\ UNCHANGED <<drive, ret>>

\* ata_wait_busy ends; the registers and the command are written.
Command ==
  /\ pc = "wait_busy" /\ ~bsy
  /\ pc' = "wait_drq"
  /\ bsy' = TRUE /\ drq' = FALSE /\ err' = FALSE
  /\ cmd' = op /\ at' = lba /\ left' = count
  /\ UNCHANGED <<media, cache, op, lba, count, buffer, s, ret, before>>

\* Mutated form: ata_wait_drq looks at DRQ only.
PollErrorNever == FALSE

\* ata_wait_drq sees ERR.
PollError == err

WaitDrqFails ==
  /\ pc = "wait_drq" /\ PollError
  /\ pc' = "idle" /\ ret' = -1
  /\ UNCHANGED <<drive, op, lba, count, buffer, s, before>>

\* Mutated form: the transfer does not wait for DRQ.
PollReadyAlways == ~PollError

\* ata_wait_drq sees DRQ and no ERR.
PollReady == drq /\ ~PollError

\* Mutated form: the loop stops one sector early.
LastSectorEarly == s + 1 >= count - 1

LastSector == s + 1 = count

\* 256 inw.  Without DRQ the port would hold the content of no sector asked for.
FetchSector ==
  /\ pc = "wait_drq" /\ op = "read" /\ PollReady
  /\ \E d \in (IF drq THEN {media[at]} ELSE Data) : buffer' = [buffer EXCEPT ![s + 1] = d]
  /\ drq' = FALSE
  /\ IF drq
       THEN /\ bsy' = (left > 1) /\ cmd' = IF left > 1 THEN "read" ELSE "none"
            /\ at' = at + 1 /\ left' = left - 1
       ELSE UNCHANGED <<bsy, cmd, at, left>>
  /\ s' = s + 1
  /\ pc' = IF LastSector THEN "idle" ELSE "wait_drq"
  /\ ret' = IF LastSector THEN 0 ELSE ret
  /\ UNCHANGED <<media, err, cache, op, lba, count, before>>

\* Mutated form: buf is not advanced after a sector.
SectorToWriteFirst == buffer[1]

SectorToWrite == buffer[s + 1]

\* 256 outw; after the last sector the driver waits for BSY to fall.
StoreSector ==
  /\ pc = "wait_drq" /\ op = "write" /\ PollReady /\ drq
  /\ cache' = SectorToWrite /\ drq' = FALSE /\ bsy' = TRUE /\ cmd' = "commit"
  /\ s' = s + 1
  /\ pc' = IF LastSector THEN "wait_end" ELSE "wait_drq"
  /\ UNCHANGED <<media, err, at, left, op, lba, count, buffer, ret, before>>

\* ata_wait_busy after the last sector
WriteEnds == ~bsy

WriteReturns ==
  /\ pc = "wait_end" /\ WriteEnds
  /\ pc' = "idle" /\ ret' = 0
  /\ UNCHANGED <<drive, op, lba, count, buffer, s, before>>

-----------------------------------------------------------------------------
Drive == DriveSettles \/ DriveAsks \/ DriveCommits \/ DriveFails

Driver == Command \/ WaitDrqFails \/ FetchSector \/ StoreSector \/ WriteReturns

CallSome ==
  \E o \in {"read", "write"}, l \in Lba, b \in Buffers : Call(o, l, b)

Next == Drive \/ Driver \/ CallSome

\* The CPU polls for as long as it takes; the drive ends whatever it started.
Spec == Init /\ [][Next]_vars /\ WF_vars(Driver) /\ WF_vars(Drive)

-----------------------------------------------------------------------------
(* Properties.                                                             *)

\* Every variable has its type.
TypeOK ==
  /\ media \in [Lba -> Data] /\ before \in [Lba -> Data] /\ cache \in Data
  /\ bsy \in BOOLEAN /\ drq \in BOOLEAN /\ err \in BOOLEAN
  /\ cmd \in {"none", "read", "write", "commit"}
  /\ at \in 0..Lbas /\ left \in 0..CountMax
  /\ pc \in {"idle", "wait_busy", "wait_drq", "wait_end"} /\ op \in {"read", "write"}
  /\ lba \in Lba /\ count \in 1..CountMax /\ s \in 0..count
  /\ buffer \in [1..count -> Data] /\ ret \in {1, 0, -1}

OnMedia == [i \in 1..count |-> media[lba + i - 1]]

\* A read that reports success has filled the buffer with the sectors asked
\* for, each from its own place, whenever the drive was slow or failed between.
ReadGetsSectors == pc = "idle" /\ op = "read" /\ ret = 0 => buffer = OnMedia

\* A call that returns leaves the drive with no sector to transfer, so the next
\* call's data cannot come from this command.  After an error too: the drive
\* gives its command up when it raises ERR, and the driver returns at once.
QuietAfterReturn == pc = "idle" => ~drq /\ left = 0 /\ cmd = "none"

\* A write has stored the sector x of the call, and the media hold it.
Stored(x) ==
  op = "write" /\ x - lba + 1 \in 1..s /\ media[x] = buffer[x - lba + 1]

\* At any time each sector of the media is as it was before the call, or it is
\* one the write has stored by then and holds its own part of the buffer, so that
\* a call changes nothing outside its range, and nothing at all when it reads or
\* fails before its first sector.  A write that the drive did not fail has put
\* every sector in its place before it returns.
WritePutsSectors ==
  /\ \A x \in Lba : media[x] = before[x] \/ Stored(x)
  /\ pc = "idle" /\ op = "write" /\ ret = 0 /\ ~err => buffer = OnMedia

\* Every call returns, with an error if the drive gave up: no wait loop is
\* entered that the drive will not end.
EveryCallReturns == pc # "idle" ~> pc = "idle"
=============================================================================
