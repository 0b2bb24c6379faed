------------------------------- MODULE Atapi -------------------------------
(***************************************************************************)
(* drivers/atapi.c and whatever is the secondary master: nothing, a packet *)
(* drive, a drive that rejects IDENTIFY PACKET DEVICE, or a bus that reads *)
(* as ones.  atapi_detect waits for DRQ with no end and without a look at  *)
(* ERR; atapi_read_sector polls a bounded number of times for the two      *)
(* transfers, but without bound for the drive to be idle before.           *)
(*                                                                         *)
(* Like AtaPio's, the drive works beside the CPU, keeps BSY or DRQ until   *)
(* it is done, and may give up with ERR.  It hands a sector over in one    *)
(* burst or in several, each announced by its own DRQ and byte count.      *)
(***************************************************************************)
EXTENDS Integers

CONSTANTS
  Lbas,   \* sectors asked for
  PARTS,  \* pieces of a sector that a drive may hand over one by one
  POLLS   \* times a status is polled (1000000 in the code)

ASSUME AtapiAssumption ==
  /\ Lbas \subseteq Nat /\ Lbas # {} /\ PARTS \in Nat \ {0} /\ POLLS \in Nat

VARIABLES
  \* the drive
  kind,    \* "none", "packet", "reject" or "ones"
  st,      \* its status: "none", "idle", "busy", "drq", "err" or "ones"
  phase,   \* what DRQ asks for: "identify", "cdb" or "data"
  sector,  \* the sector of its command
  owed,    \* pieces of it still to come
  count,   \* the byte count: pieces of this burst
  \* the driver
  apc, present, model,
  lba, buf,
  polls,   \* polls of this loop done
  ret      \* 0 or -1; 1 before any call of atapi_read_sector returned

drive  == <<kind, st, phase, sector, owed, count>>
driver == <<apc, present, model, lba, buf, polls, ret>>
atapiVars   == <<drive, driver>>

Part == 1..PARTS

\* The byte that fills the buffer before a read.
AA == <<"AA">>

Filled == [i \in Part |-> AA]

AtapiInit ==
  /\ kind \in {"none", "packet", "reject", "ones"}
  /\ st = CASE kind = "none" -> "none" [] kind = "ones" -> "ones" [] OTHER -> "idle"
  /\ phase = "identify" /\ owed = 0 /\ count = PARTS
  /\ apc = "detect" /\ present = FALSE /\ model = FALSE
  /\ lba = (CHOOSE l \in Lbas : TRUE) /\ sector = lba /\ buf = Filled /\ polls = 0 /\ ret = 1

-----------------------------------------------------------------------------
(* The drive.                                                              *)

DriveReady ==
  /\ st = "busy" /\ st' = "drq"
  /\ count' \in IF phase = "data" THEN 1..owed ELSE {PARTS}
  /\ UNCHANGED <<kind, phase, sector, owed, driver>>

DriveFails ==
  /\ st = "busy" /\ phase # "identify"
  /\ st' = "err" /\ owed' = 0
  /\ UNCHANGED <<kind, phase, sector, count, driver>>

-----------------------------------------------------------------------------
(* atapi_detect.                                                           *)

\* Status 0 right after the command: there is no drive.
DetectNothing ==
  /\ apc = "detect" /\ st = "none" /\ apc' = "idle"
  /\ UNCHANGED <<drive, present, model, lba, buf, polls, ret>>

Identify ==
  /\ apc = "detect" /\ st # "none" /\ apc' = "identify"
  /\ present' = TRUE
  /\ st' = CASE kind = "packet" -> "busy" [] kind = "reject" -> "err" [] OTHER -> st
  /\ UNCHANGED <<kind, phase, sector, owed, count, model, lba, buf, polls, ret>>

\* 256 words; a bus of ones has BSY set for ever.
IdentifyRead ==
  /\ apc = "identify" /\ st = "drq" /\ apc' = "idle"
  /\ model' = TRUE /\ st' = "idle"
  /\ UNCHANGED <<kind, phase, sector, owed, count, present, lba, buf, polls, ret>>

-----------------------------------------------------------------------------
(* atapi_read_sector.                                                      *)

Call(l) ==
  /\ apc = "idle" /\ apc' = "clear"
  /\ lba' = l /\ buf' = Filled
  /\ UNCHANGED <<drive, present, model, polls, ret>>

\* Mutated form: wait_clr waits for every bit of the status.
ClearAll == st = "idle"

\* Neither BSY nor DRQ.
Clear == st \notin {"busy", "drq", "ones"}

\* wait_clr, the registers and PACKET; nobody listens if there is no drive.
Packet ==
  /\ apc = "clear" /\ Clear /\ apc' = "cdb"
  /\ IF st = "none" THEN UNCHANGED <<st, phase, owed>>
     ELSE st' = "busy" /\ phase' = "cdb" /\ owed' = 0
  /\ polls' = 0
  /\ UNCHANGED <<kind, sector, count, present, model, lba, buf, ret>>

Return(r) == apc' = "idle" /\ ret' = r

\* ERR, or no DRQ when the loop has ended.
PollFails ==
  /\ apc \in {"cdb", "data"}
  /\ st = "err" \/ (polls = POLLS /\ st # "drq")
  /\ Return(-1)
  /\ UNCHANGED <<drive, present, model, lba, buf, polls>>

\* Mutated form: the loop polls once more.
PollsLeftOneMore == polls <= POLLS

PollsLeft == polls < POLLS

PollAgain ==
  /\ apc \in {"cdb", "data"} /\ st \notin {"drq", "err"} /\ PollsLeft
  /\ polls' = polls + 1
  /\ UNCHANGED <<drive, apc, present, model, lba, buf, ret>>

\* Mutated form: the drive is not waited for before a transfer.
ReadyAlways == st # "err"

\* Neither BSY nor ERR, and DRQ.
Ready == st = "drq"

\* The CDB: READ(10) of one sector.
SendCdb ==
  /\ apc = "cdb" /\ Ready /\ apc' = "data"
  /\ IF st = "drq" THEN st' = "busy" /\ phase' = "data" /\ sector' = lba /\ owed' = PARTS
     ELSE UNCHANGED <<st, phase, sector, owed>>
  /\ polls' = 0
  /\ UNCHANGED <<kind, count, present, model, lba, buf, ret>>

\* As many bytes as the byte count says, and no more bursts.
ReadBurst ==
  /\ apc = "data" /\ Ready /\ Return(0)
  /\ buf' = [i \in Part |-> IF i > count THEN buf[i] ELSE IF st = "drq" THEN <<sector, i>> ELSE AA]
  /\ IF st = "drq" THEN owed' = owed - count /\ st' = IF owed > count THEN "busy" ELSE "idle"
     ELSE UNCHANGED <<owed, st>>
  /\ UNCHANGED <<kind, phase, sector, count, present, model, lba, polls>>

-----------------------------------------------------------------------------
Drive == DriveReady \/ DriveFails

Driver ==
  DetectNothing \/ Identify \/ IdentifyRead \/ Packet \/ PollFails \/ PollAgain \/ SendCdb \/ ReadBurst

AtapiNext == Drive \/ Driver \/ \E l \in Lbas : Call(l)

AtapiSpec == AtapiInit /\ [][AtapiNext]_atapiVars

-----------------------------------------------------------------------------
(* Properties.                                                             *)

\* Every variable has its type.
AtapiTypeOK ==
  /\ kind \in {"none", "packet", "reject", "ones"}
  /\ st \in {"none", "idle", "busy", "drq", "err", "ones"}
  /\ phase \in {"identify", "cdb", "data"} /\ sector \in Lbas
  /\ owed \in 0..PARTS /\ count \in Part
  /\ apc \in {"detect", "identify", "idle", "clear", "cdb", "data"}
  /\ present \in BOOLEAN /\ model \in BOOLEAN /\ lba \in Lbas
  /\ buf \in [Part -> {AA} \cup (Lbas \X Part)] /\ polls \in 0..POLLS /\ ret \in {1, 0, -1}

\* A read that reports success has put the beginning of the sector asked for in
\* the buffer and left its fill behind it, never a piece of another sector,
\* however earlier calls ended: by an error, a timeout or in a sector's middle.
SectorOrFill ==
  apc = "idle" /\ ret = 0 =>
    \E n \in Part : buf = [i \in Part |-> IF i <= n THEN <<lba, i>> ELSE AA]

\* The drive still wants to hand over what a call that timed out, or took the
\* first burst only, did not fetch; nothing will fetch it.
WaitsForLeftover == apc = "clear" /\ st = "drq"
=============================================================================
