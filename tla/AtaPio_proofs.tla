----------------------------- MODULE AtaPio_proofs -----------------------------
(***************************************************************************)
(* Proofs about AtaPio, for any drive, any contents and commands of any    *)
(* length.                                                                 *)
(***************************************************************************)
EXTENDS AtaPio, TLAPS

\* The types, with the call inside the drive.
Typed == TypeOK /\ lba + count <= Lbas

\* The first n sectors of the call are the same in the buffer and on the media.
Agree(n) == \A i \in 1..n : buffer[i] = media[lba + i - 1]

\* Nothing is asked of the drive, and it offers nothing.
Quiet == ~drq /\ left = 0 /\ cmd = "none"

\* The drive gave the command up.
GivenUp == err /\ ~bsy /\ Quiet

\* A read: the drive is at the sector the driver fetches next.
Reading ==
  /\ op = "read" /\ s < count /\ Agree(s)
  /\ \/ /\ cmd = "read" /\ at = lba + s /\ left = count - s
        /\ (bsy <=> ~drq) /\ ~err
     \/ GivenUp

\* A write: the drive asks for the sector the driver stores next, or puts the
\* last one stored on the media.
Committing ==
  /\ cmd = "commit" /\ s > 0 /\ at = lba + s - 1 /\ left = count - s + 1
  /\ bsy /\ ~drq /\ ~err /\ cache = buffer[s] /\ Agree(s - 1)

Writing ==
  /\ op = "write" /\ s < count
  /\ \/ /\ cmd = "write" /\ at = lba + s /\ left = count - s
        /\ (bsy <=> ~drq) /\ ~err /\ Agree(s)
     \/ Committing
     \/ GivenUp

\* After the last sector of a write: it is under way, done or given up.
Ending ==
  /\ op = "write" /\ s = count
  /\ Committing \/ (Quiet /\ ~bsy /\ (err \/ Agree(count)))

\* The media are what the call found, but for the sectors it stored.
Kept == \A x \in Lba : media[x] = before[x] \/ Stored(x)

\* The inductive invariant: at each place of the driver, what it has moved and
\* what the drive still owes add up to the command.
IInv ==
  /\ Typed /\ Kept
  /\ pc \in {"idle", "wait_busy"} => Quiet
  /\ pc = "idle" /\ ret = 0 /\ (op = "read" \/ ~err) => Agree(count)
  /\ pc = "wait_busy" => s = 0
  /\ pc = "wait_drq" => Reading \/ Writing
  /\ pc = "wait_end" => Ending

LEMMA InitIInv == Init => IInv
<1> SUFFICES ASSUME Init PROVE IInv
  OBVIOUS
<1>1. Lbas \in Nat /\ CountMax \in Nat /\ 1 <= CountMax /\ CountMax <= Lbas
  BY AtaAssumption
<1> DEFINE one == [i \in 1..1 |-> cache]
<1>2. /\ 0 \in Lba /\ 1 \in 1..CountMax /\ 0 \in 0..1 /\ 0 \in 0..Lbas /\ 0 \in 0..CountMax
      /\ one \in [1..1 -> Data]
  BY <1>1 DEF Init, Lba
<1> HIDE DEF one
<1>3. buffer = one
  BY DEF Init, one
<1>4. TypeOK
  BY <1>2, <1>3 DEF Init, TypeOK
<1>5. QED
  BY <1>1, <1>4 DEF Init, IInv, Typed, Quiet, Kept

\* Facts about numbers that every step needs.
LEMMA Numbers ==
  ASSUME TypeOK
  PROVE  /\ Lbas \in Nat /\ CountMax \in Nat /\ lba \in Nat /\ count \in Nat /\ count > 0
         /\ s \in Nat /\ at \in Nat /\ left \in Nat
BY AtaAssumption DEF TypeOK, Lba

\* A step that leaves the media keeps them what the call found.
LEMMA KeptStep ==
  ASSUME TypeOK, Kept, UNCHANGED <<media, before, op, lba>>,
         op = "read" \/ (UNCHANGED buffer /\ s' \in {s, s + 1})
  PROVE  Kept'
<1> SUFFICES ASSUME NEW x \in Lba, media[x] # before[x] PROVE Stored(x)'
  BY DEF Kept
<1>1. Stored(x)
  BY DEF Kept
<1>2. QED
  BY <1>1, Numbers DEF Stored, Lba

\* The drive becoming ready for a sector, or idle.
LEMMA SettleStep == ASSUME IInv, DriveSettles \/ DriveAsks PROVE IInv'
<1>1. /\ UNCHANGED <<media, err, cmd, at, left, cache, driver>>
      /\ bsy /\ bsy' = FALSE /\ drq' \in BOOLEAN
      /\ drq' # drq => cmd \in {"read", "write"} /\ drq'
      /\ cmd \in {"read", "write"} => drq'
      /\ cmd # "commit"
  BY DEF DriveSettles, DriveAsks, IInv, Typed, TypeOK
<1>2. Typed' /\ Kept'
  BY <1>1, KeptStep DEF IInv, Typed, TypeOK, driver
<1>3. \A n : Agree(n)' <=> Agree(n)
  BY <1>1 DEF Agree, driver
<1>4. Quiet => Quiet'
  BY <1>1 DEF Quiet
<1>5. Reading => Reading'
  BY <1>1, <1>3 DEF Reading, GivenUp, Quiet, driver
<1>6. Writing => Writing'
  BY <1>1, <1>3 DEF Writing, Committing, GivenUp, Quiet, driver
<1>7. Ending => Ending'
  BY <1>1, <1>3 DEF Ending, Committing, Quiet, driver
<1>8. QED
  BY <1>1, <1>2, <1>3, <1>4, <1>5, <1>6, <1>7 DEF IInv, driver

\* The drive gives a command up.
LEMMA FailStep == ASSUME IInv, DriveFails PROVE IInv'
<1>1. /\ UNCHANGED <<media, drq, at, cache, driver>>
      /\ bsy /\ bsy' = FALSE /\ err' = TRUE /\ cmd # "none" /\ cmd' = "none" /\ left' = 0
  BY DEF DriveFails, IInv, Typed, TypeOK
<1>2. Typed'
  <2>1. left' \in 0..CountMax
    BY <1>1, AtaAssumption
  <2>2. QED
    BY <1>1, <2>1 DEF IInv, Typed, TypeOK, driver
<1>9. Kept'
  BY <1>1, KeptStep DEF IInv, Typed, driver
<1>3. \A n : Agree(n)' <=> Agree(n)
  BY <1>1 DEF Agree, driver
<1>4. pc \notin {"idle", "wait_busy"}
  BY <1>1 DEF IInv, Quiet
<1>5. Reading => Reading'
  BY <1>1, <1>3 DEF Reading, GivenUp, Quiet, driver
<1>6. Writing => Writing'
  BY <1>1 DEF Writing, Committing, GivenUp, Quiet, driver
<1>7. Ending => Ending'
  BY <1>1 DEF Ending, Committing, Quiet, driver
<1>8. QED
  BY <1>1, <1>2, <1>4, <1>5, <1>6, <1>7, <1>9 DEF IInv, driver

\* A sector that reaches the media is the last one the driver stored, and goes
\* to its own place.
LEMMA CommitStep == ASSUME IInv, DriveCommits PROVE IInv'
<1> USE Numbers DEF IInv, Typed
<1>1. /\ cmd = "commit" /\ bsy' = FALSE /\ drq' = (left > 1)
      /\ media' = [media EXCEPT ![at] = cache]
      /\ cmd' = IF left > 1 THEN "write" ELSE "none"
      /\ at' = at + 1 /\ left' = left - 1
      /\ UNCHANGED <<err, cache, pc, op, lba, count, buffer, s, ret, before>>
  BY DEF DriveCommits, driver
<1>2. pc \in {"wait_drq", "wait_end"}
  BY <1>1 DEF Quiet, TypeOK
<1>3. Committing /\ op = "write" /\ s <= count
  BY <1>1, <1>2 DEF Reading, Writing, Ending, GivenUp, Quiet
<1>4. at = lba + s - 1 /\ left = count - s + 1 /\ s > 0 /\ at \in Lba /\ cache = buffer[s] /\ ~err
  BY <1>3 DEF Committing, Lba
<1>5. media' \in [Lba -> Data]
  BY <1>1, <1>4 DEF TypeOK
<1>6. Typed'
  <2>1. at' \in 0..Lbas /\ left' \in 0..CountMax
    BY <1>1, <1>4 DEF TypeOK
  <2>2. cmd' \in {"none", "read", "write", "commit"} /\ drq' \in BOOLEAN
    BY <1>1
  <2>3. QED
    BY <1>1, <1>5, <2>1, <2>2 DEF TypeOK
<1>7. Agree(s)'
  <2> SUFFICES ASSUME NEW i \in 1..s PROVE buffer[i] = media'[lba + i - 1]
    BY <1>1 DEF Agree
  <2>1. lba + i - 1 \in Lba
    BY <1>3 DEF Lba
  <2>2. CASE i = s
    BY <1>1, <1>4, <2>1, <2>2 DEF TypeOK
  <2>3. CASE i < s
    <3>1. buffer[i] = media[lba + i - 1]
      BY <1>3, <2>3 DEF Committing, Agree
    <3>2. lba + i - 1 # at
      BY <1>4, <2>3
    <3>3. QED
      BY <1>1, <2>1, <3>1, <3>2 DEF TypeOK
  <2>4. QED
    BY <2>2, <2>3
<1>11. Kept'
  <2> SUFFICES ASSUME NEW x \in Lba, media'[x] # before[x] PROVE Stored(x)'
    BY <1>1 DEF Kept
  <2>1. CASE x = at
    BY <1>1, <1>3, <1>4, <2>1 DEF TypeOK, Stored, Lba
  <2>2. CASE x # at
    <3>1. media'[x] = media[x]
      BY <1>1, <2>2 DEF TypeOK
    <3>2. Stored(x)
      BY <3>1 DEF Kept
    <3>3. QED
      BY <1>1, <3>1, <3>2 DEF Stored
  <2>3. QED
    BY <2>1, <2>2
<1>8. CASE pc = "wait_drq"
  <2>1. s < count
    BY <1>3, <1>8 DEF Reading, Writing
  <2>2. left > 1 /\ at' = lba + s /\ left' = count - s
    BY <1>1, <1>4, <2>1
  <2>3. Writing'
    BY <1>1, <1>3, <1>4, <1>7, <2>1, <2>2 DEF Writing
  <2>4. QED
    BY <1>1, <1>6, <1>8, <1>11, <2>3
<1>9. CASE pc = "wait_end"
  <2>1. s = count /\ left = 1
    BY <1>4, <1>9 DEF Ending
  <2>2. Agree(count)'
    BY <1>1, <1>7, <2>1 DEF Agree
  <2>3. Quiet'
    <3>1. left' = 0 /\ cmd' = "none"
      BY <1>1, <2>1
    <3>2. ~(left > 1)
      BY <2>1
    <3>3. ~drq'
      BY <1>1, <3>2, Zenon
    <3>4. QED
      BY <3>1, <3>3 DEF Quiet
  <2>4. Ending'
    BY <1>1, <1>3, <2>1, <2>2, <2>3 DEF Ending
  <2>5. QED
    BY <1>1, <1>6, <1>9, <1>11, <2>4
<1>10. QED
  BY <1>2, <1>8, <1>9

\* A buffer of a call is as long as its sequence.
LEMMA BufferLength ==
  ASSUME NEW b \in Buffers
  PROVE  Len(b) \in 1..CountMax /\ b \in [1..Len(b) -> Data]
<1>1. PICK n \in 1..CountMax : b \in [1..n -> Data]
  BY DEF Buffers
<1>2. n \in Nat
  BY <1>1, AtaAssumption
<1>3. b \in Seq(Data) /\ Len(b) = n
  BY <1>1, <1>2
<1>4. QED
  BY <1>1, <1>3

\* A call finds the drive quiet.
LEMMA CallStep ==
  ASSUME IInv, NEW o \in {"read", "write"}, NEW l \in Lba, NEW b \in Buffers, Call(o, l, b)
  PROVE  IInv'
<1>1. Len(b) \in 1..CountMax /\ b \in [1..Len(b) -> Data]
  BY BufferLength
<1>2. /\ pc = "idle" /\ pc' = "wait_busy" /\ l + Len(b) <= Lbas
      /\ op' = o /\ lba' = l /\ count' = Len(b) /\ buffer' = b /\ s' = 0 /\ before' = media
      /\ UNCHANGED <<media, bsy, drq, err, cmd, at, left, cache, ret>>
  BY DEF Call, drive
<1>3. 0 \in 0..Len(b)
  BY <1>1, AtaAssumption
<1>4. Typed'
  BY <1>1, <1>2, <1>3 DEF IInv, Typed, TypeOK
<1>6. Kept'
  BY <1>2 DEF Kept
<1>5. QED
  BY <1>2, <1>4, <1>6 DEF IInv, Quiet

\* The command starts with nothing moved.
LEMMA CommandStep == ASSUME IInv, Command PROVE IInv'
<1> USE Numbers DEF IInv, Typed
<1>1. /\ pc = "wait_busy" /\ pc' = "wait_drq" /\ s = 0
      /\ bsy' = TRUE /\ drq' = FALSE /\ err' = FALSE
      /\ cmd' = op /\ at' = lba /\ left' = count
      /\ UNCHANGED <<media, cache, op, lba, count, buffer, s, ret, before>>
  BY DEF Command
<1>2. Typed'
  <2>1. at' \in 0..Lbas /\ left' \in 0..CountMax /\ cmd' \in {"none", "read", "write", "commit"}
    BY <1>1 DEF TypeOK, Lba
  <2>2. QED
    BY <1>1, <2>1 DEF TypeOK
<1>3. Agree(s)' /\ at' = lba' + s' /\ left' = count' - s' /\ s' < count'
  BY <1>1 DEF Agree
<1>4. op = "read" => Reading'
  BY <1>1, <1>3 DEF Reading
<1>5. op = "write" => Writing'
  BY <1>1, <1>3 DEF Writing
<1>6. QED
  BY <1>1, <1>2, <1>4, <1>5, KeptStep DEF TypeOK

\* An error ends the call, and the drive has given the command up already.
LEMMA FailedCallStep == ASSUME IInv, WaitDrqFails PROVE IInv'
<1>1. /\ pc = "wait_drq" /\ err /\ pc' = "idle" /\ ret' = -1
      /\ UNCHANGED <<media, bsy, drq, err, cmd, at, left, cache, op, lba, count, buffer, s, before>>
  BY DEF WaitDrqFails, PollError, drive
<1>2. Quiet
  BY <1>1 DEF IInv, Reading, Writing, Committing, GivenUp
<1>3. Typed'
  BY <1>1 DEF IInv, Typed, TypeOK
<1>5. Kept'
  BY <1>1, KeptStep DEF IInv, Typed
<1>4. QED
  BY <1>1, <1>2, <1>3, <1>5 DEF IInv, Quiet

\* The sector fetched is the next one of the call.
LEMMA FetchStep == ASSUME IInv, FetchSector PROVE IInv'
<1> USE Numbers DEF IInv, Typed
<1>1. pc = "wait_drq" /\ op = "read" /\ drq /\ ~err
  BY DEF FetchSector, PollReady, PollError
<1>2. /\ Agree(s) /\ s < count
      /\ cmd = "read" /\ at = lba + s /\ left = count - s
  BY <1>1 DEF Reading, Writing, GivenUp, Quiet
<1>3. /\ buffer' = [buffer EXCEPT ![s + 1] = media[at]]
      /\ drq' = FALSE /\ bsy' = (left > 1) /\ cmd' = IF left > 1 THEN "read" ELSE "none"
      /\ at' = at + 1 /\ left' = left - 1 /\ s' = s + 1
      /\ pc' = IF s + 1 = count THEN "idle" ELSE "wait_drq"
      /\ ret' = IF s + 1 = count THEN 0 ELSE ret
      /\ UNCHANGED <<media, err, cache, op, lba, count, before>>
  BY <1>1 DEF FetchSector, LastSector
<1>4. media[at] \in Data /\ s + 1 \in 1..count
  BY <1>2 DEF TypeOK, Lba
<1>5. buffer' \in [1..count -> Data]
  BY <1>3, <1>4 DEF TypeOK
<1>6. Typed'
  <2>1. at' \in 0..Lbas /\ left' \in 0..CountMax /\ s' \in 0..count
    BY <1>2, <1>3 DEF TypeOK
  <2>2. /\ cmd' \in {"none", "read", "write", "commit"} /\ bsy' \in BOOLEAN
        /\ pc' \in {"idle", "wait_busy", "wait_drq", "wait_end"} /\ ret' \in {1, 0, -1}
    BY <1>3 DEF TypeOK
  <2>3. QED
    BY <1>3, <1>5, <2>1, <2>2 DEF TypeOK
<1>7. Agree(s)'
  <2> SUFFICES ASSUME NEW i \in 1..(s + 1) PROVE buffer'[i] = media[lba + i - 1]
    BY <1>3 DEF Agree
  <2>1. i \in 1..count
    BY <1>2
  <2>2. CASE i = s + 1
    BY <1>2, <1>3, <2>1, <2>2 DEF TypeOK
  <2>3. CASE i <= s
    BY <1>2, <1>3, <2>1, <2>3 DEF TypeOK, Agree
  <2>4. QED
    BY <2>2, <2>3
<1>11. Kept'
  BY <1>1, <1>3, KeptStep
<1>8. CASE s + 1 = count
  <2>1. pc' = "idle" /\ left' = 0 /\ cmd' = "none" /\ Agree(count)'
    BY <1>2, <1>3, <1>7, <1>8
  <2>2. QED
    BY <1>3, <1>6, <1>11, <2>1 DEF Quiet
<1>9. CASE s + 1 # count
  <2>1. left > 1 /\ at' = lba + s' /\ left' = count - s' /\ s' < count
    BY <1>2, <1>3, <1>9
  <2>2. Reading'
    BY <1>1, <1>3, <1>7, <2>1 DEF Reading
  <2>3. QED
    BY <1>3, <1>6, <1>9, <1>11, <2>2
<1>10. QED
  BY <1>8, <1>9

\* The sector stored is the next one of the call, and waits in the drive.
LEMMA StoreStep == ASSUME IInv, StoreSector PROVE IInv'
<1> USE Numbers DEF IInv, Typed
<1>1. pc = "wait_drq" /\ op = "write" /\ drq /\ ~err
  BY DEF StoreSector, PollReady, PollError
<1>2. /\ Agree(s) /\ s < count
      /\ cmd = "write" /\ at = lba + s /\ left = count - s
  BY <1>1 DEF Reading, Writing, Committing, GivenUp, Quiet
<1>3. /\ cache' = buffer[s + 1] /\ drq' = FALSE /\ bsy' = TRUE /\ cmd' = "commit" /\ s' = s + 1
      /\ pc' = IF s + 1 = count THEN "wait_end" ELSE "wait_drq"
      /\ UNCHANGED <<media, err, at, left, op, lba, count, buffer, ret, before>>
  BY DEF StoreSector, LastSector, SectorToWrite
<1>4. buffer[s + 1] \in Data
  BY <1>2 DEF TypeOK
<1>5. Typed'
  <2>1. s' \in 0..count /\ pc' \in {"idle", "wait_busy", "wait_drq", "wait_end"}
    BY <1>2, <1>3
  <2>2. QED
    BY <1>3, <1>4, <2>1 DEF TypeOK
<1>6. Committing'
  BY <1>1, <1>2, <1>3 DEF Committing, Agree
<1>8. Kept'
  BY <1>1, <1>3, KeptStep
<1>7. QED
  BY <1>1, <1>2, <1>3, <1>5, <1>6, <1>8 DEF Writing, Ending

\* A write returns when the last sector is on the media or given up.
LEMMA ReturnStep == ASSUME IInv, WriteReturns PROVE IInv'
<1>1. /\ pc = "wait_end" /\ ~bsy /\ pc' = "idle" /\ ret' = 0
      /\ UNCHANGED <<media, bsy, drq, err, cmd, at, left, cache, op, lba, count, buffer, s, before>>
  BY DEF WriteReturns, WriteEnds, drive
<1>2. op = "write" /\ Quiet /\ (err \/ Agree(count))
  BY <1>1 DEF IInv, Ending, Committing
<1>3. Typed'
  BY <1>1 DEF IInv, Typed, TypeOK
<1>5. Kept'
  BY <1>1, KeptStep DEF IInv, Typed
<1>4. QED
  BY <1>1, <1>2, <1>3, <1>5 DEF IInv, Quiet, Agree

\* The inductive invariant holds in every behaviour.
THEOREM Invariance == Spec => []IInv
<1>1. IInv /\ [Next]_vars => IInv'
  <2> SUFFICES ASSUME IInv, [Next]_vars PROVE IInv'
    OBVIOUS
  <2>1. CASE UNCHANGED vars
    BY <2>1 DEF vars, drive, driver, IInv, Typed, TypeOK, Kept, Stored, Quiet, Agree, Reading, Writing,
      Committing, GivenUp, Ending
  <2>2. CASE Drive
    BY <2>2, SettleStep, CommitStep, FailStep DEF Drive
  <2>3. CASE Driver
    BY <2>3, CommandStep, FailedCallStep, FetchStep, StoreStep, ReturnStep DEF Driver
  <2>4. CASE CallSome
    BY <2>4, CallStep DEF CallSome
  <2>5. QED
    BY <2>1, <2>2, <2>3, <2>4 DEF Next
<1>2. QED
  BY <1>1, InitIInv, PTL DEF Spec

\* Every variable keeps its type.
THEOREM Typing == Spec => []TypeOK
<1>1. IInv => TypeOK
  BY DEF IInv, Typed
<1>2. QED
  BY Invariance, <1>1, PTL

\* No call leaves the drive in the middle of a transfer.
THEOREM DriveQuiet == Spec => []QuietAfterReturn
<1>1. IInv => QuietAfterReturn
  BY DEF IInv, Quiet, QuietAfterReturn
<1>2. QED
  BY Invariance, <1>1, PTL

\* The sectors agree when the buffer is what the media hold.
LEMMA AgreeOnMedia == ASSUME TypeOK, Agree(count) PROVE buffer = OnMedia
BY DEF TypeOK, Agree, OnMedia

\* A read that reports success has read the sectors asked for.
THEOREM ReadsRight == Spec => []ReadGetsSectors
<1>1. IInv => ReadGetsSectors
  BY AgreeOnMedia DEF IInv, Typed, ReadGetsSectors
<1>2. QED
  BY Invariance, <1>1, PTL

\* No call changes a sector but by writing its own part of the buffer there,
\* and a write that the drive did not fail has put every sector in its place.
THEOREM WritesRight == Spec => []WritePutsSectors
<1>1. IInv => WritePutsSectors
  BY AgreeOnMedia DEF IInv, Typed, Kept, WritePutsSectors
<1>2. QED
  BY Invariance, <1>1, PTL
=============================================================================
