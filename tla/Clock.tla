------------------------------- MODULE Clock -------------------------------
(***************************************************************************)
(* cmos_read_rtc of drivers/cmos.c: the date is read register by register, *)
(* from the seconds up to the century, and the clock runs on meanwhile.    *)
(*                                                                         *)
(* An update raises one register and sets those below it back; which one,  *)
(* is the calendar's matter (months differ in length), and any will do.    *)
(* The registers change one after another, and the code does not look at   *)
(* the update-in-progress bit: a read may fall between two changes.        *)
(***************************************************************************)
EXTENDS Integers

CONSTANTS
  N,     \* registers (7 in the code), from the fastest to the slowest
  First, \* the first value of each, and
  Last   \* its last one

ASSUME ClockAssumption ==
  /\ N \in Nat \ {0}
  /\ First \in [1..N -> Nat] /\ Last \in [1..N -> Nat]
  /\ \A r \in 1..N : First[r] <= Last[r] /\ Last[r] <= 99  \* two figures each

Reg == 1..N

VARIABLES
  now,    \* the registers of the clock
  due,    \* what they are to become: an update is under way while they differ
  began,  \* what they were when cmos_read_rtc was called
  rtc,    \* struct RTC: what has been read
  next,   \* reads done so far
  torn    \* one of them fell into an update (nothing in the code knows)

clockVars == <<now, due, began, rtc, next, torn>>

\* What the registers may show.
Date == {d \in [Reg -> UNION {First[r]..Last[r] : r \in Reg}] :
           \A r \in Reg : d[r] \in First[r]..Last[r]}

ClockInit ==
  /\ now \in Date /\ due = now /\ began = now
  /\ rtc = First /\ next = 0 /\ torn = FALSE

\* A register holds its number as two figures of four bits.
Bcd(v) == 16 * (v \div 10) + (v % 10)

\* bcd_to_bin
BcdToBin(val) == (val % 16) + 10 * (val \div 16)

\* cmos_read
CmosRead(r) == Bcd(now[r])

\* Mutated form: the slowest register is read first.
ReadAtDown == N - next

\* The register that is read next.
ReadAt == next + 1

\* One line of cmos_read_rtc.
ReadRegister ==
  /\ next < N
  /\ rtc' = [rtc EXCEPT ![ReadAt] = BcdToBin(CmosRead(ReadAt))]
  /\ next' = next + 1
  /\ torn' = (torn \/ now # due)
  /\ UNCHANGED <<now, due, began>>

\* A second passes.
UpdateBegins ==
  /\ next < N /\ now = due
  /\ \E k \in Reg :
       /\ due[k] < Last[k]
       /\ due' = [r \in Reg |-> IF r < k THEN First[r] ELSE IF r = k THEN due[r] + 1 ELSE due[r]]
  /\ UNCHANGED <<now, began, rtc, next, torn>>

\* The next register of the clock changes, from the seconds up.
UpdateMoves ==
  /\ next < N
  /\ \E r \in Reg :
       /\ now[r] # due[r] /\ \A f \in 1..(r - 1) : now[f] = due[f]
       /\ now' = [now EXCEPT ![r] = due[r]]
  /\ UNCHANGED <<due, began, rtc, next, torn>>

Tick == UpdateBegins \/ UpdateMoves

ClockNext == ReadRegister \/ Tick

ClockSpec == ClockInit /\ [][ClockNext]_clockVars

-----------------------------------------------------------------------------
(* Properties.                                                             *)

\* Every variable has its type; what has been read is of its register's range.
ClockTypeOK ==
  /\ now \in Date /\ due \in Date /\ began \in Date /\ rtc \in Date
  /\ next \in 0..N /\ torn \in BOOLEAN

\* a is an earlier date than b: the slowest register that differs decides.
Earlier(a, b) == \E k \in Reg : a[k] < b[k] /\ \A r \in Reg : r > k => a[r] = b[r]

\* If no read fell into an update, the date reported is not before the time of the
\* call, whatever carries happen between the reads: reading upwards, a carry is
\* seen by the slower register.  (It may be up to one unit of a register ahead.)
NeverEarly == next = N /\ ~torn => ~Earlier(rtc, began)

\* cmos_read_rtc "reads the current time into struct RTC" (its comment): a time
\* not before the call and not after the return.
ReadsCurrentTime == next = N => ~Earlier(rtc, began) /\ ~Earlier(due, rtc)
=============================================================================
