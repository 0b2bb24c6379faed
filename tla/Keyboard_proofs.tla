-------------------------- MODULE Keyboard_proofs --------------------------
(***************************************************************************)
(* Proofs about Keyboard, for every ring size, keymap and keyboard.        *)
(***************************************************************************)
EXTENDS Keyboard, Order_proofs, SequenceTheorems

\* The gate is set and IRQ1 unmasked exactly where the boot order puts them.
ProgramPlace ==
  /\ pc \notin {"pic_init", "boot_unmask", "drain", "gate"} => gate
  /\ pc # "pic_init" => (imr <=> pc \in {"boot_unmask", "user", "run_unmask"})
  /\ shell => pc \notin BootPc
  /\ pc \in ShellPc => shell
  /\ hpc # "idle" => pc \notin (BootPc \ {"discard"}) \cup {"halted"}

\* From the prompt on, a request and a handler about to read own one byte each.
OneByteEach ==
  shell => /\ irr => obf
           /\ hpc = "read" => obf /\ ~irr

\* The inductive invariant: NeverWedged, BootOrder and NoGhost are not inductive
\* without knowing where the program is and which request owns which byte.
IInv == TypeOK /\ ProgramPlace /\ BootOrder /\ NeverWedged /\ OneByteEach

\* What Press and Release do to the variables IInv speaks of.
LEMMA SendType ==
  ASSUME NEW s \in Scancode, devq \in Seq(Scancode), Send(s)
  PROVE  devq' \in Seq(Scancode)
BY DEF Send

\* The ring's indices stay in the ring.
LEMMA SuccType == ASSUME NEW i \in Slot PROVE Succ(i) \in Slot
BY KeyboardAssumption DEF Succ, Slot

\* The initial states satisfy the inductive invariant.
LEMMA InitIInv == Init => IInv
<1> SUFFICES ASSUME Init PROVE IInv
  OBVIOUS
<1>1. 0 \in Slot
  BY KeyboardAssumption DEF Slot
<1>2. buf \in [Slot -> Char \cup {NoChar}]
  BY DEF Init
<1>3. TypeOK
  BY <1>1, <1>2 DEF Init, TypeOK, BootPc, HandlerPc
<1>4. ProgramPlace /\ BootOrder /\ NeverWedged /\ OneByteEach
  BY DEF Init, ProgramPlace, BootOrder, NeverWedged, OneByteEach, BootPc, ShellPc
<1>5. QED
  BY <1>3, <1>4 DEF IInv

\* Every step preserves the types.
LEMMA TypeStep == TypeOK /\ [Next]_vars => TypeOK'
<1> SUFFICES ASSUME TypeOK, [Next]_vars PROVE TypeOK'
  OBVIOUS
<1> USE DEF TypeOK, BootPc, GetPc, ShellPc, HandlerPc, device, pic, ring, At
<1>1. ASSUME NEW k \in Key, Press(k) PROVE TypeOK'
  <2>1. devq' \in Seq(Scancode)
    BY <1>1, SendType DEF Press, Scancode
  <2>2. QED
    BY <1>1, <2>1 DEF Press
<1>2. ASSUME NEW k \in Key, Release(k) PROVE TypeOK'
  <2>1. devq' \in Seq(Scancode)
    BY <1>2, SendType DEF Release, Scancode
  <2>2. QED
    BY <1>2, <2>1 DEF Release
<1>3. CASE Load
  <2>1. Head(devq) \in Scancode /\ Tail(devq) \in Seq(Scancode)
    BY <1>3 DEF Load
  <2>2. QED
    BY <1>3, <2>1 DEF Load
<1>4. CASE TakeIrq1
  BY <1>4 DEF TakeIrq1
<1>5. CASE HandlerRead
  <2>1. hc' \in Char \cup {NoChar}
    BY <1>5, KeyboardAssumption DEF HandlerRead, Scancode
  <2>2. hpc' \in HandlerPc
    BY <1>5 DEF HandlerRead
  <2>3. QED
    BY <1>5, <2>1, <2>2 DEF HandlerRead
<1>6. CASE HandlerPush
  BY <1>6, SuccType DEF HandlerPush
<1>7. CASE HandlerEoi
  <2>1. isr' \in BOOLEAN
    BY <1>7 DEF HandlerEoi
  <2>2. QED
    BY <1>7, <2>1 DEF HandlerEoi
<1>8. CASE HandlerIret
  BY <1>8 DEF HandlerIret
<1>9. CASE PicInit \/ BootUnmask \/ Drain \/ SetGate \/ Sti \/ Discard
  BY <1>9 DEF PicInit, BootUnmask, Drain, SetGate, Sti, Discard
<1>10. CASE GetCheck \/ GetHlt \/ GetLoad
  BY <1>10 DEF GetCheck, GetHlt, GetLoad
<1>11. CASE GetAdvance
  BY <1>11, SuccType DEF GetAdvance
<1>12. CASE Got \/ CommandDone \/ RunProgram \/ UserReturns \/ RunUnmask
  BY <1>12 DEF Got, CommandDone, RunProgram, UserReturns, RunUnmask
<1>13. CASE UNCHANGED vars
  BY <1>13 DEF vars
<1>14. QED
  BY <1>1, <1>2, <1>3, <1>4, <1>5, <1>6, <1>7, <1>8, <1>9, <1>10, <1>11, <1>12, <1>13
  DEF Next, Device, Handler, Kernel

\* Every step preserves the rest of the inductive invariant.
LEMMA IInvStep == IInv /\ [Next]_vars => IInv'
<1> SUFFICES ASSUME IInv, [Next]_vars PROVE IInv'
  OBVIOUS
<1>t. TypeOK'
  BY TypeStep DEF IInv
<1> USE <1>t DEF IInv, ProgramPlace, BootOrder, NeverWedged, OneByteEach,
                 BootPc, GetPc, ShellPc, device, pic, ring, At, Interruptible
<1>1. ASSUME NEW k \in Key, Press(k) \/ Release(k) PROVE IInv'
  BY <1>1 DEF Press, Release
<1>2. CASE Load
  BY <1>2 DEF Load
<1>3. CASE TakeIrq1
  BY <1>3 DEF TakeIrq1, TypeOK
<1>4. CASE HandlerRead
  BY <1>4 DEF HandlerRead
<1>5. CASE HandlerPush
  BY <1>5 DEF HandlerPush
<1>6. CASE HandlerEoi
  BY <1>6 DEF HandlerEoi
<1>7. CASE HandlerIret
  BY <1>7 DEF HandlerIret
<1>8. CASE PicInit \/ BootUnmask
  BY <1>8 DEF PicInit, BootUnmask
<1>9. CASE Drain \/ SetGate \/ Sti
  BY <1>9 DEF Drain, SetGate, Sti
<1>10. CASE Discard
  BY <1>10 DEF Discard
<1>11. CASE GetCheck \/ GetHlt \/ GetLoad \/ GetAdvance
  BY <1>11 DEF GetCheck, GetHlt, GetLoad, GetAdvance
<1>12. CASE Got \/ CommandDone
  BY <1>12 DEF Got, CommandDone
<1>13. CASE RunProgram \/ UserReturns \/ RunUnmask
  BY <1>13 DEF RunProgram, UserReturns, RunUnmask
<1>14. CASE UNCHANGED vars
  BY <1>14 DEF vars
<1>15. QED
  BY <1>1, <1>2, <1>3, <1>4, <1>5, <1>6, <1>7, <1>8, <1>9, <1>10, <1>11, <1>12, <1>13, <1>14
  DEF Next, Device, Handler, Kernel

\* The inductive invariant holds of every behaviour.
THEOREM Invariance == Spec => []IInv
BY InitIInv, IInvStep, PTL DEF Spec

\* Type correctness: head and tail always index a slot of the ring.
THEOREM Typing == Spec => []TypeOK
BY Invariance, PTL DEF IInv

\* The keyboard is never wedged by a byte without an interrupt.
THEOREM KeyboardNeverWedged == Spec => []NeverWedged
BY Invariance, PTL DEF IInv

\* kernel_main's order is safe: no interrupt before the gate, EOI always sent.
THEOREM BootOrderSafe == Spec => []BootOrder
BY Invariance, PTL DEF IInv

\* After the prompt no byte of the controller is read twice.
THEOREM NoGhostAfterPrompt == Spec => []NoGhost
<1>1. IInv => NoGhost
  BY DEF IInv, OneByteEach, NoGhost
<1>2. QED
  BY <1>1, Invariance, PTL

-----------------------------------------------------------------------------
(* The ring.                                                               *)

Dist(i, j) == (i - j) % KBD_BUF_SIZE

\* The distance between two slots, without the remainder.
LEMMA DistVal ==
  ASSUME NEW i \in Slot, NEW j \in Slot
  PROVE  /\ Dist(i, j) = IF i >= j THEN i - j ELSE i - j + KBD_BUF_SIZE
         /\ Dist(i, j) \in Slot
<1>1. CASE i >= j
  BY <1>1, KeyboardAssumption DEF Dist, Slot
<1>2. CASE i < j
  BY <1>2, KeyboardAssumption DEF Dist, Slot
<1>3. QED
  BY <1>1, <1>2 DEF Slot

\* The successor of a slot, without the remainder.
LEMMA SuccVal ==
  ASSUME NEW i \in Slot
  PROVE  Succ(i) = IF i = KBD_BUF_SIZE - 1 THEN 0 ELSE i + 1
BY KeyboardAssumption DEF Succ, Slot

\* What the ring adds to the inductive invariant: the slots between tail and
\* head hold characters, and so does the handler about to push.
RingInv ==
  /\ \A i \in Slot : Dist(i, tail) < Dist(head, tail) => buf[i] \in Char
  /\ hpc = "push" => hc \in Char
  /\ pc \in {"load", "advance"} => head # tail
  /\ pc = "advance" => c = buf[tail]

LEMMA RingInit == Init => RingInv
<1> SUFFICES ASSUME Init PROVE RingInv
  OBVIOUS
<1>1. 0 \in Slot
  BY KeyboardAssumption DEF Slot
<1>2. Dist(head, tail) = 0
  BY <1>1, DistVal DEF Init
<1>3. \A i \in Slot : Dist(i, tail) >= 0
  BY <1>1, DistVal DEF Init, Slot
<1>4. QED
  BY <1>2, <1>3, DistVal, <1>1 DEF Init, RingInv, Slot

\* A step that leaves the ring alone.
LEMMA RingSame ==
  ASSUME RingInv, UNCHANGED ring,
         hpc' = "push" => hc' \in Char,
         pc' \in {"load", "advance"} => head # tail,
         pc' = "advance" => c' = buf[tail]
  PROVE  RingInv'
BY DEF RingInv, ring, Dist

\* A push into a ring with room adds its slot at the head and touches no other.
LEMMA PushRing ==
  ASSUME TypeOK, RingInv, HandlerPush
  PROVE  RingInv'
<1> USE DEF TypeOK
<1>1. CASE Full
  BY <1>1, RingSame DEF HandlerPush, ring, RingInv
<1>2. CASE ~Full
  <2>1. /\ buf' = [buf EXCEPT ![head] = hc] /\ head' = Succ(head) /\ tail' = tail
        /\ head' \in Slot /\ head' # tail
    BY <1>2, SuccType DEF HandlerPush, Full
  <2>2. /\ Dist(head, tail) = IF head >= tail THEN head - tail ELSE head - tail + KBD_BUF_SIZE
        /\ Dist(head', tail) = IF head' >= tail THEN head' - tail ELSE head' - tail + KBD_BUF_SIZE
        /\ head' = IF head = KBD_BUF_SIZE - 1 THEN 0 ELSE head + 1
    BY <2>1, DistVal, SuccVal
  <2>3. Dist(head', tail) = Dist(head, tail) + 1
    BY <2>1, <2>2, KeyboardAssumption DEF Slot
  <2>4. ASSUME NEW i \in Slot, Dist(i, tail) < Dist(head', tail)
        PROVE  buf'[i] \in Char
    <3>1. Dist(i, tail) = IF i >= tail THEN i - tail ELSE i - tail + KBD_BUF_SIZE
      BY DistVal
    <3>2. i = head \/ Dist(i, tail) < Dist(head, tail)
      BY <2>2, <2>3, <2>4, <3>1, KeyboardAssumption DEF Slot
    <3>3. QED
      BY <2>1, <3>2 DEF RingInv, HandlerPush
  <2>5. pc \in {"load", "advance"} => head # tail
    BY DEF RingInv
  <2>6. pc = "advance" => c = buf'[tail]
    BY <2>1, <2>5 DEF RingInv
  <2>7. QED
    BY <2>1, <2>4, <2>6 DEF RingInv, HandlerPush, Dist
<1>3. QED
  BY <1>1, <1>2

\* Advancing tail gives up the slot just read and no other.
LEMMA AdvanceRing ==
  ASSUME TypeOK, RingInv, GetAdvance
  PROVE  RingInv'
<1> USE DEF TypeOK
<1>1. /\ tail' = Succ(tail) /\ tail' \in Slot /\ UNCHANGED <<buf, head, hc, hpc>>
      /\ pc' = "got" /\ head # tail
  BY SuccType DEF GetAdvance, RingInv, At
<1>2. ASSUME NEW i \in Slot, Dist(i, tail') < Dist(head, tail')
      PROVE  Dist(i, tail) < Dist(head, tail)
  <2>1. /\ Dist(i, tail) = IF i >= tail THEN i - tail ELSE i - tail + KBD_BUF_SIZE
        /\ Dist(i, tail') = IF i >= tail' THEN i - tail' ELSE i - tail' + KBD_BUF_SIZE
        /\ Dist(head, tail) = IF head >= tail THEN head - tail ELSE head - tail + KBD_BUF_SIZE
        /\ Dist(head, tail') = IF head >= tail' THEN head - tail' ELSE head - tail' + KBD_BUF_SIZE
        /\ tail' = IF tail = KBD_BUF_SIZE - 1 THEN 0 ELSE tail + 1
    BY <1>1, DistVal, SuccVal
  <2>2. QED
    BY <1>1, <1>2, <2>1, KeyboardAssumption DEF Slot
<1>3. QED
  BY <1>1, <1>2 DEF RingInv, Dist

\* Every step preserves the ring's invariant.
LEMMA RingInvStep == TypeOK /\ RingInv /\ [Next]_vars => RingInv'
<1> SUFFICES ASSUME TypeOK, RingInv, [Next]_vars PROVE RingInv'
  OBVIOUS
<1>1. /\ hpc = "push" => hc \in Char
      /\ pc \in {"load", "advance"} => head # tail
      /\ pc = "advance" => c = buf[tail]
  BY DEF RingInv
<1>2. ASSUME NEW k \in Key, Press(k) \/ Release(k) PROVE RingInv'
  BY <1>1, <1>2, RingSame DEF Press, Release, ring
<1>3. CASE Load \/ TakeIrq1
  BY <1>1, <1>3, RingSame DEF Load, TakeIrq1, ring
<1>4. CASE HandlerRead
  <2>1. hpc' = "push" => hc' \in Char
    BY <1>4, KeyboardAssumption DEF HandlerRead, HasChar, TypeOK, Scancode
  <2>2. QED
    BY <1>1, <1>4, <2>1, RingSame DEF HandlerRead, ring
<1>5. CASE HandlerPush
  BY <1>5, PushRing
<1>6. CASE HandlerEoi \/ HandlerIret
  BY <1>1, <1>6, RingSame DEF HandlerEoi, HandlerIret, ring
<1>7. CASE PicInit \/ BootUnmask \/ Drain \/ SetGate \/ Sti \/ Discard
  BY <1>1, <1>7, RingSame DEF PicInit, BootUnmask, Drain, SetGate, Sti, Discard, ring
<1>8. CASE GetCheck \/ GetHlt
  BY <1>1, <1>8, RingSame DEF GetCheck, GetHlt, Available, ring
<1>9. CASE GetLoad
  BY <1>1, <1>9, RingSame DEF GetLoad, At, ring
<1>10. CASE GetAdvance
  BY <1>10, AdvanceRing
<1>11. CASE Got \/ CommandDone \/ RunProgram \/ UserReturns \/ RunUnmask
  BY <1>1, <1>11, RingSame DEF Got, CommandDone, RunProgram, UserReturns, RunUnmask, ring
<1>12. CASE UNCHANGED vars
  BY <1>1, <1>12, RingSame DEF vars
<1>13. QED
  BY <1>2, <1>3, <1>4, <1>5, <1>6, <1>7, <1>8, <1>9, <1>10, <1>11, <1>12
  DEF Next, Device, Handler, Kernel

\* Every character of keyboard_getchar was put in the slot it is read from:
\* between head and tail there is no slot never written.
NoUnwrittenSlot ==
  /\ \A i \in Slot : (i - tail) % KBD_BUF_SIZE < (head - tail) % KBD_BUF_SIZE
                       => buf[i] # NoChar
  /\ pc \in {"load", "advance"} => head # tail
  /\ pc = "advance" => c = buf[tail]

\* keyboard_getchar never reads a slot that no push has written.
THEOREM RingNoUnwrittenSlot == Spec => []NoUnwrittenSlot
<1>1. TypeOK /\ RingInv => NoUnwrittenSlot
  BY KeyboardAssumption DEF RingInv, NoUnwrittenSlot, Dist
<1>2. QED
  BY <1>1, RingInit, RingInvStep, Typing, PTL DEF Spec

-----------------------------------------------------------------------------
(* The ring as a queue.                                                    *)

\* The slot k places after slot i, without the remainder.
LEMMA PlusVal ==
  ASSUME NEW i \in Slot, NEW k \in Slot
  PROVE  /\ (i + k) % KBD_BUF_SIZE
              = IF i + k < KBD_BUF_SIZE THEN i + k ELSE i + k - KBD_BUF_SIZE
         /\ (i + k) % KBD_BUF_SIZE \in Slot
<1>1. CASE i + k < KBD_BUF_SIZE
  BY <1>1, KeyboardAssumption DEF Slot
<1>2. CASE i + k >= KBD_BUF_SIZE
  <2>1. \A x \in Int : KBD_BUF_SIZE <= x /\ x < 2 * KBD_BUF_SIZE
           => x % KBD_BUF_SIZE = x - KBD_BUF_SIZE
    BY KeyboardAssumption
  <2>2. PICK x \in Int : x = i + k
    BY DEF Slot
  <2>3. KBD_BUF_SIZE <= x /\ x < 2 * KBD_BUF_SIZE
    BY <1>2, <2>2, KeyboardAssumption DEF Slot
  <2>4. x % KBD_BUF_SIZE = x - KBD_BUF_SIZE
    BY <2>1, <2>3
  <2>5. QED
    BY <2>2, <2>3, <2>4, KeyboardAssumption DEF Slot
<1>3. QED
  BY <1>1, <1>2, KeyboardAssumption DEF Slot

\* The contents of ring b between tail t and head h.
Between(b, h, t) == [i \in 1..Dist(h, t) |-> b[(t + i - 1) % KBD_BUF_SIZE]]

LEMMA WaitingBetween ==
  /\ Waiting = Between(buf, head, tail)
  /\ Waiting' = Between(buf', head', tail')
BY DEF Waiting, Between, Dist

\* What waits is a sequence as long as head is ahead of tail.
LEMMA BetweenSeq ==
  ASSUME NEW b \in [Slot -> Char \cup {NoChar}], NEW h \in Slot, NEW t \in Slot
  PROVE  /\ Between(b, h, t) \in Seq(Char \cup {NoChar})
         /\ Len(Between(b, h, t)) = Dist(h, t)
         /\ \A i \in 1..Dist(h, t) :
              Between(b, h, t)[i] = b[(t + i - 1) % KBD_BUF_SIZE]
<1>1. Dist(h, t) \in Slot
  BY DistVal
<1>2. Dist(h, t) \in Nat /\ Dist(h, t) < KBD_BUF_SIZE
  BY <1>1, KeyboardAssumption DEF Slot
<1>3. \A i \in 1..Dist(h, t) : (t + i - 1) % KBD_BUF_SIZE \in Slot
  <2> TAKE i \in 1..Dist(h, t)
  <2>1. i - 1 \in Slot /\ t + (i - 1) = t + i - 1
    BY <1>2, KeyboardAssumption DEF Slot
  <2>2. QED
    BY <2>1, PlusVal
<1>4. QED
  BY <1>2, <1>3 DEF Between

\* Less than a turn of the ring apart, two places are not the same slot.
LEMMA ApartInRing ==
  ASSUME NEW n \in Nat, NEW from \in 0..(n - 1), NEW far \in 0..(n - 1),
         NEW near \in 0..(n - 1), near < far
  PROVE  (IF from + near < n THEN from + near ELSE from + near - n)
           # (IF from + far < n THEN from + far ELSE from + far - n)
OBVIOUS

\* A push appends the handler's character, or finds KBD_BUF_SIZE - 1 waiting.
LEMMA PushWaiting ==
  ASSUME TypeOK, TypeOK', HandlerPush
  PROVE  \/ Waiting' = Append(Waiting, hc)
         \/ Waiting' = Waiting /\ Len(Waiting) = KBD_BUF_SIZE - 1
<1> USE DEF TypeOK
<1>1. CASE Full
  <2>1. Dist(head, tail) = KBD_BUF_SIZE - 1
    <3>1. /\ Dist(head, tail) = IF head >= tail THEN head - tail ELSE head - tail + KBD_BUF_SIZE
          /\ tail = IF head = KBD_BUF_SIZE - 1 THEN 0 ELSE head + 1
      BY <1>1, DistVal, SuccVal DEF Full
    <3>2. QED
      BY <3>1, KeyboardAssumption DEF Slot
  <2>2. Waiting' = Waiting
    BY <1>1 DEF HandlerPush, Waiting, ring
  <2>3. Len(Waiting) = KBD_BUF_SIZE - 1
    BY <2>1, BetweenSeq, WaitingBetween
  <2>4. QED
    BY <2>2, <2>3
<1>2. CASE ~Full
  <2> DEFINE d == Dist(head, tail)
  <2>1. /\ buf' = [buf EXCEPT ![head] = hc] /\ head' = Succ(head) /\ tail' = tail
        /\ head' # tail
    BY <1>2 DEF HandlerPush, Full
  <2>2. d \in Slot /\ Dist(head', tail) = d + 1 /\ (tail + d) % KBD_BUF_SIZE = head
    <3>1. /\ d = IF head >= tail THEN head - tail ELSE head - tail + KBD_BUF_SIZE
          /\ d \in Slot
          /\ Dist(head', tail) = IF head' >= tail THEN head' - tail ELSE head' - tail + KBD_BUF_SIZE
          /\ head' = IF head = KBD_BUF_SIZE - 1 THEN 0 ELSE head + 1
      BY <2>1, DistVal, SuccVal
    <3>2. (tail + d) % KBD_BUF_SIZE
            = IF tail + d < KBD_BUF_SIZE THEN tail + d ELSE tail + d - KBD_BUF_SIZE
      BY <3>1, PlusVal
    <3>3. Dist(head', tail) = d + 1
      BY <2>1, <3>1, KeyboardAssumption DEF Slot
    <3>4. head = IF tail + d < KBD_BUF_SIZE THEN tail + d ELSE tail + d - KBD_BUF_SIZE
      BY <3>1, KeyboardAssumption DEF Slot
    <3>5. QED
      BY <3>1, <3>2, <3>3, <3>4
  <2>3. /\ Waiting' \in Seq(Char \cup {NoChar}) /\ Len(Waiting') = d + 1
        /\ \A i \in 1..(d + 1) : Waiting'[i] = buf'[(tail + i - 1) % KBD_BUF_SIZE]
    <3>1. /\ Between(buf', head', tail') \in Seq(Char \cup {NoChar})
          /\ Len(Between(buf', head', tail')) = Dist(head', tail')
          /\ \A i \in 1..Dist(head', tail') :
               Between(buf', head', tail')[i] = buf'[(tail' + i - 1) % KBD_BUF_SIZE]
      BY BetweenSeq
    <3>2. QED
      BY <2>1, <2>2, <3>1, WaitingBetween
  <2>4. /\ Waiting \in Seq(Char \cup {NoChar}) /\ Len(Waiting) = d
        /\ \A i \in 1..d : Waiting[i] = buf[(tail + i - 1) % KBD_BUF_SIZE]
    BY BetweenSeq, WaitingBetween
  <2>5. ASSUME NEW i \in 1..d PROVE Waiting'[i] = Waiting[i]
    <3>1. i - 1 \in Slot /\ i - 1 < d /\ tail + (i - 1) = tail + i - 1
      BY <2>2, KeyboardAssumption DEF Slot
    <3>2. (tail + i - 1) % KBD_BUF_SIZE # (tail + d) % KBD_BUF_SIZE
      <4>1. /\ (tail + (i - 1)) % KBD_BUF_SIZE
                 = IF tail + (i - 1) < KBD_BUF_SIZE THEN tail + (i - 1)
                   ELSE tail + (i - 1) - KBD_BUF_SIZE
            /\ (tail + d) % KBD_BUF_SIZE
                 = IF tail + d < KBD_BUF_SIZE THEN tail + d ELSE tail + d - KBD_BUF_SIZE
        BY <2>2, <3>1, PlusVal
      <4>2. (IF tail + (i - 1) < KBD_BUF_SIZE THEN tail + (i - 1)
              ELSE tail + (i - 1) - KBD_BUF_SIZE)
             # (IF tail + d < KBD_BUF_SIZE THEN tail + d ELSE tail + d - KBD_BUF_SIZE)
        BY <2>2, <3>1, ApartInRing, KeyboardAssumption DEF Slot
      <4>3. QED
        BY <3>1, <4>1, <4>2
    <3>3. (tail + i - 1) % KBD_BUF_SIZE \in Slot
      BY <3>1, PlusVal
    <3>4. QED
      BY <2>1, <2>2, <2>3, <2>4, <3>2, <3>3
  <2>6. Waiting'[d + 1] = hc
    <3>1. d + 1 \in 1..(d + 1) /\ tail + (d + 1) - 1 = tail + d
      BY <2>2, KeyboardAssumption DEF Slot
    <3>2. QED
      BY <2>1, <2>2, <2>3, <3>1
  <2>7. Waiting' = Append(Waiting, hc)
    BY <2>2, <2>3, <2>4, <2>5, <2>6 DEF Slot
  <2>8. QED
    BY <2>7
<1>3. QED
  BY <1>1, <1>2

\* The end of keyboard_getchar removes the oldest character, the one it returns.
LEMMA AdvanceWaiting ==
  ASSUME TypeOK, TypeOK', RingInv, GetAdvance
  PROVE  Waiting # <<>> /\ c = Head(Waiting) /\ Waiting' = Tail(Waiting)
<1> USE DEF TypeOK
<1> DEFINE d == Dist(head, tail)
<1>1. /\ tail' = Succ(tail) /\ UNCHANGED <<buf, head>> /\ pc = "advance" /\ pc' = "got"
      /\ head # tail /\ c = buf[tail]
  BY DEF GetAdvance, RingInv, At
<1>2. d \in Slot /\ d > 0 /\ Dist(head, tail') = d - 1
  <2>1. /\ d = IF head >= tail THEN head - tail ELSE head - tail + KBD_BUF_SIZE
        /\ d \in Slot
        /\ Dist(head, tail') = IF head >= tail' THEN head - tail' ELSE head - tail' + KBD_BUF_SIZE
        /\ tail' = IF tail = KBD_BUF_SIZE - 1 THEN 0 ELSE tail + 1
    BY <1>1, DistVal, SuccVal
  <2>2. d > 0
    BY <1>1, <2>1, KeyboardAssumption DEF Slot
  <2>3. Dist(head, tail') = d - 1
    BY <1>1, <2>1, KeyboardAssumption DEF Slot
  <2>4. QED
    BY <2>1, <2>2, <2>3
<1>3. /\ Waiting' \in Seq(Char \cup {NoChar}) /\ Len(Waiting') = d - 1
      /\ \A i \in 1..(d - 1) : Waiting'[i] = buf[(tail' + i - 1) % KBD_BUF_SIZE]
  <2>1. /\ Between(buf', head', tail') \in Seq(Char \cup {NoChar})
        /\ Len(Between(buf', head', tail')) = Dist(head', tail')
        /\ \A i \in 1..Dist(head', tail') :
             Between(buf', head', tail')[i] = buf'[(tail' + i - 1) % KBD_BUF_SIZE]
    BY BetweenSeq
  <2>2. QED
    BY <1>1, <1>2, <2>1, WaitingBetween
<1>4. /\ Waiting \in Seq(Char \cup {NoChar}) /\ Len(Waiting) = d
      /\ \A i \in 1..d : Waiting[i] = buf[(tail + i - 1) % KBD_BUF_SIZE]
  BY BetweenSeq, WaitingBetween
<1>5. Waiting # <<>> /\ Head(Waiting) = c
  <2>1. (tail + 1 - 1) % KBD_BUF_SIZE = tail
    <3>1. 0 \in Slot /\ tail + 1 - 1 = tail + 0 /\ tail + 0 = tail /\ tail < KBD_BUF_SIZE
      BY KeyboardAssumption DEF Slot
    <3>2. QED
      BY <3>1, PlusVal
  <2>2. Waiting[1] = c
    BY <1>1, <1>2, <1>4, <2>1 DEF Slot
  <2>3. QED
    BY <1>2, <1>4, <2>2 DEF Slot
<1>6. ASSUME NEW i \in 1..(d - 1) PROVE Waiting'[i] = Waiting[i + 1]
  <2>1. (tail' + i - 1) % KBD_BUF_SIZE = (tail + (i + 1) - 1) % KBD_BUF_SIZE
    <3>1. /\ i - 1 \in Slot /\ i \in Slot /\ tail' \in Slot
          /\ tail' + (i - 1) = tail' + i - 1 /\ tail + i = tail + (i + 1) - 1
      BY <1>2, KeyboardAssumption DEF Slot
    <3>2. tail' = IF tail = KBD_BUF_SIZE - 1 THEN 0 ELSE tail + 1
      BY <1>1, SuccVal
    <3>3. (tail' + (i - 1)) % KBD_BUF_SIZE
            = IF tail' + (i - 1) < KBD_BUF_SIZE THEN tail' + (i - 1)
              ELSE tail' + (i - 1) - KBD_BUF_SIZE
      BY <3>1, PlusVal
    <3>4. (tail + i) % KBD_BUF_SIZE
            = IF tail + i < KBD_BUF_SIZE THEN tail + i ELSE tail + i - KBD_BUF_SIZE
      BY <3>1, PlusVal
    <3>5. QED
      BY <3>1, <3>2, <3>3, <3>4, KeyboardAssumption DEF Slot
  <2>2. i + 1 \in 1..d
    BY <1>2 DEF Slot
  <2>3. QED
    BY <1>3, <1>4, <2>1, <2>2
<1>7. Waiting' = Tail(Waiting)
  BY <1>2, <1>3, <1>4, <1>6 DEF Slot
<1>8. QED
  BY <1>5, <1>7

\* The ring is a queue under every interleaving of handler and program.
THEOREM RingFifo == Spec => RingIsFifo
<1>1. TypeOK /\ TypeOK' /\ RingInv /\ [Next]_vars => [RingStep]_vars
  <2> SUFFICES ASSUME TypeOK, TypeOK', RingInv, Next PROVE RingStep
    OBVIOUS
  <2>1. CASE HandlerPush
    <3>1. Pushes /\ ~Returns
      BY <2>1 DEF HandlerPush, Pushes, Returns
    <3>2. QED
      BY <2>1, <3>1, PushWaiting DEF RingStep
  <2>2. CASE GetAdvance
    <3>1. ~Pushes /\ Returns /\ c' = c
      BY <2>2 DEF GetAdvance, At, Pushes, Returns
    <3>2. Waiting # <<>> /\ c = Head(Waiting) /\ Waiting' = Tail(Waiting)
      BY <2>2, AdvanceWaiting
    <3>3. QED
      BY <3>1, <3>2 DEF RingStep
  <2>3. CASE ~HandlerPush /\ ~GetAdvance
    <3>1. UNCHANGED ring /\ ~Pushes /\ ~Returns
      BY <2>3 DEF Next, Device, Handler, Kernel, Press, Release, Load, TakeIrq1, At,
             HandlerRead, HandlerEoi, HandlerIret, PicInit, BootUnmask, Drain,
             SetGate, Sti, Discard, GetCheck, GetHlt, GetLoad, Got, CommandDone,
             RunProgram, UserReturns, RunUnmask, ring, Pushes, Returns
    <3>2. Waiting' = Waiting
      BY <3>1 DEF ring, Waiting
    <3>3. QED
      BY <3>1, <3>2 DEF RingStep
  <2>4. QED
    BY <2>1, <2>2, <2>3
<1>2. Spec => []RingInv
  BY RingInit, RingInvStep, Typing, PTL DEF Spec
<1>3. QED
  BY <1>1, <1>2, Typing, PTL DEF Spec, RingIsFifo
-----------------------------------------------------------------------------
(* The path from the keys to the shell.                                    *)

\* The empty text, and a text with what a scancode adds to it.
Empty == <<>>
Joined(text, s) == text \o CharOf(s)

\* first is the recursive function of Chars over the first n scancodes of q.
Counting(q, n, first) ==
  first = [i \in 0..n |-> IF i = 0 THEN Empty ELSE Joined(first[i - 1], q[i])]

\* The recursive function of Chars exists.
LEMMA CountingExists ==
  ASSUME NEW q, NEW n \in Nat
  PROVE  \E first : Counting(q, n, first)
<1> DEFINE S == {k \in Nat : \E first : Counting(q, k, first)}
<1>1. 0 \in S
  <2>1. Counting(q, 0, [i \in 0..0 |-> Empty])
    BY DEF Counting
  <2>2. QED
    BY <2>1
<1>2. \A k \in Nat : k \in S => k + 1 \in S
  <2>1. TAKE k \in Nat
  <2>2. HAVE k \in S
  <2>3. PICK f : Counting(q, k, f)
    BY <2>2
  <2> DEFINE g == [i \in 0..(k + 1) |-> IF i = k + 1 THEN Joined(f[k], q[k + 1]) ELSE f[i]]
  <2>4. ASSUME NEW i \in 0..(k + 1)
        PROVE  g[i] = IF i = 0 THEN Empty ELSE Joined(g[i - 1], q[i])
    <3>1. CASE i = k + 1
      BY <3>1
    <3>2. CASE i # k + 1
      <4>1. i \in 0..k /\ (i # 0 => i - 1 \in 0..k)
        BY <3>2
      <4>2. f[i] = IF i = 0 THEN Empty ELSE Joined(f[i - 1], q[i])
        BY <2>3, <4>1 DEF Counting
      <4>3. g[i] = f[i] /\ (i # 0 => g[i - 1] = f[i - 1])
        BY <3>2, <4>1
      <4>4. QED
        BY <4>2, <4>3
    <3>3. QED
      BY <3>1, <3>2
  <2>5. Counting(q, k + 1, g)
    <3> DEFINE h == [i \in 0..(k + 1) |-> IF i = 0 THEN Empty ELSE Joined(g[i - 1], q[i])]
    <3>1. \A i \in 0..(k + 1) : g[i] = h[i]
      BY <2>4
    <3>2. g = h
      BY <3>1
    <3> HIDE DEF g
    <3>3. QED
      BY <3>2 DEF Counting
  <2>6. QED
    BY <2>5
<1>3. Nat \subseteq S
  <2> HIDE DEF S
  <2>1. QED
    BY <1>1, <1>2, Induction
<1>4. QED
  BY <1>3

\* first collects the characters of q, scancode by scancode.
Collects(q, first) ==
  /\ first[0] = Empty /\ first[Len(q)] = Chars(q)
  /\ \A i \in 1..Len(q) : first[i] = Joined(first[i - 1], q[i])

LEMMA CharsCollected ==
  ASSUME NEW q, Len(q) \in Nat
  PROVE  \E first : Collects(q, first)
<1> DEFINE f == CHOOSE first : Counting(q, Len(q), first)
<1>1. Counting(q, Len(q), f)
  BY CountingExists
<1>2. f[Len(q)] = Chars(q)
  BY DEF Counting, Chars, Empty, Joined
<1> HIDE DEF f
<1>3. \A i \in 0..Len(q) : f[i] = IF i = 0 THEN Empty ELSE Joined(f[i - 1], q[i])
  BY <1>1 DEF Counting
<1>4. f[0] = Empty /\ \A i \in 1..Len(q) : f[i] = Joined(f[i - 1], q[i])
  BY <1>3
<1>5. Collects(q, f)
  BY <1>2, <1>4 DEF Collects
<1>6. QED
  BY <1>5

LEMMA TextsAssociative ==
  ASSUME NEW s \in Seq(Char), NEW t \in Seq(Char), NEW u \in Seq(Char)
  PROVE  (s \o t) \o u = s \o (t \o u)
BY ConcatAssociative

LEMMA CharOfType == ASSUME NEW s \in Scancode PROVE CharOf(s) \in Seq(Char)
BY KeyboardAssumption DEF CharOf, HasChar, Scancode

\* Each step of the collection is a text.
LEMMA CollectsType ==
  ASSUME NEW q \in Seq(Scancode), NEW f, Collects(q, f)
  PROVE  \A i \in 0..Len(q) : f[i] \in Seq(Char)
<1> DEFINE S == {n \in Nat : n <= Len(q) => f[n] \in Seq(Char)}
<1>1. 0 \in S
  <2>1. f[0] \in Seq(Char)
    BY EmptySeq DEF Collects, Empty
  <2>2. QED
    BY <2>1
<1>2. \A n \in Nat : n \in S => n + 1 \in S
  <2>1. TAKE n \in Nat
  <2>2. HAVE n \in S
  <2>3. SUFFICES ASSUME n + 1 <= Len(q) PROVE f[n + 1] \in Seq(Char)
    OBVIOUS
  <2>4. n + 1 \in 1..Len(q) /\ (n + 1) - 1 = n /\ f[n] \in Seq(Char) /\ q[n + 1] \in Scancode
    BY <2>2, <2>3
  <2>5. f[n + 1] = f[n] \o CharOf(q[n + 1])
    BY <2>4 DEF Collects, Joined
  <2>6. QED
    BY <2>4, <2>5, CharOfType, ConcatProperties
<1>3. Nat \subseteq S
  <2> HIDE DEF S
  <2>1. QED
    BY <1>1, <1>2, Induction
<1>4. QED
  BY <1>3

LEMMA CharsType == ASSUME NEW q \in Seq(Scancode) PROVE Chars(q) \in Seq(Char)
<1>1. PICK f : Collects(q, f)
  BY CharsCollected
<1>2. QED
  BY <1>1, CollectsType DEF Collects

LEMMA CharsEmpty == Chars(<<>>) = <<>>
<1>1. Len(<<>>) = 0
  OBVIOUS
<1>2. PICK f : Collects(<<>>, f)
  BY <1>1, CharsCollected
<1>3. QED
  BY <1>1, <1>2 DEF Collects, Empty

\* A scancode at the end of the queue adds its character at the end.
LEMMA CharsAppend ==
  ASSUME NEW q \in Seq(Scancode), NEW s \in Scancode
  PROVE  Chars(Append(q, s)) = Chars(q) \o CharOf(s)
<1> DEFINE r == Append(q, s)
<1>1. /\ r \in Seq(Scancode) /\ Len(r) = Len(q) + 1 /\ r[Len(q) + 1] = s
      /\ \A i \in 1..Len(q) : r[i] = q[i]
  BY AppendProperties
<1> HIDE DEF r
<1>2. PICK f : Collects(q, f)
  BY CharsCollected
<1>3. PICK g : Collects(r, g)
  BY <1>1, CharsCollected
<1> DEFINE S == {n \in Nat : n <= Len(q) => f[n] = g[n]}
<1>4. 0 \in S
  BY <1>2, <1>3 DEF Collects
<1>5. \A n \in Nat : n \in S => n + 1 \in S
  <2>1. TAKE n \in Nat
  <2>2. HAVE n \in S
  <2>3. SUFFICES ASSUME n + 1 <= Len(q) PROVE f[n + 1] = g[n + 1]
    OBVIOUS
  <2>4. /\ n + 1 \in 1..Len(q) /\ n + 1 \in 1..Len(r) /\ (n + 1) - 1 = n
        /\ f[n] = g[n] /\ r[n + 1] = q[n + 1]
    BY <1>1, <2>2, <2>3
  <2>5. f[n + 1] = f[n] \o CharOf(q[n + 1]) /\ g[n + 1] = g[n] \o CharOf(r[n + 1])
    BY <1>2, <1>3, <2>4 DEF Collects, Joined
  <2>6. QED
    BY <2>4, <2>5
<1>6. Nat \subseteq S
  <2> HIDE DEF S
  <2>1. QED
    BY <1>4, <1>5, Induction
<1>7. g[Len(q)] = Chars(q)
  BY <1>2, <1>6 DEF Collects
<1>8. g[Len(q) + 1] = g[Len(q)] \o CharOf(s) /\ g[Len(q) + 1] = Chars(r)
  <2>1. Len(q) + 1 \in 1..Len(r) /\ (Len(q) + 1) - 1 = Len(q)
    BY <1>1
  <2>2. QED
    BY <1>1, <1>3, <2>1 DEF Collects, Joined
<1>9. QED
  BY <1>7, <1>8 DEF r

\* The scancode at the front of the queue has the first character.
LEMMA CharsHeadTail ==
  ASSUME NEW q \in Seq(Scancode), q # <<>>
  PROVE  Chars(q) = CharOf(Head(q)) \o Chars(Tail(q))
<1> DEFINE t == Tail(q)
<1> DEFINE e == CharOf(Head(q))
<1>1. /\ t \in Seq(Scancode) /\ Len(t) = Len(q) - 1 /\ Len(q) \in Nat /\ Len(q) # 0
      /\ \A i \in 1..Len(t) : t[i] = q[i + 1]
      /\ Head(q) = q[1] /\ Head(q) \in Scancode
  BY HeadTailProperties
<1>2. e \in Seq(Char)
  BY <1>1, CharOfType
<1>3. e = CharOf(q[1])
  BY <1>1
<1> HIDE DEF t, e
<1>4. PICK f : Collects(q, f)
  BY <1>1, CharsCollected
<1>5. PICK g : Collects(t, g)
  BY <1>1, CharsCollected
<1> DEFINE S == {n \in Nat : n <= Len(t) => f[n + 1] = e \o g[n]}
<1>6. 0 \in S
  <2>1. 1 \in 1..Len(q) /\ 1 - 1 = 0
    BY <1>1
  <2>2. f[1] = f[0] \o e
    BY <1>3, <1>4, <2>1 DEF Collects, Joined
  <2>3. f[0] = <<>> /\ g[0] = <<>>
    BY <1>4, <1>5 DEF Collects, Empty
  <2>4. <<>> \o e = e /\ e \o <<>> = e
    BY <1>2, ConcatEmptySeq
  <2>5. QED
    <3>1. f[0 + 1] = e \o g[0]
      BY <2>2, <2>3, <2>4
    <3>2. QED
      BY <3>1
<1>7. \A n \in Nat : n \in S => n + 1 \in S
  <2>1. TAKE n \in Nat
  <2>2. HAVE n \in S
  <2>3. SUFFICES ASSUME n + 1 <= Len(t) PROVE f[(n + 1) + 1] = e \o g[n + 1]
    OBVIOUS
  <2>4. /\ n + 1 \in 1..Len(t) /\ (n + 1) - 1 = n
        /\ (n + 1) + 1 \in 1..Len(q) /\ ((n + 1) + 1) - 1 = n + 1
        /\ f[n + 1] = e \o g[n] /\ t[n + 1] = q[(n + 1) + 1]
    BY <1>1, <2>2, <2>3
  <2>5. /\ f[(n + 1) + 1] = f[n + 1] \o CharOf(q[(n + 1) + 1])
        /\ g[n + 1] = g[n] \o CharOf(t[n + 1])
    BY <1>4, <1>5, <2>4 DEF Collects, Joined
  <2>6. g[n] \in Seq(Char) /\ CharOf(t[n + 1]) \in Seq(Char)
    <3>1. n \in 0..Len(t) /\ t[n + 1] \in Scancode
      BY <1>1, <2>4
    <3>2. QED
      BY <1>1, <1>5, <3>1, CollectsType, CharOfType
  <2>7. (e \o g[n]) \o CharOf(t[n + 1]) = e \o (g[n] \o CharOf(t[n + 1]))
    BY <1>2, <2>6, TextsAssociative
  <2>8. QED
    BY <2>4, <2>5, <2>7
<1>8. Nat \subseteq S
  <2> HIDE DEF S
  <2>1. QED
    BY <1>6, <1>7, Induction
<1>9. Len(t) \in S /\ Len(t) + 1 = Len(q)
  BY <1>1, <1>8
<1>10. f[Len(q)] = e \o g[Len(t)]
  BY <1>9
<1>11. QED
  BY <1>4, <1>5, <1>10 DEF Collects, t, e

\* The parts of the stream are texts.
LEMMA PartTypes ==
  ASSUME TypeOK, RingInv
  PROVE  /\ Waiting \in Seq(Char) /\ Pushing \in Seq(Char)
         /\ Held \in Seq(Char) /\ Chars(devq) \in Seq(Char)
<1> USE DEF TypeOK
<1> DEFINE d == Dist(head, tail)
<1>1. /\ d \in Slot /\ Waiting \in Seq(Char \cup {NoChar}) /\ Len(Waiting) = d
      /\ \A i \in 1..d : Waiting[i] = buf[(tail + i - 1) % KBD_BUF_SIZE]
  BY BetweenSeq, WaitingBetween, DistVal
<1>2. ASSUME NEW i \in 1..d PROVE Waiting[i] \in Char
  <2> DEFINE s == (tail + i - 1) % KBD_BUF_SIZE
  <2>1. i - 1 \in Slot /\ i - 1 < d /\ tail + (i - 1) = tail + i - 1
    BY <1>1, KeyboardAssumption DEF Slot
  <2>2. /\ s = IF tail + (i - 1) < KBD_BUF_SIZE THEN tail + (i - 1)
               ELSE tail + (i - 1) - KBD_BUF_SIZE
        /\ s \in Slot
    BY <2>1, PlusVal
  <2>3. Dist(s, tail) = IF s >= tail THEN s - tail ELSE s - tail + KBD_BUF_SIZE
    BY <2>2, DistVal
  <2> HIDE DEF s
  <2>4. Dist(s, tail) = i - 1
    BY <2>1, <2>2, <2>3, KeyboardAssumption DEF Slot
  <2>5. buf[s] \in Char
    BY <2>1, <2>2, <2>4 DEF RingInv
  <2>6. QED
    BY <1>1, <2>5 DEF s
<1>3. Waiting \in Seq(Char)
  BY <1>1, <1>2 DEF Slot
<1>4. Pushing \in Seq(Char)
  BY DEF Pushing, RingInv
<1>5. Held \in Seq(Char)
  BY CharOfType DEF Held
<1>6. QED
  BY <1>3, <1>4, <1>5, CharsType

LEMMA StreamType ==
  ASSUME TypeOK, RingInv
  PROVE  Stream \in Seq(Char)
BY PartTypes, ConcatProperties DEF Stream

\* A scancode handed in by the keyboard joins the stream, unless the keyboard is
\* full.
Jammed == Len(devq) >= DevMax

LEMMA SendStream ==
  ASSUME TypeOK, RingInv, NEW s \in Scancode, Send(s), UNCHANGED <<obf, data, ring, hpc, hc>>
  PROVE  Stream' = IF Jammed THEN Stream ELSE Stream \o CharOf(s)
<1> DEFINE F == Waiting \o Pushing \o Held
<1>1. F \in Seq(Char) /\ Chars(devq) \in Seq(Char) /\ CharOf(s) \in Seq(Char)
  BY PartTypes, ConcatProperties, CharOfType
<1>2. F' = F
  BY DEF Waiting, Pushing, Held, ring
<1>3. Stream = F \o Chars(devq) /\ Stream' = F' \o Chars(devq')
  BY DEF Stream
<1> HIDE DEF F
<1>4. CASE Jammed
  <2>1. devq' = devq
    BY <1>4, KeyboardAssumption DEF Send, Jammed, TypeOK
  <2>2. QED
    BY <1>2, <1>3, <1>4, <2>1
<1>5. CASE ~Jammed
  <2>1. Chars(devq') = Chars(devq) \o CharOf(s)
    <3>1. devq' = Append(devq, s)
      BY <1>5, KeyboardAssumption DEF Send, Jammed, TypeOK
    <3>2. QED
      BY <3>1, CharsAppend DEF TypeOK
  <2>2. (F \o Chars(devq)) \o CharOf(s) = F \o (Chars(devq) \o CharOf(s))
    BY <1>1, TextsAssociative
  <2>3. QED
    BY <1>2, <1>3, <1>5, <2>1, <2>2
<1>6. QED
  BY <1>4, <1>5

\* A press types the character of the key, if it has one and there is room.
LEMMA PressStream ==
  ASSUME TypeOK, RingInv, NEW k \in Key, Press(k)
  PROVE  KS!Press(k)
<1> DEFINE s == [key |-> k, up |-> FALSE]
<1>1. s \in Scancode /\ s.key = k /\ ~s.up /\ Send(s)
  BY DEF Scancode, Press
<1> HIDE DEF s
<1>2. Stream' = IF Jammed THEN Stream ELSE Stream \o CharOf(s)
  BY <1>1, SendStream DEF Press
<1>3. Stream \in Seq(Char)
  BY StreamType
<1>4. CASE keymap[k] = NoChar
  <2>1. CharOf(s) = <<>>
    BY <1>1, <1>4 DEF CharOf, HasChar
  <2>2. Stream' = Stream
    BY <1>2, <1>3, <2>1, ConcatEmptySeq
  <2>3. QED
    BY <1>4, <2>2 DEF KS!Press, Press, Given
<1>5. CASE keymap[k] # NoChar
  <2>1. CharOf(s) = <<keymap[k]>> /\ keymap[k] \in Char
    BY <1>1, <1>5, KeyboardAssumption DEF CharOf, HasChar
  <2>2. Stream \o <<keymap[k]>> = Append(Stream, keymap[k])
    BY <1>3, <2>1, AppendIsConcat
  <2>3. QED
    BY <1>2, <1>5, <2>1, <2>2 DEF KS!Press, Press, Given, Jammed
<1>6. QED
  BY <1>4, <1>5

\* A release types nothing.
LEMMA ReleaseStream ==
  ASSUME TypeOK, RingInv, NEW k \in Key, Release(k)
  PROVE  KS!Release(k)
<1> DEFINE s == [key |-> k, up |-> TRUE]
<1>1. s \in Scancode /\ CharOf(s) = <<>> /\ Send(s)
  BY DEF Scancode, Release, CharOf, HasChar
<1> HIDE DEF s
<1>2. Stream' = IF Jammed THEN Stream ELSE Stream \o CharOf(s)
  BY <1>1, SendStream DEF Release
<1>3. Stream' = Stream
  BY <1>1, <1>2, StreamType, ConcatEmptySeq
<1>4. QED
  BY <1>3 DEF KS!Release, Release, Given

\* The controller takes the scancode at the front: no character moves past another.
LEMMA LoadStream ==
  ASSUME TypeOK, RingInv, Load
  PROVE  UNCHANGED <<shell, Stream>>
<1> USE DEF TypeOK
<1> DEFINE F == Waiting \o Pushing
<1> DEFINE e == CharOf(Head(devq))
<1>1. /\ Held = <<>> /\ Held' = e /\ Chars(devq) = e \o Chars(devq')
      /\ Waiting' = Waiting /\ Pushing' = Pushing /\ shell' = shell
  BY CharsHeadTail DEF Load, Held, Waiting, Pushing, ring
<1>2. e \in Seq(Char) /\ Chars(devq') \in Seq(Char) /\ F \in Seq(Char)
  <2>1. Head(devq) \in Scancode /\ devq' \in Seq(Scancode)
    BY HeadTailProperties DEF Load
  <2>2. QED
    BY <2>1, PartTypes, CharOfType, CharsType, ConcatProperties
<1>3. Stream = (F \o Held) \o Chars(devq) /\ Stream' = (F' \o Held') \o Chars(devq') /\ F' = F
  BY <1>1 DEF Stream
<1> HIDE DEF F, e
<1>4. F \o <<>> = F
  BY <1>2, ConcatEmptySeq
<1>5. (F \o e) \o Chars(devq') = F \o (e \o Chars(devq'))
  BY <1>2, TextsAssociative
<1>6. QED
  BY <1>1, <1>3, <1>4, <1>5

\* The handler takes the byte and its character with it.
LEMMA ReadStream ==
  ASSUME TypeOK, RingInv, HandlerRead, obf
  PROVE  UNCHANGED <<shell, Stream>>
<1>1. /\ Pushing = <<>> /\ Held = CharOf(data)
      /\ Pushing' = CharOf(data) /\ Held' = <<>>
      /\ Waiting' = Waiting /\ devq' = devq /\ shell' = shell
  BY DEF HandlerRead, Held, Waiting, Pushing, ring, CharOf
<1>2. CharOf(data) \in Seq(Char) /\ Waiting \in Seq(Char)
  BY PartTypes, CharOfType DEF TypeOK
<1>3. (Waiting \o <<>>) \o CharOf(data) = (Waiting \o CharOf(data)) \o <<>>
  <2>1. Waiting \o CharOf(data) \in Seq(Char)
    BY <1>2, ConcatProperties
  <2>2. QED
    BY <1>2, <2>1, ConcatEmptySeq
<1>4. QED
  BY <1>1, <1>3 DEF Stream

\* What Lose leaves of a stream with w in front of the lost character.
LEMMA Lost ==
  ASSUME NEW w \in Seq(Char), NEW ch \in Char, NEW u \in Seq(Char)
  PROVE  LET s == (w \o <<ch>>) \o u IN
         /\ Len(s) > Len(w)
         /\ w \o u = [i \in 1..(Len(s) - 1) |-> IF i <= Len(w) THEN s[i] ELSE s[i + 1]]
<1> DEFINE v == w \o <<ch>>
<1> DEFINE s == v \o u
<1> DEFINE r == w \o u
<1>1. /\ v \in Seq(Char) /\ Len(v) = Len(w) + 1
      /\ \A i \in 1..Len(w) : v[i] = w[i]
  <2>1. <<ch>> \in Seq(Char) /\ Len(<<ch>>) = 1
    OBVIOUS
  <2>2. QED
    BY <2>1, ConcatProperties
<1>2. /\ s \in Seq(Char) /\ Len(s) = Len(v) + Len(u)
      /\ \A i \in 1..(Len(v) + Len(u)) : s[i] = IF i <= Len(v) THEN v[i] ELSE u[i - Len(v)]
  <2> HIDE DEF v
  <2>1. QED
    BY <1>1, ConcatProperties
<1>3. /\ r \in Seq(Char) /\ Len(r) = Len(w) + Len(u)
      /\ \A i \in 1..(Len(w) + Len(u)) : r[i] = IF i <= Len(w) THEN w[i] ELSE u[i - Len(w)]
  BY ConcatProperties
<1> HIDE DEF v, s, r
<1>4. Len(s) - 1 = Len(r) /\ Len(s) > Len(w) /\ Len(w) \in Nat /\ Len(u) \in Nat
  BY <1>1, <1>2, <1>3
<1>5. ASSUME NEW i \in 1..Len(r) PROVE r[i] = IF i <= Len(w) THEN s[i] ELSE s[i + 1]
  <2>1. CASE i <= Len(w)
    BY <1>1, <1>2, <1>3, <1>4, <2>1
  <2>2. CASE i > Len(w)
    <3>1. /\ i + 1 \in 1..(Len(v) + Len(u)) /\ ~(i + 1 <= Len(v)) /\ ~(i <= Len(w))
          /\ (i + 1) - Len(v) = i - Len(w)
      BY <1>1, <1>3, <1>4, <2>2
    <3>2. s[i + 1] = u[(i + 1) - Len(v)] /\ r[i] = u[i - Len(w)]
      BY <1>2, <1>3, <3>1
    <3>3. QED
      BY <3>1, <3>2
  <2>3. QED
    BY <1>4, <2>1, <2>2
<1>6. r = [i \in 1..Len(r) |-> r[i]]
  BY <1>3
<1>7. r = [i \in 1..(Len(s) - 1) |-> IF i <= Len(w) THEN s[i] ELSE s[i + 1]]
  BY <1>4, <1>5, <1>6
<1>8. QED
  BY <1>4, <1>7 DEF s, v, r

\* A push moves the handler's character into the ring, or loses it with the
\* ring's capacity waiting in front of it.
LEMMA PushStream ==
  ASSUME TypeOK, TypeOK', RingInv, HandlerPush
  PROVE  KS!Lose \/ KS!Buffer
<1> DEFINE H == Held \o Chars(devq)
<1>1. /\ Pushing = <<hc>> /\ Pushing' = <<>> /\ Held' = Held /\ devq' = devq
      /\ shell' = shell /\ hc \in Char /\ down' = down /\ Given' = Given
  BY DEF HandlerPush, Pushing, Held, RingInv, device, Given
<1>2. /\ Waiting \in Seq(Char) /\ Held \in Seq(Char) /\ Chars(devq) \in Seq(Char)
      /\ H \in Seq(Char)
  BY PartTypes, ConcatProperties
<1>3. <<hc>> \in Seq(Char) /\ Waiting \o <<hc>> \in Seq(Char)
  <2>1. <<hc>> \in Seq(Char)
    BY <1>1
  <2>2. QED
    BY <1>2, <2>1, ConcatProperties
<1>4. Stream = (Waiting \o <<hc>>) \o H
  <2>1. ((Waiting \o <<hc>>) \o Held) \o Chars(devq) = (Waiting \o <<hc>>) \o (Held \o Chars(devq))
    BY <1>2, <1>3, TextsAssociative
  <2>2. QED
    BY <1>1, <2>1 DEF Stream
<1>5. Stream' = ((Waiting' \o <<>>) \o Held) \o Chars(devq)
  BY <1>1 DEF Stream
<1>6. CASE Waiting' = Append(Waiting, hc)
  <2>1. Waiting' = Waiting \o <<hc>>
    BY <1>1, <1>2, <1>6, AppendIsConcat
  <2>2. Waiting' \o <<>> = Waiting'
    BY <1>3, <2>1, ConcatEmptySeq
  <2>3. ((Waiting \o <<hc>>) \o Held) \o Chars(devq) = (Waiting \o <<hc>>) \o (Held \o Chars(devq))
    BY <1>2, <1>3, TextsAssociative
  <2>4. QED
    BY <1>1, <1>4, <1>5, <2>1, <2>2, <2>3 DEF KS!Buffer
<1>7. CASE Waiting' = Waiting /\ Len(Waiting) = KBD_BUF_SIZE - 1
  <2>1. Stream' = Waiting \o H
    <3>1. Waiting \o <<>> = Waiting
      BY <1>2, ConcatEmptySeq
    <3>2. (Waiting \o Held) \o Chars(devq) = Waiting \o (Held \o Chars(devq))
      BY <1>2, TextsAssociative
    <3>3. QED
      BY <1>5, <1>7, <3>1, <3>2
  <2> HIDE DEF H
  <2>2. /\ Len(Stream) > Len(Waiting)
        /\ Stream' = [i \in 1..(Len(Stream) - 1) |->
                        IF i <= Len(Waiting) THEN Stream[i] ELSE Stream[i + 1]]
    BY <1>1, <1>2, <1>4, <2>1, Lost
  <2>3. QED
    BY <1>1, <1>7, <2>2 DEF KS!Lose
<1>8. QED
  BY <1>1, <1>6, <1>7, PushWaiting

\* keyboard_getchar takes the oldest character of the stream.
LEMMA AdvanceStream ==
  ASSUME TypeOK, TypeOK', RingInv, GetAdvance
  PROVE  Stream # <<>> /\ Stream' = Tail(Stream) /\ c = Head(Stream)
<1> DEFINE U == Pushing \o (Held \o Chars(devq))
<1>1. Waiting # <<>> /\ Waiting' = Tail(Waiting) /\ c = Head(Waiting)
  BY AdvanceWaiting
<1>2. /\ Waiting \in Seq(Char) /\ Pushing \in Seq(Char) /\ Held \in Seq(Char)
      /\ Chars(devq) \in Seq(Char) /\ Waiting' \in Seq(Char) /\ U \in Seq(Char)
      /\ Held \o Chars(devq) \in Seq(Char)
  <2>1. Waiting' \in Seq(Char)
    BY <1>1, PartTypes, HeadTailProperties
  <2>2. Held \o Chars(devq) \in Seq(Char)
    BY PartTypes, ConcatProperties
  <2>3. QED
    BY <2>1, <2>2, PartTypes, ConcatProperties
<1>3. Pushing' = Pushing /\ Held' = Held /\ Chars(devq') = Chars(devq)
  BY DEF GetAdvance, Pushing, Held, device
<1>4. Stream = Waiting \o U /\ Stream' = Waiting' \o U
  <2>1. ASSUME NEW w \in Seq(Char)
        PROVE  ((w \o Pushing) \o Held) \o Chars(devq) = w \o U
    <3>1. w \o Pushing \in Seq(Char)
      BY <1>2, ConcatProperties
    <3>2. ((w \o Pushing) \o Held) \o Chars(devq) = (w \o Pushing) \o (Held \o Chars(devq))
      BY <1>2, <3>1, TextsAssociative
    <3>3. (w \o Pushing) \o (Held \o Chars(devq)) = w \o (Pushing \o (Held \o Chars(devq)))
      BY <1>2, TextsAssociative
    <3>4. QED
      BY <3>2, <3>3
  <2>2. QED
    BY <1>2, <1>3, <2>1 DEF Stream
<1> HIDE DEF U
<1>5. ASSUME NEW w \in Seq(Char), NEW u \in Seq(Char), w # <<>>
      PROVE  w \o u # <<>> /\ Tail(w \o u) = Tail(w) \o u /\ Head(w \o u) = Head(w)
  <2> DEFINE s == w \o u
  <2> DEFINE t == Tail(w)
  <2>1. /\ s \in Seq(Char) /\ Len(s) = Len(w) + Len(u) /\ Len(w) \in Nat \ {0}
        /\ \A i \in 1..(Len(w) + Len(u)) : s[i] = IF i <= Len(w) THEN w[i] ELSE u[i - Len(w)]
    BY <1>5, ConcatProperties, EmptySeq
  <2>2. /\ t \in Seq(Char) /\ Len(t) = Len(w) - 1
        /\ \A i \in 1..Len(t) : t[i] = w[i + 1]
    BY <1>5, HeadTailProperties
  <2>3. /\ t \o u \in Seq(Char) /\ Len(t \o u) = Len(t) + Len(u)
        /\ \A i \in 1..(Len(t) + Len(u)) : (t \o u)[i] = IF i <= Len(t) THEN t[i] ELSE u[i - Len(t)]
    BY <1>5, <2>2, ConcatProperties
  <2> HIDE DEF s, t
  <2>4. s # <<>>
    BY <2>1
  <2>5. /\ Tail(s) \in Seq(Char) /\ Len(Tail(s)) = Len(s) - 1
        /\ \A i \in 1..Len(Tail(s)) : Tail(s)[i] = s[i + 1]
    BY <2>1, <2>4, HeadTailProperties
  <2>6. Len(Tail(s)) = Len(t \o u)
    BY <2>1, <2>2, <2>3, <2>5
  <2>7. ASSUME NEW i \in 1..Len(t \o u) PROVE Tail(s)[i] = (t \o u)[i]
    <3>1. Tail(s)[i] = s[i + 1] /\ i + 1 \in 1..(Len(w) + Len(u)) /\ i \in 1..(Len(t) + Len(u))
      BY <2>1, <2>2, <2>3, <2>5, <2>6
    <3>2. CASE i <= Len(t)
      BY <2>1, <2>2, <2>3, <3>1, <3>2
    <3>3. CASE ~(i <= Len(t))
      <4>1. (i + 1) - Len(w) = i - Len(t) /\ ~(i + 1 <= Len(w))
        BY <2>1, <2>2, <3>1, <3>3
      <4>2. s[i + 1] = u[(i + 1) - Len(w)] /\ (t \o u)[i] = u[i - Len(t)]
        BY <2>1, <2>3, <3>1, <3>3, <4>1
      <4>3. QED
        BY <3>1, <4>1, <4>2
    <3>4. QED
      BY <3>2, <3>3
  <2>8. Tail(s) = t \o u
    BY <2>3, <2>5, <2>6, <2>7, SeqEqual
  <2>9. Head(s) = Head(w)
    BY <1>5, <2>1, <2>4
  <2>10. QED
    BY <2>4, <2>8, <2>9 DEF s, t
<1>6. QED
  BY <1>1, <1>2, <1>4, <1>5

\* A step that touches no part of the stream.
LEMMA StreamSame ==
  ASSUME UNCHANGED <<ring, hpc, hc, obf, data, devq>>
  PROVE  UNCHANGED Stream
BY DEF Stream, Waiting, Pushing, Held, ring

\* What the stream's specification sees of a state.
Seen == <<shell, down, Jammed, Stream, Given>>

\* Every step of the keyboard path is a step of the stream or none.
LEMMA StreamStep ==
  ASSUME IInv, IInv', RingInv, RingInv', [Next]_vars
  PROVE  [KS!Next]_Seen
<1> USE DEF IInv
<1>1. (Len(devq) >= DevMax)' \in BOOLEAN
  OBVIOUS
<1>2. ASSUME KS!Buffer \/ KS!Lose \/ KS!Flush \/ KS!Open \/ KS!Use \/ KS!Deliver
      PROVE  [KS!Next]_Seen
  BY <1>1, <1>2 DEF KS!Next
<1>3. ASSUME NEW k \in Key, Press(k) \/ Release(k) PROVE [KS!Next]_Seen
  BY <1>1, <1>3, PressStream, ReleaseStream DEF KS!Next
<1>4. ASSUME ~shell, UNCHANGED <<shell, down, Given>> PROVE KS!Flush
  <2>1. (TypeOK /\ RingInv => Stream \in Seq(Char))'
    BY StreamType, PTL
  <2>2. QED
    BY <1>4, <2>1 DEF KS!Flush
<1>5. ASSUME UNCHANGED <<shell, down, Stream, Given>> PROVE KS!Buffer
  BY <1>5 DEF KS!Buffer
<1>6. CASE Load
  BY <1>2, <1>5, <1>6, LoadStream DEF Load, Given
<1>7. CASE TakeIrq1
  <2>1. Pushing' = Pushing /\ Given' = Given
    BY <1>7 DEF TakeIrq1, Pushing, Given
  <2>2. UNCHANGED <<shell, down, Stream>>
    BY <1>7, <2>1 DEF TakeIrq1, Stream, Waiting, Held, device, ring
  <2>3. QED
    BY <1>2, <1>5, <2>1, <2>2
<1>8. CASE HandlerRead
  <2>1. Given' = Given /\ down' = down
    BY <1>8 DEF HandlerRead, Given
  <2>2. CASE obf
    BY <1>2, <1>5, <1>8, <2>1, <2>2, ReadStream
  <2>3. CASE ~obf
    <3>1. ~shell /\ shell' = shell
      BY <1>8, <2>3 DEF OneByteEach, HandlerRead
    <3>2. QED
      BY <1>2, <1>4, <2>1, <3>1
  <2>4. QED
    BY <2>2, <2>3
<1>9. CASE HandlerPush
  BY <1>2, <1>9, PushStream
<1>10. CASE HandlerEoi \/ HandlerIret
  <2>1. /\ Pushing' = Pushing /\ Waiting' = Waiting /\ Held' = Held
        /\ devq' = devq /\ shell' = shell /\ down' = down /\ Given' = Given
    BY <1>10 DEF HandlerEoi, HandlerIret, Pushing, Waiting, Held, device, ring, Given
  <2>2. UNCHANGED Stream
    BY <2>1 DEF Stream
  <2>3. QED
    BY <1>2, <1>5, <2>1, <2>2
<1>11. CASE Drain
  <2>1. ~shell /\ UNCHANGED <<shell, down, Given>>
    BY <1>11 DEF Drain, At, ProgramPlace, BootPc, Given
  <2>2. QED
    BY <1>2, <1>4, <2>1
<1>12. CASE Discard
  <2>1. ~shell /\ shell' \in BOOLEAN /\ down' = down /\ Given = NoChar /\ Given' = NoChar
    BY <1>12 DEF Discard, At, ProgramPlace, BootPc, TypeOK, device, Given
  <2>2. UNCHANGED Stream
    BY <1>12, StreamSame DEF Discard, device
  <2>3. KS!Open \/ KS!Buffer
    BY <2>1, <2>2 DEF KS!Open, KS!Buffer, TypeOK
  <2>4. QED
    BY <1>2, <2>3
<1>13. CASE GetAdvance
  <2>1. /\ Stream # <<>> /\ Stream' = Tail(Stream) /\ c = Head(Stream)
        /\ shell' = shell /\ down' = down /\ c' = c /\ pc = "advance" /\ pc' = "got"
    BY <1>13, AdvanceStream DEF GetAdvance, At, device
  <2>2. CASE shell
    <3>1. Given = NoChar /\ Given' = Head(Stream)
      BY <2>1, <2>2 DEF Given
    <3>2. KS!Deliver
      BY <2>1, <2>2, <3>1 DEF KS!Deliver
    <3>3. QED
      BY <1>2, <3>2
  <2>3. CASE ~shell
    <3>1. Given' = Given
      BY <2>1, <2>3 DEF Given
    <3>2. QED
      BY <1>2, <1>4, <2>1, <2>3, <3>1
  <2>4. QED
    BY <2>2, <2>3
<1>14. CASE Got
  <2>1. UNCHANGED <<shell, down, Stream>> /\ Given' = NoChar
    BY <1>14, StreamSame DEF Got, device, Given
  <2>2. KS!Use \/ KS!Buffer
    BY <2>1 DEF KS!Use, KS!Buffer
  <2>3. QED
    BY <1>2, <2>2
<1>15. CASE PicInit \/ BootUnmask \/ SetGate \/ Sti \/ GetCheck \/ GetHlt \/ GetLoad
  <2>1. UNCHANGED <<shell, down, Stream>>
    BY <1>15, StreamSame
    DEF PicInit, BootUnmask, SetGate, Sti, GetCheck, GetHlt, GetLoad, device
  <2>2. Given' = Given
    BY <1>15 DEF PicInit, BootUnmask, SetGate, Sti, GetCheck, GetHlt, GetLoad, At, Given
  <2>3. QED
    BY <1>2, <1>5, <2>1, <2>2
<1>16. CASE CommandDone \/ RunProgram \/ UserReturns \/ RunUnmask
  <2>1. UNCHANGED <<shell, down, Stream>>
    BY <1>16, StreamSame DEF CommandDone, RunProgram, UserReturns, RunUnmask, device
  <2>2. Given' = Given
    BY <1>16 DEF CommandDone, RunProgram, UserReturns, RunUnmask, At, Given
  <2>3. QED
    BY <1>2, <1>5, <2>1, <2>2
<1>17. CASE UNCHANGED vars
  <2>1. UNCHANGED <<shell, down, Stream, Given>>
    BY <1>17, StreamSame DEF vars, device, Given
  <2>2. QED
    BY <1>2, <1>5, <2>1
<1>18. QED
  BY <1>3, <1>6, <1>7, <1>8, <1>9, <1>10, <1>11, <1>12, <1>13, <1>14, <1>15, <1>16, <1>17
  DEF Next, Device, Handler, Kernel

\* The keyboard path is a FIFO from the keys to the shell: what keyboard_getchar
\* returns is the oldest character pressed, and one is lost only behind a full ring
\* or at a full keyboard, for every size of both.
THEOREM KeyboardIsStream == Spec => ImplementsKeyStream
<1>1. Init => KS!Init
  <2> SUFFICES ASSUME Init PROVE KS!Init
    OBVIOUS
  <2>1. TypeOK /\ RingInv
    BY InitIInv, RingInit DEF IInv
  <2>2. (Len(devq) >= DevMax) \in BOOLEAN
    OBVIOUS
  <2>3. Stream \in Seq(Char)
    BY <2>1, StreamType
  <2>4. QED
    BY <2>2, <2>3 DEF KS!Init, Init, Given
<1>2. IInv /\ IInv' /\ RingInv /\ RingInv' /\ [Next]_vars => [KS!Next]_Seen
  BY StreamStep
<1>3. [KS!Next]_Seen => [KS!Next]_(KS!svars)
  BY DEF Seen, KS!svars, Jammed
<1>4. Spec => []RingInv
  BY RingInit, RingInvStep, Typing, PTL DEF Spec
<1>5. QED
  BY <1>1, <1>2, <1>3, <1>4, Invariance, PTL DEF Spec, ImplementsKeyStream, KS!Spec
=============================================================================
