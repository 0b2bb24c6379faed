-------------------------- MODULE Programs_proofs --------------------------
(***************************************************************************)
(* Proofs about Programs, for every size of the file table and the heap.   *)
(***************************************************************************)
EXTENDS Programs, TLAPS

\* The inductive invariant: the type is what the accounting needs, and only a
\* running program holds anything, so a prompt takes nothing from anybody.
IInv ==
  /\ TypeOK /\ FdMeansItsFile /\ TableAccounted /\ HeapAccounted
  /\ pc = "shell" => held = NoHandles /\ blocks = {}

\* alloc_fd gives a slot of the table, and one that nobody uses.
LEMMA AllocFdFree == AllocFd \subseteq Fd \ Used
BY DEF AllocFd, FirstOf

\* What writing one slot does to the table.
LEMMA SlotWritten ==
  ASSUME TypeOK, NEW fd \in Fd, NEW r \in Kfile, kfiles' = [kfiles EXCEPT ![fd] = r]
  PROVE  /\ kfiles' \in [Fd -> Kfile]
         /\ kfiles'[fd] = r
         /\ \A i \in Fd \ {fd} : kfiles'[i] = kfiles[i]
         /\ r.used => Used' = Used \cup {fd}
         /\ ~r.used => Used' = Used \ {fd}
<1>1. kfiles' \in [Fd -> Kfile] /\ kfiles'[fd] = r /\ \A i \in Fd \ {fd} : kfiles'[i] = kfiles[i]
  BY DEF TypeOK
<1>2. Used' = {i \in Fd : kfiles'[i].used}
  BY DEF Used
<1>3. \A i \in Fd \ {fd} : i \in Used' <=> i \in Used
  BY <1>1, <1>2, Zenon DEF Used
<1>4. fd \in Used' <=> r.used
  BY <1>1, <1>2, Zenon
<1>5. Used \subseteq Fd /\ Used' \subseteq Fd
  BY <1>2 DEF Used
<1>6. QED
  BY <1>1, <1>3, <1>4, <1>5, Zenon

\* A failed open leaves every slot that is used as it was, and no other used.
LEMMA OpenFailsLeaves ==
  ASSUME TypeOK, NEW f, NEW found, FsOpenFails(f, found)
  PROVE  kfiles' \in [Fd -> Kfile] /\ Used' = Used /\ \A i \in Used : kfiles'[i] = kfiles[i]
<1>1. CASE UNCHANGED kfiles
  BY <1>1 DEF TypeOK, Used
<1>2. CASE \E fd \in AllocFd : kfiles' = Reclaimed(fd)
  <2>1. PICK fd \in AllocFd : kfiles' = Reclaimed(fd)
    BY <1>2
  <2>2. fd \in Fd /\ fd \notin Used
    BY AllocFdFree
  <2> DEFINE r == Slot(FALSE, kfiles[fd].first_unit, 0)
  <2>3. r \in Kfile /\ ~r.used /\ kfiles' = [kfiles EXCEPT ![fd] = r]
    BY <2>1, <2>2, ProgramsAssumption DEF TypeOK, Kfile, Slot, Reclaimed
  <2> HIDE DEF r
  <2>4. QED
    BY <2>2, <2>3, SlotWritten DEF Used
<1>3. QED
  BY <1>1, <1>2 DEF FsOpenFails

\* The initial states satisfy the inductive invariant.
LEMMA InitIInv == Init => IInv
<1> SUFFICES ASSUME Init PROVE IInv
  OBVIOUS
<1>1. TypeOK
  BY ProgramsAssumption DEF Init, TypeOK, Kfile, Slot, NoHandles
<1>2. Used = {} /\ {b \in Block : uheap[b]} = {}
  BY DEF Init, Used, Slot
<1>3. QED
  BY <1>1, <1>2 DEF Init, IInv, FdMeansItsFile, TableAccounted, HeapAccounted, NoHandles

\* A program start writes one free slot and leaves it free.
LEMMA RunStep ==
  ASSUME IInv, RunFile \/ RunFileReadError
  PROVE  IInv'
<1>1. PICK f \in File, fd \in AllocFd, n \in {0, 1} :
        prog' = f /\ kfiles' = [kfiles EXCEPT ![fd] = Slot(FALSE, f, n)]
  BY DEF RunFile, RunFileReadError
<1>2. fd \in Fd /\ fd \notin Used
  BY AllocFdFree
<1>3. Slot(FALSE, f, n) \in Kfile /\ ~Slot(FALSE, f, n).used
  BY ProgramsAssumption DEF Slot, Kfile
<1>4. /\ kfiles' \in [Fd -> Kfile] /\ Used' = Used
      /\ \A i \in Used : kfiles'[i] = kfiles[i]
  BY <1>1, <1>2, <1>3, SlotWritten DEF IInv, Used
<1>5. progmem' \in {Image(g, 1) : g \in File} \cup {Garbled}
  BY DEF IInv, TypeOK, RunFile, RunFileReadError
<1>6. /\ pc' = "running"
      /\ UNCHANGED <<mounted, lostFds, uheap, blocks, lostBlocks, held>>
  BY DEF RunFile, RunFileReadError, heap
<1>7. TypeOK'
  BY <1>1, <1>4, <1>5, <1>6 DEF IInv, TypeOK
<1>8. DOMAIN held \subseteq Used
  BY DEF IInv, TableAccounted
<1>9. FdMeansItsFile' /\ TableAccounted' /\ HeapAccounted'
  BY <1>4, <1>6, <1>8 DEF IInv, TypeOK, FdMeansItsFile, TableAccounted, HeapAccounted
<1>10. QED
  BY <1>6, <1>7, <1>9 DEF IInv

\* A failed open takes nothing and gives nothing.
LEMMA OpenFailsStep ==
  ASSUME IInv, RunFileFails \/ SysOpenFails
  PROVE  IInv'
<1>1. PICK f, found : FsOpenFails(f, found)
  BY DEF RunFileFails, SysOpenFails
<1>2. /\ kfiles' \in [Fd -> Kfile] /\ Used' = Used
      /\ \A i \in Used : kfiles'[i] = kfiles[i]
  BY <1>1, OpenFailsLeaves DEF IInv
<1>3. UNCHANGED <<mounted, lostFds, uheap, blocks, lostBlocks, progmem, pc, prog, held>>
  BY DEF RunFileFails, SysOpenFails, heap
<1>4. TypeOK' /\ HeapAccounted'
  BY <1>2, <1>3 DEF IInv, TypeOK, HeapAccounted
<1>5. DOMAIN held \subseteq Used
  BY DEF IInv, TableAccounted
<1>6. FdMeansItsFile' /\ TableAccounted'
  BY <1>2, <1>3, <1>5 DEF IInv, FdMeansItsFile, TableAccounted
<1>7. QED
  BY <1>3, <1>4, <1>6 DEF IInv

\* An open gives the program a free slot.
LEMMA OpenStep == ASSUME IInv, SysOpen PROVE IInv'
<1>1. PICK f \in File, fd \in AllocFd :
        /\ FsOpens(fd, f)
        /\ held' = [h \in DOMAIN held \cup {fd} |-> IF h = fd THEN f ELSE held[h]]
  BY DEF SysOpen
<1>2. fd \in Fd /\ fd \notin Used
  BY AllocFdFree
<1>3. Slot(TRUE, f, 0) \in Kfile /\ Slot(TRUE, f, 0).used /\ Slot(TRUE, f, 0).first_unit = f
  BY ProgramsAssumption DEF Slot, Kfile
<1>4. kfiles' = [kfiles EXCEPT ![fd] = Slot(TRUE, f, 0)]
  BY <1>1 DEF FsOpens, Opened
<1>5. /\ kfiles' \in [Fd -> Kfile] /\ kfiles'[fd] = Slot(TRUE, f, 0)
      /\ \A i \in Fd \ {fd} : kfiles'[i] = kfiles[i]
      /\ Used' = Used \cup {fd}
  BY <1>2, <1>3, <1>4, SlotWritten DEF IInv
<1>6. /\ pc = "running"
      /\ UNCHANGED <<mounted, lostFds, uheap, blocks, lostBlocks, progmem, pc, prog>>
  BY DEF SysOpen, heap
<1>7. DOMAIN held' = DOMAIN held \cup {fd} /\ held'[fd] = f /\ \A h \in DOMAIN held \ {fd} : held'[h] = held[h]
  BY <1>1
<1>8. TypeOK'
  BY <1>2, <1>5, <1>6, <1>7 DEF IInv, TypeOK
<1>9. FdMeansItsFile'
  BY <1>3, <1>5, <1>7 DEF IInv, TypeOK, FdMeansItsFile
<1>10. TableAccounted' /\ HeapAccounted'
  BY <1>2, <1>5, <1>6, <1>7 DEF IInv, TableAccounted, HeapAccounted
<1>11. QED
  BY <1>6, <1>8, <1>9, <1>10 DEF IInv

\* A read moves the position of a slot that stays what it is.
LEMMA ReadStep == ASSUME IInv, SysRead PROVE IInv'
<1>1. PICK fd \in DOMAIN held :
        /\ kfiles[fd].used /\ kfiles[fd].pos < PosMax
        /\ kfiles' = [kfiles EXCEPT ![fd] = Slot(TRUE, kfiles[fd].first_unit, kfiles[fd].pos + 1)]
  BY DEF SysRead
<1> DEFINE r == Slot(TRUE, kfiles[fd].first_unit, kfiles[fd].pos + 1)
<1>2. fd \in Fd /\ fd \in Used
  BY <1>1 DEF IInv, TypeOK, Used
<1>3. r \in Kfile /\ r.used /\ r.first_unit = kfiles[fd].first_unit
  BY <1>1, <1>2, ProgramsAssumption DEF IInv, TypeOK, Slot, Kfile
<1>4. kfiles' = [kfiles EXCEPT ![fd] = r]
  BY <1>1
<1> HIDE DEF r
<1>5. /\ kfiles' \in [Fd -> Kfile] /\ kfiles'[fd] = r
      /\ \A i \in Fd \ {fd} : kfiles'[i] = kfiles[i]
      /\ Used' = Used \cup {fd}
  BY <1>2, <1>3, <1>4, SlotWritten DEF IInv
<1>6. UNCHANGED <<mounted, lostFds, uheap, blocks, lostBlocks, progmem, pc, prog, held>>
  BY DEF SysRead, heap
<1>7. TypeOK' /\ TableAccounted' /\ HeapAccounted'
  BY <1>2, <1>5, <1>6 DEF IInv, TypeOK, TableAccounted, HeapAccounted
<1>8. FdMeansItsFile'
  BY <1>3, <1>5, <1>6 DEF IInv, TypeOK, FdMeansItsFile
<1>9. QED
  BY <1>6, <1>7, <1>8 DEF IInv

\* A close takes a slot from the program that has it.
LEMMA CloseStep == ASSUME IInv, SysClose PROVE IInv'
<1>1. PICK fd \in DOMAIN held :
        /\ kfiles[fd].used /\ kfiles' = Closed(fd)
        /\ held' = [h \in DOMAIN held \ {fd} |-> held[h]]
  BY DEF SysClose
<1> DEFINE r == Slot(FALSE, kfiles[fd].first_unit, kfiles[fd].pos)
<1>2. fd \in Fd /\ fd \notin lostFds
  BY <1>1 DEF IInv, TypeOK, TableAccounted
<1>3. r \in Kfile /\ ~r.used
  BY <1>2, ProgramsAssumption DEF IInv, TypeOK, Slot, Kfile
<1>4. kfiles' = [kfiles EXCEPT ![fd] = r]
  BY <1>1 DEF Closed
<1> HIDE DEF r
<1>5. /\ kfiles' \in [Fd -> Kfile] /\ Used' = Used \ {fd}
      /\ \A i \in Fd \ {fd} : kfiles'[i] = kfiles[i]
  BY <1>2, <1>3, <1>4, SlotWritten DEF IInv
<1>6. UNCHANGED <<mounted, lostFds, uheap, blocks, lostBlocks, progmem, pc, prog>> /\ pc = "running"
  BY DEF SysClose, heap
<1>7. DOMAIN held' = DOMAIN held \ {fd} /\ \A h \in DOMAIN held' : held'[h] = held[h]
  BY <1>1
<1>8. TypeOK' /\ HeapAccounted'
  BY <1>5, <1>6, <1>7 DEF IInv, TypeOK, HeapAccounted
<1>9. FdMeansItsFile' /\ TableAccounted'
  BY <1>2, <1>5, <1>6, <1>7 DEF IInv, TypeOK, FdMeansItsFile, TableAccounted
<1>10. QED
  BY <1>6, <1>8, <1>9 DEF IInv

\* umalloc and ufree move one block between the heap and the program.
LEMMA HeapStep == ASSUME IInv, SysUmalloc \/ SysUfree PROVE IInv'
<1>1. /\ pc = "running"
      /\ UNCHANGED <<mounted, kfiles, lostFds, lostBlocks, progmem, pc, prog, held>>
  BY DEF SysUmalloc, SysUfree, table
<1>2. FdMeansItsFile' /\ TableAccounted'
  BY <1>1 DEF IInv, FdMeansItsFile, TableAccounted, Used
<1>3. CASE SysUmalloc
  <2>1. PICK b \in FreeBlocks :
          uheap' = [uheap EXCEPT ![b] = TRUE] /\ blocks' = blocks \cup {b}
    BY <1>3 DEF SysUmalloc, FirstOf
  <2>2. b \in Block /\ ~uheap[b]
    BY DEF FreeBlocks
  <2>3. /\ uheap' \in [Block -> BOOLEAN]
        /\ {x \in Block : uheap'[x]} = {x \in Block : uheap[x]} \cup {b}
    BY <2>1, <2>2 DEF IInv, TypeOK
  <2>4. b \notin lostBlocks
    BY <2>2 DEF IInv, HeapAccounted
  <2>5. HeapAccounted'
    BY <1>1, <2>1, <2>3, <2>4 DEF IInv, HeapAccounted
  <2>6. TypeOK'
    BY <1>1, <2>1, <2>2, <2>3 DEF IInv, TypeOK
  <2>7. QED
    BY <1>1, <1>2, <2>5, <2>6 DEF IInv
<1>4. CASE SysUfree
  <2>1. PICK b \in blocks :
          uheap' = [uheap EXCEPT ![b] = FALSE] /\ blocks' = blocks \ {b}
    BY <1>4 DEF SysUfree
  <2>2. b \in Block /\ b \notin lostBlocks
    BY DEF IInv, TypeOK, HeapAccounted
  <2>3. /\ uheap' \in [Block -> BOOLEAN]
        /\ {x \in Block : uheap'[x]} = {x \in Block : uheap[x]} \ {b}
    BY <2>1, <2>2 DEF IInv, TypeOK
  <2>4. HeapAccounted'
    BY <1>1, <2>1, <2>2, <2>3 DEF IInv, HeapAccounted
  <2>5. TypeOK'
    BY <1>1, <2>1, <2>3 DEF IInv, TypeOK
  <2>6. QED
    BY <1>1, <1>2, <2>4, <2>5 DEF IInv
<1>5. QED
  BY <1>3, <1>4

\* What a returning program held is lost, and still accounted for.
LEMMA ReturnStep == ASSUME IInv, ProgramReturns PROVE IInv'
<1>1. UNCHANGED <<kfiles, uheap>> /\ Used' = Used
  BY DEF ProgramReturns, Used
<1>2. TypeOK'
  BY <1>1 DEF IInv, TypeOK, ProgramReturns, NoHandles
<1>3. FdMeansItsFile' /\ TableAccounted' /\ HeapAccounted'
  BY <1>1 DEF IInv, ProgramReturns, FdMeansItsFile, TableAccounted, HeapAccounted, NoHandles
<1>4. QED
  BY <1>2, <1>3 DEF IInv, ProgramReturns

\* Every step preserves the inductive invariant.
LEMMA StepIInv == IInv /\ [Next]_vars => IInv'
<1> SUFFICES ASSUME IInv, [Next]_vars PROVE IInv'
  OBVIOUS
<1>1. CASE UNCHANGED vars
  BY <1>1 DEF vars, table, heap, IInv, TypeOK, FdMeansItsFile, TableAccounted, HeapAccounted, Used
<1>2. CASE Next
  BY <1>2, RunStep, OpenFailsStep, OpenStep, ReadStep, CloseStep, HeapStep, ReturnStep DEF Next
<1>3. QED
  BY <1>1, <1>2

\* IInv holds in every reachable state.
THEOREM Invariance == Spec => []IInv
BY InitIInv, StepIInv, PTL DEF Spec

\* Every variable always has its type.
THEOREM Typing == Spec => []TypeOK
<1>1. IInv => TypeOK
  BY DEF IInv
<1>2. QED
  BY Invariance, <1>1, PTL

\* A descriptor always means to fs_file.c what it means to the program.
THEOREM FdSafe == Spec => []FdMeansItsFile
<1>1. IInv => FdMeansItsFile
  BY DEF IInv
<1>2. QED
  BY Invariance, <1>1, PTL

\* The used slots are always those that programs hold or left open.
THEOREM TableExact == Spec => []TableAccounted
<1>1. IInv => TableAccounted
  BY DEF IInv
<1>2. QED
  BY Invariance, <1>1, PTL

\* The used blocks are always those that programs hold or left.
THEOREM HeapExact == Spec => []HeapAccounted
<1>1. IInv => HeapAccounted
  BY DEF IInv
<1>2. QED
  BY Invariance, <1>1, PTL

-----------------------------------------------------------------------------
(* The file table implements Handles.                                      *)

Live == [fd \in Used |-> kfiles[fd].first_unit]

\* A slot that is not used has no handle; used slots left alone keep theirs.
LEMMA LiveKept ==
  ASSUME Used' = Used, \A i \in Used : kfiles'[i].first_unit = kfiles[i].first_unit
  PROVE  Live' = Live
BY DEF Live

\* Every step of the table is a step of Handles or leaves its handles alone.
LEMMA HandlesStep == IInv /\ [Next]_vars => [H!Next]_Live
<1> SUFFICES ASSUME IInv, [Next]_vars PROVE [H!Next]_Live
  OBVIOUS
<1>1. CASE RunFile \/ RunFileReadError
  <2>1. PICK f \in File, fd \in AllocFd, n \in {0, 1} :
          kfiles' = [kfiles EXCEPT ![fd] = Slot(FALSE, f, n)]
    BY <1>1 DEF RunFile, RunFileReadError
  <2>2. fd \in Fd /\ fd \notin Used /\ Slot(FALSE, f, n) \in Kfile /\ ~Slot(FALSE, f, n).used
    BY AllocFdFree, ProgramsAssumption DEF Slot, Kfile
  <2>3. Used' = Used /\ \A i \in Used : kfiles'[i] = kfiles[i]
    BY <2>1, <2>2, SlotWritten DEF IInv, Used
  <2>4. QED
    BY <2>3, LiveKept
<1>2. CASE RunFileFails \/ SysOpenFails
  <2>1. PICK f, found : FsOpenFails(f, found)
    BY <1>2 DEF RunFileFails, SysOpenFails
  <2>2. QED
    BY <2>1, OpenFailsLeaves, LiveKept DEF IInv
<1>3. CASE SysOpen
  <2>1. PICK f \in File, fd \in AllocFd : FsOpens(fd, f)
    BY <1>3 DEF SysOpen
  <2>2. /\ fd \in Fd /\ fd \notin Used
        /\ Slot(TRUE, f, 0) \in Kfile /\ Slot(TRUE, f, 0).used
        /\ Slot(TRUE, f, 0).first_unit = f
    BY AllocFdFree, ProgramsAssumption DEF Slot, Kfile
  <2>3. kfiles' = [kfiles EXCEPT ![fd] = Slot(TRUE, f, 0)]
    BY <2>1 DEF FsOpens, Opened
  <2>4. /\ kfiles'[fd].first_unit = f /\ Used' = Used \cup {fd}
        /\ \A i \in Fd \ {fd} : kfiles'[i] = kfiles[i]
    BY <2>2, <2>3, SlotWritten DEF IInv
  <2>5. Used \subseteq Fd
    BY DEF Used
  <2>6. Live' = [g \in Used \cup {fd} |-> IF g = fd THEN f ELSE Live[g]]
    BY <2>4, <2>5 DEF Live
  <2>7. DOMAIN Live = Used
    BY DEF Live
  <2>8. H!Open(fd, f)
    BY <2>2, <2>6, <2>7 DEF H!Open, Live
  <2>9. QED
    BY <2>2, <2>8 DEF H!Next
<1>4. CASE SysRead
  <2>1. PICK fd \in DOMAIN held :
          /\ kfiles[fd].used /\ kfiles[fd].pos < PosMax
          /\ kfiles' = [kfiles EXCEPT ![fd] = Slot(TRUE, kfiles[fd].first_unit, kfiles[fd].pos + 1)]
    BY <1>4 DEF SysRead
  <2> DEFINE r == Slot(TRUE, kfiles[fd].first_unit, kfiles[fd].pos + 1)
  <2>2. /\ fd \in Fd /\ fd \in Used
        /\ r \in Kfile /\ r.used /\ r.first_unit = kfiles[fd].first_unit
    BY <2>1, ProgramsAssumption DEF IInv, TypeOK, Used, Slot, Kfile
  <2>3. kfiles' = [kfiles EXCEPT ![fd] = r]
    BY <2>1
  <2> HIDE DEF r
  <2>4. /\ kfiles'[fd] = r /\ Used' = Used \cup {fd}
        /\ \A i \in Fd \ {fd} : kfiles'[i] = kfiles[i]
    BY <2>2, <2>3, SlotWritten DEF IInv
  <2>5. QED
    BY <2>2, <2>4, LiveKept DEF Used
<1>5. CASE SysClose
  <2>1. PICK fd \in DOMAIN held : kfiles[fd].used /\ kfiles' = Closed(fd)
    BY <1>5 DEF SysClose
  <2> DEFINE r == Slot(FALSE, kfiles[fd].first_unit, kfiles[fd].pos)
  <2>2. fd \in Fd /\ fd \in Used /\ r \in Kfile /\ ~r.used
    BY <2>1, ProgramsAssumption DEF IInv, TypeOK, Used, Slot, Kfile
  <2>3. kfiles' = [kfiles EXCEPT ![fd] = r]
    BY <2>1 DEF Closed
  <2> HIDE DEF r
  <2>4. Used' = Used \ {fd} /\ \A i \in Fd \ {fd} : kfiles'[i] = kfiles[i]
    BY <2>2, <2>3, SlotWritten DEF IInv
  <2>5. Used \subseteq Fd /\ DOMAIN Live = Used
    BY DEF Used, Live
  <2>6. Live' = [g \in Used \ {fd} |-> Live[g]]
    BY <2>4, <2>5 DEF Live
  <2>7. H!Close(fd)
    BY <2>2, <2>5, <2>6 DEF H!Close, Live
  <2>8. QED
    BY <2>2, <2>7 DEF H!Next
<1>6. CASE ProgramReturns \/ SysUmalloc \/ SysUfree \/ UNCHANGED vars
  <2>1. UNCHANGED kfiles
    BY <1>6 DEF ProgramReturns, SysUmalloc, SysUfree, vars, table
  <2>2. QED
    BY <2>1 DEF Live, Used
<1>7. QED
  BY <1>1, <1>2, <1>3, <1>4, <1>5, <1>6 DEF Next

\* fs_file.c is a table of handles, for every size of the table.
THEOREM TableIsHandles == Spec => ImplementsHandles
<1>1. Init => H!Init
  <2> SUFFICES ASSUME Init PROVE H!Init
    OBVIOUS
  <2>1. Used = {}
    BY DEF Init, Used, Slot
  <2>2. QED
    BY <2>1 DEF H!Init
<1>2. IInv /\ [Next]_vars => [H!Next]_Live
  BY HandlesStep
<1>3. QED
  BY <1>1, <1>2, Invariance, PTL DEF Spec, ImplementsHandles, H!Spec, Live
=============================================================================
