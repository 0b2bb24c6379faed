------------------------------ MODULE Programs ------------------------------
(***************************************************************************)
(* One program at a time: run_file opens, loads and starts it, its system  *)
(* calls use the kernel's file table (fs/fs_file.c over fs/fat16.c) and    *)
(* user heap (kernel/mem.c), and control comes back to the shell.          *)
(*                                                                         *)
(* System calls run with interrupts off and the kernel's own calls share   *)
(* nothing with the keyboard handler, so each call is one step.  Programs  *)
(* use the descriptors and blocks they were given, close or free them or   *)
(* forget to, and may return at any time.                                  *)
(***************************************************************************)
EXTENDS Integers, FiniteSets

CONSTANTS
  MAX_KFILES,    \* slots of kfiles (8 in the code)
  UBLOCK_COUNT,  \* blocks of the user heap (256 in the code)
  File,          \* files of the root directory
  NoFile,        \* a name that no entry of the directory has
  Clusters,      \* clusters of each file
  Garbled,       \* program memory overwritten in part
  PosMax         \* reads of one descriptor (a bound of the model)

ASSUME ProgramsAssumption ==
  /\ MAX_KFILES \in Nat \ {0} /\ UBLOCK_COUNT \in Nat \ {0}
  /\ NoFile \notin File /\ Garbled \notin File /\ Garbled # NoFile
  /\ Clusters \in [File -> Nat \ {0}]
  /\ PosMax \in Nat \ {0}

Fd    == 0..(MAX_KFILES - 1)
Block == 0..(UBLOCK_COUNT - 1)

VARIABLES
  mounted,  \* fs_mount_root found a device: g_fs_ops and g_fs_blk are set
  kfiles,   \* the file table
  uheap,    \* uheap_state
  progmem,  \* what is at USER_PROG_MEM: a file's first clusters
  pc,       \* "shell" or "running"
  prog,     \* file named by the shell for the running program
  \* what the programs know and no kernel variable records
  held,     \* the running program's descriptors and the file it opened with each
  blocks,   \* the heap blocks the running program holds
  lostFds,  \* descriptors that programs left open
  lostBlocks

table == <<kfiles, lostFds>>
heap  == <<uheap, blocks, lostBlocks>>
vars  == <<mounted, table, heap, progmem, pc, prog, held>>

Kfile == [used : BOOLEAN, first_unit : File \cup {NoFile}, pos : 0..PosMax]

\* A slot of kfiles.
Slot(u, f, p) == [used |-> u, first_unit |-> f, pos |-> p]

\* The first n clusters of a file.
Image(f, n) == [file |-> f, clusters |-> n]

NoHandles == [h \in {} |-> NoFile]

\* The tables are zero, and the boot sector decides whether a disk is mounted.
Init ==
  /\ mounted \in BOOLEAN
  /\ kfiles = [i \in Fd |-> Slot(FALSE, NoFile, 0)]
  /\ uheap = [b \in Block |-> FALSE]
  /\ progmem = Garbled /\ pc = "shell" /\ prog = NoFile
  /\ held = NoHandles /\ blocks = {} /\ lostFds = {} /\ lostBlocks = {}

-----------------------------------------------------------------------------
(* fs_file.c                                                               *)

Used == {i \in Fd : kfiles[i].used}

\* The first element that a scan of S from 0 meets, if there is one.
FirstOf(S) == {i \in S : \A j \in S : i <= j}

\* Mutated form: alloc_fd takes the first slot, used or not.
AllocFirst == {0}

\* Mutated form: the scan goes one slot too far.
AllocBeyond == FirstOf((0..MAX_KFILES) \ Used)

\* alloc_fd: the first slot that is not used, if there is one.
AllocFd == FirstOf(Fd \ Used)

\* Mutated form: a slot whose open failed is not given back.
ReclaimedNot(fd) == [kfiles EXCEPT ![fd] = Slot(TRUE, @.first_unit, 0)]

\* The table after fat16's open failed on a slot just allocated.
Reclaimed(fd) == [kfiles EXCEPT ![fd] = Slot(FALSE, @.first_unit, 0)]

\* The table after fat16_open_op filled in a slot just allocated.
Opened(fd, f) == [kfiles EXCEPT ![fd] = Slot(TRUE, f, 0)]

\* fs_open: it fails if nothing is mounted or no slot is free, and gives the
\* slot back if the directory has no such file or cannot be read (found = FALSE).
FsOpenFails(f, found) ==
  \/ (~mounted \/ AllocFd = {}) /\ UNCHANGED kfiles
  \/ /\ mounted /\ (f = NoFile \/ ~found)
     /\ \E fd \in AllocFd : kfiles' = Reclaimed(fd)

FsOpens(fd, f) == mounted /\ f # NoFile /\ kfiles' = Opened(fd, f)

\* Mutated form: close forgets the slot's used flag.
ClosedNot(fd) == kfiles

\* fs_close: fat16_close_op does nothing.
Closed(fd) == [kfiles EXCEPT ![fd] = Slot(FALSE, @.first_unit, @.pos)]

-----------------------------------------------------------------------------
(* The shell: run_file from fs_open to user_exec, and back.                *)

\* The open fails; the shell prompts again.
RunFileFails ==
  /\ pc = "shell"
  /\ \E f \in File \cup {NoFile}, found \in BOOLEAN : FsOpenFails(f, found)
  /\ UNCHANGED <<mounted, lostFds, heap, progmem, pc, prog, held>>

\* The slot is opened, read and closed and the program entered.  fat16_read
\* looks at neither size nor pos and gives the first cluster, no more.
RunFile ==
  /\ pc = "shell" /\ mounted
  /\ \E f \in File, fd \in AllocFd :
       /\ prog' = f
       /\ kfiles' = [kfiles EXCEPT ![fd] = Slot(FALSE, f, 1)]
       /\ progmem' = Image(f, 1)
  /\ pc' = "running"
  /\ UNCHANGED <<mounted, lostFds, heap, held>>

\* The program is entered whatever fs_read returned: after a disk error with
\* the old bytes at USER_PROG_MEM, or some of them.
RunFileReadError ==
  /\ pc = "shell" /\ mounted
  /\ \E f \in File, fd \in AllocFd :
       /\ prog' = f
       /\ kfiles' = [kfiles EXCEPT ![fd] = Slot(FALSE, f, 0)]
       /\ progmem' \in {progmem, Garbled}
  /\ pc' = "running"
  /\ UNCHANGED <<mounted, lostFds, heap, held>>

\* main returns to run_file; the kernel takes nothing back from the program.
ProgramReturns ==
  /\ pc = "running" /\ pc' = "shell" /\ prog' = NoFile
  /\ held' = NoHandles /\ lostFds' = lostFds \cup DOMAIN held
  /\ blocks' = {} /\ lostBlocks' = lostBlocks \cup blocks
  /\ UNCHANGED <<mounted, kfiles, uheap, progmem>>

-----------------------------------------------------------------------------
(* System calls of the running program.                                    *)

SysOpen ==
  /\ pc = "running"
  /\ \E f \in File, fd \in AllocFd :
       /\ FsOpens(fd, f)
       /\ held' = [h \in DOMAIN held \cup {fd} |-> IF h = fd THEN f ELSE held[h]]
  /\ UNCHANGED <<mounted, lostFds, heap, progmem, pc, prog>>

SysOpenFails ==
  /\ pc = "running"
  /\ \E f \in File \cup {NoFile}, found \in BOOLEAN : FsOpenFails(f, found)
  /\ UNCHANGED <<mounted, lostFds, heap, progmem, pc, prog, held>>

\* fat16_read: a cluster is read and pos moves on; an error moves nothing.
SysRead ==
  /\ pc = "running"
  /\ \E fd \in DOMAIN held :
       /\ kfiles[fd].used /\ kfiles[fd].pos < PosMax
       /\ kfiles' = [kfiles EXCEPT ![fd] = Slot(TRUE, @.first_unit, @.pos + 1)]
  /\ UNCHANGED <<mounted, lostFds, heap, progmem, pc, prog, held>>

SysClose ==
  /\ pc = "running"
  /\ \E fd \in DOMAIN held :
       /\ kfiles[fd].used
       /\ kfiles' = Closed(fd)
       /\ held' = [h \in DOMAIN held \ {fd} |-> held[h]]
  /\ UNCHANGED <<mounted, lostFds, heap, progmem, pc, prog>>

\* Mutated form: umalloc does not look at the state of a block.
FreeBlocksAll == Block

FreeBlocks == {b \in Block : ~uheap[b]}

\* umalloc: the first free block, whatever the size; none, and it returns NULL.
SysUmalloc ==
  /\ pc = "running"
  /\ \E b \in FirstOf(FreeBlocks) :
       /\ uheap' = [uheap EXCEPT ![b] = TRUE]
       /\ blocks' = blocks \cup {b}
  /\ UNCHANGED <<mounted, table, lostBlocks, progmem, pc, prog, held>>

\* ufree of a pointer into a block the program holds.
SysUfree ==
  /\ pc = "running"
  /\ \E b \in blocks :
       /\ uheap' = [uheap EXCEPT ![b] = FALSE]
       /\ blocks' = blocks \ {b}
  /\ UNCHANGED <<mounted, table, lostBlocks, progmem, pc, prog, held>>

\* syscall_handler dispatches the file and heap calls to these.  Its other calls
\* (write, read a sector, flip) touch none of this module's state.
Next ==
  \/ RunFile \/ RunFileReadError \/ RunFileFails \/ ProgramReturns
  \/ SysOpen \/ SysOpenFails \/ SysRead \/ SysClose \/ SysUmalloc \/ SysUfree

Spec == Init /\ [][Next]_vars

-----------------------------------------------------------------------------
(* Properties.                                                             *)

\* Every variable has its type.
TypeOK ==
  /\ mounted \in BOOLEAN /\ kfiles \in [Fd -> Kfile] /\ uheap \in [Block -> BOOLEAN]
  /\ progmem \in {Image(f, 1) : f \in File} \cup {Garbled}
  /\ pc \in {"shell", "running"} /\ prog \in File \cup {NoFile}
  /\ DOMAIN held \subseteq Fd /\ \A fd \in DOMAIN held : held[fd] \in File
  /\ blocks \subseteq Block /\ lostFds \subseteq Fd /\ lostBlocks \subseteq Block

\* A descriptor means to the table what it means to the program: an open of a
\* program, or the kernel's own open of the next program, never takes a slot
\* from whoever holds it, through any history of opens, failures and closes.
FdMeansItsFile ==
  \A fd \in DOMAIN held : kfiles[fd].used /\ kfiles[fd].first_unit = held[fd]

\* The table holds exactly what programs hold or left open: a failed open and
\* a run of the shell leave no slot behind and free none.
TableAccounted ==
  /\ Used = DOMAIN held \cup lostFds
  /\ DOMAIN held \cap lostFds = {}

\* The heap holds exactly the blocks programs hold or left, each with one holder.
HeapAccounted ==
  /\ {b \in Block : uheap[b]} = blocks \cup lostBlocks
  /\ blocks \cap lostBlocks = {}

\* The file table is a table of handles, for the kernel and for programs.
H == INSTANCE Handles WITH Handle <- Fd, live <- [fd \in Used |-> kfiles[fd].first_unit]
ImplementsHandles == H!Spec

\* "The file is put at 0x10000 every time and executed" (run_file): the program
\* entered is the file the user named, all of it.
RunsNamedFile == pc = "running" => progmem = Image(prog, Clusters[prog])
=============================================================================
