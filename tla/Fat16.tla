-------------------------------- MODULE Fat16 --------------------------------
(***************************************************************************)
(* How fs/fat16.c walks the disk: fat16_find_file over the root directory, *)
(* and fs_dir_list over the root directory twice and then over the FAT     *)
(* (fat16_free_bytes).  One block_read, which may fail, is one step.       *)
(*                                                                         *)
(* An entry of the directory is known by its index.  Names are compared    *)
(* whole; a FAT entry is free (0) or not.                                  *)
(***************************************************************************)
EXTENDS Integers, Sequences, FiniteSets, SequencesExt, Order

CONSTANTS
  ROOT_SEC, PER_SEC,  \* sectors of the root directory, entries in each (32, 16)
  FAT_SEC, FAT_PER_SEC,  \* sectors of one FAT, entries in each (16, 256)
  NFATS,              \* copies of the FAT (2)
  CLUSTERS,           \* clusters of the volume; the first one is number 2
  Name, NoName

ASSUME Fat16Assumption ==
  /\ {ROOT_SEC, PER_SEC, FAT_SEC, FAT_PER_SEC, NFATS, CLUSTERS} \subseteq Nat \ {0}
  /\ CLUSTERS + 2 <= FAT_SEC * FAT_PER_SEC /\ FAT_PER_SEC > 2
  /\ NoName \notin Name

Sector == 0..(ROOT_SEC - 1)
Entry == 0..(ROOT_SEC * PER_SEC - 1)
EntriesOf(sec) == {i \in Entry : i \div PER_SEC = sec}

\* Kinds of entry: "end" (first byte 0), "deleted" (0xE5), "erased" (0xE5 and
\* attribute bit 3), "masked" (attribute bit 3: volume label or long name),
\* "hidden" (another of bits 0-2), "dir", "file".
Named == {"hidden", "dir", "file"}
DirEntry == [kind : Named \cup {"masked"}, name : Name]
              \cup [kind : {"end", "deleted", "erased"}, name : {NoName}]

VARIABLES
  dir,     \* the root directory on the disk
  fat,     \* the first FAT on the disk: is an entry free?  The copies are equal
  pc,      \* "idle", "find", "label", "list" or "free"
  want,    \* the name looked for
  s,       \* next sector to read
  failed,  \* a block_read of the operation failed
  found,   \* result of the last fat16_find_file: entries found, at most one
  label,   \* entries whose name was taken for the volume label
  out,     \* entries printed
  e,       \* next FAT entry to count
  fatbuf,  \* the sector of the FATs that fat[512] holds, -1 before any read
  free     \* free_clusters

disk  == <<dir, fat>>
vars  == <<disk, pc, want, s, failed, found, label, out, e, fatbuf, free>>

\* Directories as they are written: nothing follows an end, no two files have one
\* name.  A volume label may be spelt like a file.
WellFormed(d) ==
  /\ \A i, j \in Entry : i < j /\ d[i].kind = "end" => d[j].kind = "end"
  /\ \A i, j \in Entry :
       i # j /\ {d[i].kind, d[j].kind} \subseteq Named => d[i].name # d[j].name

FatEntries == FAT_SEC * FAT_PER_SEC

\* Entries 0 and 1 are reserved; those behind the last cluster stay 0.
FormattedFat(f) ==
  /\ ~f[0] /\ ~f[1]
  /\ \A x \in (CLUSTERS + 2)..(FatEntries - 1) : f[x]

Init ==
  /\ dir \in {d \in [Entry -> DirEntry] : WellFormed(d)}
  /\ fat \in {f \in [0..(FatEntries - 1) -> BOOLEAN] : FormattedFat(f)}
  /\ pc = "idle" /\ want = NoName /\ s = 0 /\ failed = FALSE
  /\ found = {} /\ label = {} /\ out = <<>> /\ e = 2 /\ fatbuf = -1 /\ free = 0

\* Mutated form: one sector too far.
LastReadTooFar(sec) == sec = ROOT_SEC

LastRead(sec) == sec + 1 = ROOT_SEC

-----------------------------------------------------------------------------
(* fat16_find_file                                                         *)

Find(n) ==
  /\ pc = "idle" /\ pc' = "find"
  /\ want' = n /\ s' = 0 /\ failed' = FALSE /\ found' = {}
  /\ label' = {} /\ out' = <<>> /\ e' = 2 /\ fatbuf' = -1 /\ free' = 0  \* not used
  /\ UNCHANGED disk

FirstOf(S) == {i \in S : \A j \in S : i <= j}

\* Mutated form: a deleted or masked entry ends the search.
MatchesBeforeGap(sec) ==
  FirstOf({i \in EntriesOf(sec) :
             dir[i].name = want /\ \A j \in EntriesOf(sec) : j < i => dir[j].kind \in Named})

\* Free, deleted and masked entries are passed over, whatever name they bear.
Matches(sec) == FirstOf({i \in EntriesOf(sec) : dir[i].kind \in Named /\ dir[i].name = want})

FindSector ==
  /\ pc = "find"
  /\ found' = Matches(s)
  /\ s' = s + 1
  /\ pc' = IF found' # {} \/ LastRead(s) THEN "idle" ELSE "find"
  /\ UNCHANGED <<disk, want, failed, label, out, e, fatbuf, free>>

\* The sector cannot be read: the file counts as not found.
FindFails ==
  /\ pc = "find" /\ pc' = "idle"
  /\ failed' = TRUE
  /\ UNCHANGED <<disk, want, s, found, label, out, e, fatbuf, free>>

-----------------------------------------------------------------------------
(* fs_dir_list                                                             *)

List ==
  /\ pc = "idle" /\ pc' = "label"
  /\ want' = NoName /\ found' = {}  \* not used
  /\ s' = 0 /\ failed' = FALSE /\ label' = {} /\ out' = <<>>
  /\ e' = 2 /\ fatbuf' = -1 /\ free' = 0
  /\ UNCHANGED disk

Ends(sec) == {i \in EntriesOf(sec) : dir[i].kind = "end"}

\* First pass: up to the end or the first entry with attribute bit 3, which may
\* have been deleted: 0xE5 is not looked for here.
LabelSector ==
  /\ pc = "label"
  /\ LET stop == FirstOf({i \in EntriesOf(s) : dir[i].kind \in {"end", "masked", "erased"}}) IN
       /\ label' = {i \in stop : dir[i].kind # "end"}
       /\ IF stop # {} \/ LastRead(s)
            THEN pc' = "list" /\ s' = 0
            ELSE pc' = "label" /\ s' = s + 1
  /\ UNCHANGED <<disk, want, failed, found, out, e, fatbuf, free>>

LabelFails ==
  /\ pc = "label" /\ pc' = "list" /\ s' = 0
  /\ UNCHANGED <<disk, want, failed, found, label, out, e, fatbuf, free>>

\* Mutated form: an entry that is not to be shown ends the row of a sector.
ShownBeforeGap(sec) ==
  {i \in EntriesOf(sec) :
     /\ dir[i].kind \in {"dir", "file"}
     /\ \A j \in EntriesOf(sec) : j < i => dir[j].kind \in {"dir", "file"}}

\* Mutated form: labels are shown as files.
ShownLabels(sec) ==
  {i \in EntriesOf(sec) :
     dir[i].kind \in {"dir", "file", "masked"} /\ \A j \in Ends(sec) : i < j}

\* Entries with any of attribute bits 0-3 are not shown.
Shown(sec) ==
  {i \in EntriesOf(sec) :
     /\ dir[i].kind \in {"dir", "file"}
     /\ \A j \in Ends(sec) : i < j}

\* Second pass: up to the end; then the totals, and the FAT.
ListSector ==
  /\ pc = "list"
  /\ out' = out \o InOrder(Shown(s))
  /\ IF Ends(s) # {} \/ LastRead(s)
       THEN pc' = "free" /\ s' = s
       ELSE pc' = "list" /\ s' = s + 1
  /\ UNCHANGED <<disk, want, failed, found, label, e, fatbuf, free>>

ListFails ==
  /\ pc = "list" /\ pc' = "idle"
  /\ failed' = TRUE
  /\ UNCHANGED <<disk, want, s, found, label, out, e, fatbuf, free>>

-----------------------------------------------------------------------------
(* fat16_free_bytes: all sectors between the FAT's start and the root      *)
(* directory, every copy of the FAT among them.                            *)

\* Mutated form: only the first entry of a sector makes it read.
MustReadOnceASector(x) == x % FAT_PER_SEC = 0

MustRead(x) == x \div FAT_PER_SEC = 0 \/ x % FAT_PER_SEC = 0

\* The entry at place x of the sector in the buffer; anything before a read.
InBuffer(sec, x) ==
  IF sec = -1 THEN BOOLEAN
  ELSE {fat[(sec * FAT_PER_SEC + (x % FAT_PER_SEC)) % FatEntries]}

CountEntry ==
  /\ pc = "free"
  /\ fatbuf' = IF MustRead(e) THEN e \div FAT_PER_SEC ELSE fatbuf
  /\ \E isFree \in InBuffer(fatbuf', e) : free' = IF isFree THEN free + 1 ELSE free
  /\ e' = e + 1
  /\ pc' = IF e' = NFATS * FatEntries THEN "idle" ELSE "free"
  /\ UNCHANGED <<disk, want, s, failed, found, label, out>>

\* The count stops at a sector that cannot be read and is printed as it is.
CountFails ==
  /\ pc = "free" /\ MustRead(e)
  /\ pc' = "idle" /\ failed' = TRUE
  /\ UNCHANGED <<disk, want, s, found, label, out, e, fatbuf, free>>

Next ==
  \/ (\E n \in Name : Find(n)) \/ FindSector \/ FindFails
  \/ List \/ LabelSector \/ LabelFails \/ ListSector \/ ListFails
  \/ CountEntry \/ CountFails

Spec == Init /\ [][Next]_vars

-----------------------------------------------------------------------------
(* Properties.                                                             *)

\* Every variable has its type; no sector behind the root directory is read.
\* Of label only the type is stated.
TypeOK ==
  /\ dir \in [Entry -> DirEntry] /\ fat \in [0..(FatEntries - 1) -> BOOLEAN]
  /\ pc \in {"idle", "find", "label", "list", "free"} /\ want \in Name \cup {NoName}
  /\ s \in 0..ROOT_SEC /\ (pc \in {"find", "label", "list"} => s \in Sector)
  /\ failed \in BOOLEAN
  /\ found \subseteq Entry /\ label \subseteq Entry /\ out \in Seq(Entry)
  /\ e \in 2..(NFATS * FatEntries) /\ fatbuf \in -1..(NFATS * FAT_SEC - 1)
  /\ free \in 0..(NFATS * FatEntries)

Bearing(n) == {i \in Entry : dir[i].kind \in Named /\ dir[i].name = n}

\* fat16_find_file finds exactly the entry of that name, in whatever sector it
\* is and whatever deleted entries are before it; a disk error can hide a file
\* and never gives another one.
FindsTheFile ==
  pc = "idle" /\ want # NoName =>
    /\ found \subseteq Bearing(want)
    /\ ~failed => found = Bearing(want)

\* What dir prints can be opened: each file it shows is the one that
\* fat16_find_file finds by the name shown, and no file is shown twice.
ListedOpens ==
  /\ IsInjective(out)
  /\ \A k \in DOMAIN out : Bearing(dir[out[k]].name) = {out[k]}

\* Unless the disk fails, dir shows every file and directory it does not mean to
\* hide, over sector borders and gaps.
ListsAll ==
  pc = "free" => \A i \in Entry : dir[i].kind \in {"dir", "file"} => \E k \in DOMAIN out : out[k] = i

IsFree(x) == fat[x % FatEntries]

\* The count of free clusters never takes an entry from a buffer that holds
\* another sector: after each entry it is the number of free ones so far.
CountsWhatIsThere ==
  free = Cardinality({x \in 2..(e - 1) : IsFree(x)})

\* The free space dir reports is that of the volume: an empty volume of 16 MiB
\* has "16 732 160 bytes free" (test/fat16/readme.md), its clusters less those in use.
FreeSpaceTrue ==
  pc = "idle" /\ e = NFATS * FatEntries /\ ~failed => free = Cardinality({x \in 2..(CLUSTERS + 1) : fat[x]})
=============================================================================
