---------------------------- MODULE Fat16_proofs ----------------------------
(***************************************************************************)
(* Theorems about Fat16, for every size of the root directory and of the   *)
(* FAT, every directory well formed and every place of a disk error.       *)
(***************************************************************************)
EXTENDS Fat16, Order_proofs, SequenceTheorems

-----------------------------------------------------------------------------
(* Sectors and places in them.                                             *)

\* A number is its sector's first place and its own place there.
LEMMA DivMod ==
  ASSUME NEW n \in Nat, NEW d \in Nat \ {0}
  PROVE  /\ n \div d \in Nat /\ n % d \in 0..(d - 1)
         /\ (n \div d) * d + (n % d) = n
OBVIOUS

\* The next number is in the same sector unless it is the first of one.
LEMMA NextPlace ==
  ASSUME NEW n \in Nat, NEW d \in Nat \ {0}, (n + 1) % d # 0
  PROVE  (n + 1) \div d = n \div d
<1> DEFINE q == n \div d
           r == n % d
           q1 == (n + 1) \div d
           r1 == (n + 1) % d
<1>1. q \in Nat /\ r \in 0..(d - 1) /\ q * d + r = n
  BY DivMod
<1>2. n + 1 \in Nat
  OBVIOUS
<1>3. q1 \in Nat /\ r1 \in 0..(d - 1) /\ q1 * d + r1 = n + 1
  BY <1>2, DivMod
<1>4. q1 = q
  <2> HIDE DEF q, r, q1, r1
  <2>1. r1 # 0
    BY DEF r1
  <2>2. q1 * d + (r1 - 1) = q * d + r /\ r1 - 1 \in 0..(d - 1)
    BY <1>1, <1>3, <2>1
  <2>3. (q1 - q) * d = r - (r1 - 1)
    BY <1>1, <1>3, <2>2
  <2>4. r - (r1 - 1) < d /\ r - (r1 - 1) > -d
    BY <1>1, <2>2
  <2>5. CASE q1 > q
    <3>1. (q1 - q) * d >= d
      BY <1>1, <1>3, <2>5
    <3>2. QED
      BY <1>1, <1>3, <2>3, <2>4, <3>1
  <2>6. CASE q1 < q
    <3>1. (q - q1) * d >= d
      BY <1>1, <1>3, <2>6
    <3>2. (q1 - q) * d = -((q - q1) * d)
      BY <1>1, <1>3
    <3>3. QED
      BY <1>1, <1>3, <2>3, <2>4, <3>1, <3>2
  <2>7. QED
    BY <1>1, <1>3, <2>5, <2>6
<1>5. QED
  BY <1>4

\* What is below the first place of a sector is in an earlier sector.
LEMMA SectorBelow ==
  ASSUME NEW n \in Nat, NEW d \in Nat \ {0}, NEW a \in Nat, n < a * d
  PROVE  n \div d \in 0..(a - 1)
<1> DEFINE q == n \div d
<1>1. q \in Nat /\ n % d \in 0..(d - 1) /\ q * d + (n % d) = n
  BY DivMod
<1> HIDE DEF q
<1>2. q * d \in Nat /\ q * d <= n
  BY <1>1
<1>3. q < a
  <2>1. SUFFICES ASSUME q >= a PROVE FALSE
    BY <1>1
  <2>2. q * d >= a * d
    BY <1>1, <2>1
  <2>3. QED
    BY <1>2, <2>2
<1>4. QED
  BY <1>1, <1>3 DEF q

\* A lower number is in no later sector.
LEMMA SameOrEarlier ==
  ASSUME NEW i \in Nat, NEW j \in Nat, i < j, NEW d \in Nat \ {0}
  PROVE  i \div d <= j \div d
<1> DEFINE a == i \div d
           b == j \div d
<1>1. a \in Nat /\ i % d \in 0..(d - 1) /\ a * d + (i % d) = i
  BY DivMod
<1>2. b \in Nat /\ j % d \in 0..(d - 1) /\ b * d + (j % d) = j
  BY DivMod
<1> HIDE DEF a, b
<1>3. a * d \in Nat /\ b * d \in Nat /\ a * d < b * d + d
  BY <1>1, <1>2
<1>4. SUFFICES ASSUME a >= b + 1 PROVE FALSE
  BY <1>1, <1>2 DEF a, b
<1>5. a * d >= (b + 1) * d /\ (b + 1) * d = b * d + d
  BY <1>1, <1>2, <1>4
<1>6. QED
  BY <1>3, <1>5

\* An entry is in a sector of the root directory.
LEMMA EntrySector ==
  ASSUME NEW i \in Entry
  PROVE  i \div PER_SEC \in Sector /\ i \in EntriesOf(i \div PER_SEC)
<1>1. ROOT_SEC \in Nat \ {0} /\ PER_SEC \in Nat \ {0} /\ i \in Nat /\ i < ROOT_SEC * PER_SEC
  BY Fat16Assumption DEF Entry
<1>2. i \div PER_SEC \in Sector
  BY <1>1, SectorBelow DEF Sector
<1>3. QED
  BY <1>2 DEF EntriesOf

-----------------------------------------------------------------------------
(* The search.                                                             *)

\* All the search has not yet read is from sector s on; what it has read did not
\* bear the name.
Searching ==
  /\ dir \in [Entry -> DirEntry] /\ WellFormed(dir) /\ s \in Nat
  /\ pc \in {"label", "list", "free"} => want = NoName
  /\ pc = "find" =>
       /\ want \in Name /\ s \in Sector /\ found = {} /\ failed = FALSE
       /\ \A i \in Bearing(want) : i \div PER_SEC >= s
  /\ FindsTheFile

\* No two entries bear a name.
LEMMA OneBears ==
  ASSUME dir \in [Entry -> DirEntry], WellFormed(dir), NEW n, NEW i \in Bearing(n), NEW j \in Bearing(n)
  PROVE  i = j
BY DEF WellFormed, Bearing

\* What is found in a sector is what bears the name there.
LEMMA MatchesBearing ==
  ASSUME dir \in [Entry -> DirEntry], WellFormed(dir), NEW sec
  PROVE  Matches(sec) = {i \in Bearing(want) : i \div PER_SEC = sec}
<1> DEFINE M == {i \in EntriesOf(sec) : dir[i].kind \in Named /\ dir[i].name = want}
<1>1. M = {i \in Bearing(want) : i \div PER_SEC = sec}
  BY DEF EntriesOf, Bearing
<1>2. \A i, j \in M : i <= j
  <2>1. TAKE i, j \in M
  <2>2. i = j /\ i \in Int
    BY <1>1, OneBears, Fat16Assumption DEF Bearing, Entry
  <2>3. QED
    BY <2>2
<1>3. QED
  BY <1>1, <1>2 DEF Matches, FirstOf

LEMMA SearchInit == Init => Searching
<1> SUFFICES ASSUME Init PROVE Searching
  OBVIOUS
<1>1. pc = "idle" /\ want = NoName /\ s = 0
  BY DEF Init
<1>2. dir \in [Entry -> DirEntry] /\ WellFormed(dir)
  BY DEF Init
<1>3. QED
  BY <1>1, <1>2 DEF Searching, FindsTheFile

\* A sector is searched: the file is in it, or in none before the next one.
LEMMA FindSectorStep == ASSUME Searching, FindSector PROVE Searching'
<1> DEFINE B == Bearing(want)
<1>1. /\ dir' = dir /\ want' = want /\ failed' = failed /\ s' = s + 1
      /\ found' = Matches(s) /\ s \in Sector /\ s \in Nat
      /\ dir \in [Entry -> DirEntry] /\ WellFormed(dir) /\ failed = FALSE /\ want \in Name
      /\ \A i \in B : i \div PER_SEC >= s
  BY DEF FindSector, disk, Searching
<1>2. found' = {i \in B : i \div PER_SEC = s}
  BY <1>1, MatchesBearing
<1>3. \A i \in B : i \in Entry /\ i \div PER_SEC \in Sector
  BY EntrySector DEF Bearing
<1>4. Bearing(want)' = B
  BY <1>1 DEF Bearing
<1>5. CASE found' # {}
  <2>1. pc' = "idle"
    BY <1>5 DEF FindSector
  <2>2. found' = B
    BY <1>1, <1>2, <1>5, OneBears
  <2>3. QED
    BY <1>1, <1>4, <2>1, <2>2 DEF Searching, FindsTheFile
<1>6. CASE found' = {}
  <2>1. \A i \in B : i \div PER_SEC >= s + 1
    BY <1>1, <1>2, <1>3, <1>6, Fat16Assumption DEF Sector
  <2>2. CASE LastRead(s)
    <3>1. B = {}
      BY <1>1, <1>3, <2>1, <2>2, Fat16Assumption DEF Sector, LastRead
    <3>2. pc' = "idle"
      BY <2>2 DEF FindSector
    <3>3. QED
      BY <1>1, <1>4, <1>6, <3>1, <3>2 DEF Searching, FindsTheFile
  <2>3. CASE ~LastRead(s)
    <3>1. pc' = "find" /\ s' \in Sector
      BY <1>1, <1>6, <2>3, Fat16Assumption DEF FindSector, LastRead, Sector
    <3>2. QED
      BY <1>1, <1>4, <1>6, <2>1, <3>1 DEF Searching, FindsTheFile
  <2>4. QED
    BY <2>2, <2>3
<1>7. QED
  BY <1>5, <1>6

\* Every step keeps what the search knows.
LEMMA SearchStep == ASSUME Searching, [Next]_vars PROVE Searching'
<1>1. ASSUME NEW n \in Name, Find(n) PROVE Searching'
  <2>1. \A i \in Bearing(want)' : i \div PER_SEC >= 0
    BY <1>1, EntrySector, Fat16Assumption DEF Bearing, Sector, Find, disk
  <2>2. 0 \in Sector
    BY Fat16Assumption DEF Sector
  <2>3. QED
    BY <1>1, <2>1, <2>2 DEF Find, disk, Searching, FindsTheFile
<1>2. CASE FindFails
  BY <1>2 DEF FindFails, disk, Searching, FindsTheFile
<1>3. CASE List
  BY <1>3 DEF List, disk, Searching, FindsTheFile
<1>4. CASE LabelSector \/ LabelFails \/ ListSector \/ ListFails \/ CountEntry \/ CountFails
  <2>1. /\ dir' = dir /\ want' = want /\ s' \in Nat
        /\ pc \in {"label", "list", "free"} /\ pc' \in {"label", "list", "free", "idle"}
    <3>1. s \in Nat
      BY DEF Searching
    <3>2. CASE LabelSector
      <4>1. s' = 0 \/ s' = s + 1
        BY <3>2 DEF LabelSector
      <4>2. QED
        BY <3>1, <3>2, <4>1 DEF LabelSector, disk
    <3>3. CASE ListSector
      <4>1. (pc' = "free" /\ s' = s) \/ (pc' = "list" /\ s' = s + 1)
        BY <3>3 DEF ListSector
      <4>2. QED
        BY <3>1, <3>3, <4>1 DEF ListSector, disk
    <3>4. CASE CountEntry
      <4>1. pc' = "idle" \/ pc' = "free"
        BY <3>4 DEF CountEntry
      <4>2. QED
        BY <3>1, <3>4, <4>1 DEF CountEntry, disk
    <3>5. CASE LabelFails \/ ListFails \/ CountFails
      BY <3>1, <3>5 DEF LabelFails, ListFails, CountFails, disk
    <3>6. QED
      BY <1>4, <3>2, <3>3, <3>4, <3>5
  <2>2. QED
    BY <2>1 DEF Searching, FindsTheFile
<1>5. CASE UNCHANGED vars
  BY <1>5 DEF vars, disk, Searching, FindsTheFile, Bearing
<1>6. QED
  BY <1>1, <1>2, <1>3, <1>4, <1>5, FindSectorStep DEF Next

\* fat16_find_file finds the entry of the name and no other, for every size of
\* the directory, whatever lies between the entries and wherever a read fails.
THEOREM SearchRight == Spec => []FindsTheFile
<1>1. Searching => FindsTheFile
  BY DEF Searching
<1>2. QED
  BY <1>1, SearchInit, SearchStep, PTL DEF Spec

-----------------------------------------------------------------------------
(* The listing.                                                            *)

\* Entries that dir shows.
Visible == {i \in Entry : dir[i].kind \in {"dir", "file"}}

\* Up to sector s all is listed, each once, and there is no end before it.
Listing ==
  /\ dir \in [Entry -> DirEntry] /\ WellFormed(dir)
  /\ out \in Seq(Visible) /\ IsInjective(out)
  /\ pc = "label" => out = <<>>
  /\ pc = "list" =>
       /\ s \in Nat
       /\ \A i \in Entry : dir[i].kind = "end" => i \div PER_SEC >= s
       /\ \A k \in DOMAIN out : out[k] \div PER_SEC < s
       /\ \A i \in Visible : i \div PER_SEC < s => \E k \in DOMAIN out : out[k] = i
  /\ ListsAll

LEMMA NothingListed == <<>> \in Seq(Visible) /\ IsInjective(<<>>) /\ DOMAIN <<>> = {}
BY DEF IsInjective

LEMMA EntryNat == \A i \in Entry : i \in Nat /\ i \div PER_SEC \in Nat
BY EntrySector, Fat16Assumption DEF Entry, Sector

\* What is shown of a sector is what is visible there: it is before the end.
LEMMA ShownVisible ==
  ASSUME dir \in [Entry -> DirEntry], WellFormed(dir), NEW sec
  PROVE  Shown(sec) = {i \in Visible : i \div PER_SEC = sec}
<1> DEFINE V == {i \in Visible : i \div PER_SEC = sec}
<1>1. Shown(sec) \subseteq V
  BY DEF Shown, EntriesOf, Visible
<1>2. ASSUME NEW i \in V, NEW j \in Ends(sec) PROVE i < j
  <2>1. i \in Entry /\ j \in Entry /\ i \in Nat /\ j \in Nat
    BY EntryNat DEF Visible, Ends, EntriesOf
  <2>2. dir[i].kind # "end" /\ dir[j].kind = "end"
    BY DEF Visible, Ends
  <2>3. ~(j < i) /\ i # j
    BY <2>1, <2>2 DEF WellFormed
  <2>4. QED
    BY <2>1, <2>3
<1>3. V \subseteq Shown(sec)
  BY <1>2 DEF Shown, EntriesOf, Visible
<1>4. QED
  BY <1>1, <1>3

\* A list and a list of other things in their order, none of them twice.
LEMMA Appended ==
  ASSUME NEW A, NEW q \in Seq(A), IsInjective(q), NEW S \in SUBSET Nat, IsFiniteSet(S), S \subseteq A,
         \A k \in DOMAIN q : q[k] \notin S
  PROVE  LET r == q \o InOrder(S)
         IN /\ r \in Seq(A) /\ IsInjective(r)
            /\ {r[k] : k \in DOMAIN r} = {q[k] : k \in DOMAIN q} \cup S
<1> DEFINE c == Cardinality(S)
           o == InOrder(S)
           r == q \o o
           n == Len(q)
<1>1. c \in Nat /\ n \in Nat /\ DOMAIN q = 1..n
  BY FS_CardinalityType, LenProperties
<1>2. o \in [1..c -> S] /\ Ascending(o) /\ \A x \in S : \E i \in 1..c : o[i] = x
  BY InOrderLists
<1> HIDE DEF c, o, n
<1>3. o \in Seq(A) /\ Len(o) = c /\ DOMAIN o = 1..c
  <2>1. o \in [1..c -> A]
    BY <1>2
  <2>2. QED
    BY <1>1, <2>1
<1>4. /\ r \in Seq(A) /\ Len(r) = n + c
      /\ \A i \in 1..(n + c) : r[i] = IF i <= n THEN q[i] ELSE o[i - n]
  BY <1>3, ConcatProperties DEF n
<1>5. DOMAIN r = 1..(n + c)
  BY <1>4, LenProperties
<1> HIDE DEF r
<1>6. \A i \in DOMAIN r : \/ i \in DOMAIN q /\ r[i] = q[i]
                          \/ i \notin DOMAIN q /\ i - n \in 1..c /\ r[i] = o[i - n] /\ r[i] \in S
  <2>1. TAKE i \in DOMAIN r
  <2>2. CASE i <= n
    BY <1>1, <1>4, <1>5, <2>2
  <2>3. CASE ~(i <= n)
    <3>1. i - n \in 1..c /\ r[i] = o[i - n] /\ i \notin DOMAIN q
      BY <1>1, <1>4, <1>5, <2>3
    <3>2. QED
      BY <1>2, <3>1
  <2>4. QED
    BY <2>2, <2>3
<1>7. \A i, j \in 1..c : o[i] = o[j] => i = j
  <2>1. TAKE i, j \in 1..c
  <2>2. o[i] \in Nat /\ o[j] \in Nat /\ i \in Nat /\ j \in Nat
    <3>1. o[i] \in S /\ o[j] \in S
      BY <1>2
    <3>2. \A x \in S : x \in Nat
      OBVIOUS
    <3>3. i \in Nat /\ j \in Nat
      BY <1>1
    <3>4. QED
      BY <3>1, <3>2, <3>3
  <2>3. (i < j => o[i] < o[j]) /\ (j < i => o[j] < o[i])
    BY <1>3, <1>2 DEF Ascending
  <2>4. QED
    BY <2>2, <2>3
<1>8. IsInjective(r)
  <2>1. SUFFICES ASSUME NEW i \in DOMAIN r, NEW j \in DOMAIN r, r[i] = r[j] PROVE i = j
    BY DEF IsInjective
  <2>2. CASE i \in DOMAIN q /\ j \in DOMAIN q
    BY <1>6, <2>1, <2>2 DEF IsInjective
  <2>3. CASE i \notin DOMAIN q /\ j \notin DOMAIN q
    <3>1. i - n \in 1..c /\ j - n \in 1..c /\ o[i - n] = o[j - n]
      BY <1>6, <2>1, <2>3
    <3>2. i - n = j - n
      BY <1>7, <3>1
    <3>3. QED
      BY <1>1, <1>5, <3>2
  <2>4. CASE (i \in DOMAIN q) # (j \in DOMAIN q)
    BY <1>6, <2>1, <2>4
  <2>5. QED
    BY <2>2, <2>3, <2>4
<1>9. \A k \in DOMAIN q : k \in DOMAIN r /\ r[k] = q[k]
  BY <1>1, <1>4, <1>5
<1>10. \A x \in S : \E k \in DOMAIN r : r[k] = x
  <2>1. TAKE x \in S
  <2>2. PICK i \in 1..c : o[i] = x
    BY <1>2
  <2>3. n + i \in DOMAIN r /\ ~(n + i <= n) /\ (n + i) - n = i
    BY <1>1, <1>5
  <2>4. QED
    BY <1>4, <1>5, <2>2, <2>3
<1>11. {r[k] : k \in DOMAIN r} = {q[k] : k \in DOMAIN q} \cup S
  <2>1. ASSUME NEW k \in DOMAIN r PROVE r[k] \in {q[i] : i \in DOMAIN q} \cup S
    BY <1>6
  <2>2. ASSUME NEW k \in DOMAIN q PROVE q[k] \in {r[i] : i \in DOMAIN r}
    BY <1>9
  <2>3. ASSUME NEW x \in S PROVE x \in {r[i] : i \in DOMAIN r}
    BY <1>10
  <2>4. QED
    BY <2>1, <2>2, <2>3
<1>12. QED
  BY <1>4, <1>8, <1>11 DEF r, o

LEMMA ListInit == Init => Listing
BY NothingListed DEF Init, Listing, ListsAll

\* A sector is listed.
LEMMA ListSectorStep == ASSUME Listing, ListSector PROVE Listing'
<1> DEFINE S == Shown(s)
<1>1. /\ dir \in [Entry -> DirEntry] /\ WellFormed(dir) /\ dir' = dir /\ s \in Nat
      /\ out \in Seq(Visible) /\ IsInjective(out) /\ out' = out \o InOrder(S)
      /\ \A i \in Entry : dir[i].kind = "end" => i \div PER_SEC >= s
      /\ \A k \in DOMAIN out : out[k] \div PER_SEC < s
      /\ \A i \in Visible : i \div PER_SEC < s => \E k \in DOMAIN out : out[k] = i
  BY DEF Listing, ListSector, disk
<1>2. S = {i \in Visible : i \div PER_SEC = s}
  BY <1>1, ShownVisible
<1>3. S \in SUBSET Nat /\ IsFiniteSet(S) /\ S \subseteq Visible
  <2>1. S \subseteq Entry /\ S \subseteq Visible
    BY <1>2 DEF Visible
  <2>2. IsFiniteSet(Entry)
    BY Fat16Assumption, FS_Interval DEF Entry
  <2>3. QED
    BY <2>1, <2>2, FS_Subset, EntryNat
<1>4. \A k \in DOMAIN out : out[k] \notin S
  <2>1. TAKE k \in DOMAIN out
  <2>2. out[k] \div PER_SEC # s
    BY <1>1
  <2>3. QED
    BY <1>2, <2>2
<1> HIDE DEF S
<1>5. /\ out' \in Seq(Visible) /\ IsInjective(out')
      /\ {out'[k] : k \in DOMAIN out'} = {out[k] : k \in DOMAIN out} \cup S
  <2> DEFINE r == out \o InOrder(S)
  <2>1. r \in Seq(Visible) /\ IsInjective(r) /\ {r[k] : k \in DOMAIN r} = {out[k] : k \in DOMAIN out} \cup S
    <3>1. out \in Seq(Visible) /\ IsInjective(out)
      BY <1>1
    <3>2. QED
      BY <3>1, <1>3, <1>4, Appended
  <2>2. out' = r
    BY <1>1
  <2> HIDE DEF r
  <2>3. QED
    BY <2>1, <2>2
<1>6. Visible' = Visible
  BY <1>1 DEF Visible
<1>7. \A k \in DOMAIN out' : out'[k] \div PER_SEC < s + 1
  <2>1. TAKE k \in DOMAIN out'
  <2>2. out'[k] \in {out[j] : j \in DOMAIN out} \cup S
    BY <1>5
  <2>3. \A j \in DOMAIN out : out[j] \div PER_SEC \in Nat
    BY <1>1, EntryNat, ElementOfSeq, LenProperties DEF Visible
  <2>4. CASE out'[k] \in S
    <3>1. out'[k] \div PER_SEC = s
      BY <1>2, <2>4
    <3>2. QED
      BY <1>1, <3>1
  <2>5. CASE out'[k] \notin S
    BY <1>1, <2>2, <2>3, <2>5
  <2>6. QED
    BY <2>4, <2>5
<1>8. \A i \in Visible : i \div PER_SEC < s + 1 => \E k \in DOMAIN out' : out'[k] = i
  <2>1. TAKE i \in Visible
  <2>2. HAVE i \div PER_SEC < s + 1
  <2>3. i \div PER_SEC < s \/ i \div PER_SEC = s
    BY <1>1, <2>2, EntryNat DEF Visible
  <2>4. i \in {out[k] : k \in DOMAIN out} \cup S
    BY <1>1, <1>2, <2>3
  <2>5. QED
    BY <1>5, <2>4
<1>9. CASE Ends(s) # {} \/ LastRead(s)
  <2>1. pc' = "free"
    BY <1>9 DEF ListSector
  <2>2. \A i \in Visible : i \div PER_SEC < s + 1
    <3>1. TAKE i \in Visible
    <3>2. i \in Entry /\ i \in Nat /\ i \div PER_SEC \in Nat /\ i \div PER_SEC \in Sector
          /\ dir[i].kind # "end"
      BY EntryNat, EntrySector DEF Visible
    <3>3. CASE LastRead(s)
      BY <1>1, <3>2, <3>3, Fat16Assumption DEF LastRead, Sector
    <3>4. CASE Ends(s) # {}
      <4>1. PICK j \in Ends(s) : TRUE
        BY <3>4
      <4>2. j \in Entry /\ j \in Nat /\ j \div PER_SEC = s /\ dir[j].kind = "end"
        BY EntryNat DEF Ends, EntriesOf
      <4>3. ~(j < i) /\ i # j
        BY <1>1, <3>2, <4>2 DEF WellFormed
      <4>4. i < j
        BY <3>2, <4>2, <4>3
      <4>5. i \div PER_SEC <= j \div PER_SEC
        BY <3>2, <4>2, <4>4, SameOrEarlier, Fat16Assumption
      <4>6. QED
        BY <1>1, <3>2, <4>2, <4>5
    <3>5. QED
      BY <1>9, <3>3, <3>4
  <2>3. ListsAll'
    BY <1>1, <1>8, <2>2 DEF ListsAll, Visible
  <2>4. QED
    BY <1>1, <1>5, <1>6, <2>1, <2>3 DEF Listing
<1>10. CASE ~(Ends(s) # {} \/ LastRead(s))
  <2>1. pc' = "list" /\ s' = s + 1
    BY <1>10 DEF ListSector
  <2>2. \A i \in Entry : dir[i].kind = "end" => i \div PER_SEC >= s + 1
    <3>1. TAKE i \in Entry
    <3>2. HAVE dir[i].kind = "end"
    <3>3. i \div PER_SEC # s
      BY <1>10, <3>2 DEF Ends, EntriesOf
    <3>4. QED
      BY <1>1, <3>2, <3>3, EntryNat
  <2>3. QED
    BY <1>1, <1>5, <1>6, <1>7, <1>8, <2>1, <2>2 DEF Listing, ListsAll
<1>11. QED
  BY <1>9, <1>10

\* Every step keeps what the listing knows.
LEMMA ListStep == ASSUME Listing, [Next]_vars PROVE Listing'
<1>1. CASE (\E n \in Name : Find(n)) \/ List
  <2>1. dir' = dir /\ out' = <<>> /\ pc' \in {"find", "label"}
    BY <1>1 DEF Find, List, disk
  <2>2. QED
    BY <2>1, NothingListed DEF Listing, ListsAll, Visible
<1>2. CASE LabelSector \/ LabelFails
  <2>1. dir' = dir /\ out' = out /\ out = <<>> /\ ((pc' = "list" /\ s' = 0) \/ pc' = "label")
    BY <1>2 DEF LabelSector, LabelFails, Listing, disk
  <2>2. \A i \in Entry : i \div PER_SEC >= 0 /\ ~(i \div PER_SEC < 0)
    BY EntryNat
  <2>3. Visible' = Visible /\ Visible \subseteq Entry
    BY <2>1 DEF Visible
  <2>4. QED
    BY <2>1, <2>2, <2>3, NothingListed DEF Listing, ListsAll
<1>3. CASE UNCHANGED vars
  BY <1>3 DEF vars, disk, Listing, ListsAll, Visible
<1>4. CASE FindSector \/ FindFails \/ ListFails \/ CountEntry \/ CountFails
  <2>1. /\ dir' = dir /\ out' = out /\ pc' \in {"idle", "find", "free"}
        /\ pc' = "free" => pc = "free"
    BY <1>4 DEF FindSector, FindFails, ListFails, CountEntry, CountFails, disk
  <2>2. QED
    BY <2>1 DEF Listing, ListsAll, Visible
<1>5. QED
  BY <1>1, <1>2, <1>3, <1>4, ListSectorStep DEF Next

LEMMA Listed == Spec => []Listing
BY ListInit, ListStep, PTL DEF Spec

\* What dir shows can be opened by the name it shows, for every directory and
\* wherever a read fails, and nothing is shown twice.
THEOREM ListedRight == Spec => []ListedOpens
<1>1. ASSUME Listing PROVE ListedOpens
  <2>1. ASSUME NEW k \in DOMAIN out PROVE Bearing(dir[out[k]].name) = {out[k]}
    <3>1. out[k] \in Visible
      BY <1>1, ElementOfSeq, LenProperties DEF Listing
    <3>2. out[k] \in Bearing(dir[out[k]].name)
      BY <3>1 DEF Visible, Bearing, Named
    <3>3. QED
      BY <1>1, <3>2, OneBears DEF Listing
  <2>2. QED
    BY <1>1, <2>1 DEF Listing, ListedOpens
<1>2. QED
  BY <1>1, Listed, PTL

\* When the listing comes to the free space, every file and directory that is
\* not hidden has been shown.
THEOREM AllListed == Spec => []ListsAll
<1>1. Listing => ListsAll
  BY DEF Listing
<1>2. QED
  BY <1>1, Listed, PTL

-----------------------------------------------------------------------------
(* The count.                                                              *)

\* The entries up to e are counted, and the buffer holds the sector of the last.
Counting ==
  /\ CountsWhatIsThere /\ free \in Nat /\ e \in Nat /\ e >= 2
  /\ fatbuf = -1 \/ fatbuf \in Nat
  /\ pc = "free" /\ e > 2 => fatbuf = (e - 1) \div FAT_PER_SEC
  /\ pc \in {"label", "list"} => e = 2

\* Before anything is counted, nothing is.
LEMMA NothingCounted == Cardinality({x \in 2..(2 - 1) : IsFree(x)}) = 0
<1>1. {x \in 2..(2 - 1) : IsFree(x)} = {}
  OBVIOUS
<1>2. QED
  BY <1>1, FS_EmptySet

LEMMA CountInit == Init => Counting
BY NothingCounted DEF Init, Counting, CountsWhatIsThere

\* One entry more.
LEMMA CountOne ==
  ASSUME NEW n \in Nat, n >= 2
  PROVE  LET C(m) == Cardinality({x \in 2..m : IsFree(x)})
         IN C(n) = IF IsFree(n) THEN C(n - 1) + 1 ELSE C(n - 1)
<1> DEFINE S == {x \in 2..(n - 1) : IsFree(x)}
           T == {x \in 2..n : IsFree(x)}
<1>1. IsFiniteSet(S)
  <2>1. IsFiniteSet(2..(n - 1)) /\ S \in SUBSET (2..(n - 1))
    BY FS_Interval
  <2>2. QED
    BY <2>1, FS_Subset
<1>2. T = IF IsFree(n) THEN S \cup {n} ELSE S
  OBVIOUS
<1>3. n \notin S
  OBVIOUS
<1>4. QED
  BY <1>1, <1>2, <1>3, FS_AddElement

\* The entry of the buffer that is looked at is the one that is counted.
LEMMA BufferRight ==
  ASSUME Counting, CountEntry
  PROVE  /\ fatbuf' = e \div FAT_PER_SEC /\ fatbuf' \in Nat
         /\ InBuffer(fatbuf', e) = {IsFree(e)}
<1> DEFINE p == FAT_PER_SEC
<1>1. p \in Nat \ {0} /\ p > 2 /\ e \in Nat
  BY Fat16Assumption DEF Counting
<1>2. e \div p \in Nat /\ (e \div p) * p + (e % p) = e
  BY <1>1, DivMod
<1>3. fatbuf' = e \div p
  <2>1. CASE MustRead(e)
    BY <2>1 DEF CountEntry
  <2>2. CASE ~MustRead(e)
    <3>1. e \div p # 0 /\ e % p # 0 /\ fatbuf' = fatbuf
      BY <2>2 DEF CountEntry, MustRead
    <3>2. e # 2
      BY <1>1, <3>1
    <3>3. fatbuf = (e - 1) \div p /\ e - 1 \in Nat /\ (e - 1) + 1 = e
      BY <3>2 DEF Counting, CountEntry
    <3>4. ((e - 1) + 1) % p # 0
      BY <3>1, <3>3
    <3>5. ((e - 1) + 1) \div p = (e - 1) \div p
      BY <1>1, <3>3, <3>4, NextPlace
    <3>6. QED
      BY <3>1, <3>3, <3>5
  <2>3. QED
    BY <2>1, <2>2
<1>4. fatbuf' # -1 /\ fatbuf' \in Nat
  BY <1>2, <1>3
<1>5. QED
  BY <1>2, <1>3, <1>4 DEF InBuffer, IsFree

LEMMA CountEntryStep == ASSUME Counting, CountEntry PROVE Counting'
<1>1. /\ e \in Nat /\ e >= 2 /\ free \in Nat /\ e' = e + 1 /\ UNCHANGED fat
      /\ pc' \in {"idle", "free"}
  BY DEF Counting, CountEntry, disk
<1>2. free' = IF IsFree(e) THEN free + 1 ELSE free
  BY BufferRight DEF CountEntry
<1>3. free = Cardinality({x \in 2..(e - 1) : IsFree(x)})
  BY DEF Counting, CountsWhatIsThere
<1>4. free' = Cardinality({x \in 2..e : IsFree(x)})
  BY <1>1, <1>2, <1>3, CountOne
<1>5. \A x : IsFree(x)' = IsFree(x)
  BY <1>1 DEF IsFree
<1>6. {x \in 2..(e' - 1) : IsFree(x)'} = {x \in 2..e : IsFree(x)}
  BY <1>1, <1>5
<1>7. CountsWhatIsThere'
  BY <1>4, <1>6 DEF CountsWhatIsThere
<1>8. QED
  BY <1>1, <1>2, <1>7, BufferRight DEF Counting

\* Every step keeps the count right.
LEMMA CountStep == ASSUME Counting, [Next]_vars PROVE Counting'
<1>1. CASE (\E n \in Name : Find(n)) \/ List
  <2>1. free' = 0 /\ e' = 2 /\ fatbuf' = -1 /\ UNCHANGED fat /\ pc' \in {"find", "label"}
    BY <1>1 DEF Find, List, disk
  <2>2. CountsWhatIsThere'
    BY <2>1, NothingCounted DEF CountsWhatIsThere, IsFree
  <2>3. QED
    BY <2>1, <2>2 DEF Counting
<1>2. CASE UNCHANGED vars \/ FindSector \/ FindFails \/ LabelSector \/ LabelFails
           \/ ListSector \/ ListFails \/ CountFails
  <2>1. /\ UNCHANGED <<fat, e, fatbuf, free>>
        /\ pc' = "free" => pc = "free" \/ pc = "list"
        /\ pc' \in {"label", "list"} => pc' = pc \/ pc = "label"
    BY <1>2 DEF vars, disk, FindSector, FindFails, LabelSector, LabelFails, ListSector,
                ListFails, CountFails
  <2>2. CountsWhatIsThere'
    BY <2>1 DEF CountsWhatIsThere, IsFree, Counting
  <2>3. QED
    BY <2>1, <2>2 DEF Counting
<1>3. QED
  BY <1>1, <1>2, CountEntryStep DEF Next

\* The count of free clusters is never taken from the wrong sector, for every
\* size of a sector and of the FAT, and any number of its copies.
THEOREM CountRight == Spec => []CountsWhatIsThere
<1>1. Counting => CountsWhatIsThere
  BY DEF Counting
<1>2. QED
  BY <1>1, CountInit, CountStep, PTL DEF Spec

-----------------------------------------------------------------------------
(* Types.                                                                  *)

\* The type invariant but for what dir prints, and how far the count is.
Typed ==
  /\ dir \in [Entry -> DirEntry] /\ fat \in [0..(FatEntries - 1) -> BOOLEAN]
  /\ pc \in {"idle", "find", "label", "list", "free"} /\ want \in Name \cup {NoName}
  /\ s \in 0..ROOT_SEC /\ (pc \in {"find", "label", "list"} => s \in Sector)
  /\ failed \in BOOLEAN /\ found \subseteq Entry /\ label \subseteq Entry
  /\ e \in 2..(NFATS * FatEntries) /\ fatbuf \in -1..(NFATS * FAT_SEC - 1)
  /\ free \in Nat /\ free <= e - 2
  /\ pc \in {"label", "list"} => e = 2
  /\ pc = "free" => e < NFATS * FatEntries

LEMMA Sizes ==
  /\ ROOT_SEC \in Nat \ {0} /\ FAT_PER_SEC \in Nat \ {0} /\ NFATS * FAT_SEC \in Nat \ {0}
  /\ NFATS * FatEntries \in Nat /\ 2 < NFATS * FatEntries
  /\ NFATS * FatEntries = (NFATS * FAT_SEC) * FAT_PER_SEC
  /\ 0 \in Sector /\ \A x \in Sector : x \in 0..ROOT_SEC /\ x + 1 \in 0..ROOT_SEC
  /\ \A x \in Sector : ~LastRead(x) => x + 1 \in Sector
<1>1. /\ {ROOT_SEC, PER_SEC, FAT_SEC, FAT_PER_SEC, NFATS, CLUSTERS} \subseteq Nat \ {0}
      /\ CLUSTERS + 2 <= FatEntries /\ FatEntries \in Nat
  BY Fat16Assumption DEF FatEntries
<1>2. NFATS * FatEntries >= FatEntries /\ FatEntries > 2
  BY <1>1
<1>3. NFATS * FatEntries \in Nat /\ NFATS * FAT_SEC \in Nat \ {0}
  BY <1>1
<1>4. NFATS * FatEntries = (NFATS * FAT_SEC) * FAT_PER_SEC
  BY <1>1 DEF FatEntries
<1>5. 2 < NFATS * FatEntries
  BY <1>1, <1>2, <1>3
<1>6. /\ 0 \in Sector /\ \A x \in Sector : x \in 0..ROOT_SEC /\ x + 1 \in 0..ROOT_SEC
      /\ \A x \in Sector : ~LastRead(x) => x + 1 \in Sector
  BY <1>1 DEF Sector, LastRead
<1>7. QED
  BY <1>1, <1>3, <1>4, <1>5, <1>6

\* Where each operation begins.
LEMMA Start ==
  /\ 0 \in Sector /\ 0 \in 0..ROOT_SEC /\ 2 \in 2..(NFATS * FatEntries)
  /\ -1 \in -1..(NFATS * FAT_SEC - 1) /\ 0 \in Nat /\ 0 <= 2 - 2
<1>1. 0 \in Sector /\ 0 \in 0..ROOT_SEC
  BY Sizes
<1>2. 2 \in 2..(NFATS * FatEntries)
  <2> DEFINE n == NFATS * FatEntries
  <2>1. n \in Nat /\ 2 < n
    BY Sizes
  <2> HIDE DEF n
  <2>2. 2 \in 2..n
    BY <2>1
  <2>3. QED
    BY <2>2 DEF n
<1>3. -1 \in -1..(NFATS * FAT_SEC - 1)
  <2> DEFINE n == NFATS * FAT_SEC
  <2>1. n \in Nat
    BY Sizes
  <2> HIDE DEF n
  <2>2. -1 \in -1..(n - 1)
    BY <2>1
  <2>3. QED
    BY <2>2 DEF n
<1>4. QED
  BY <1>1, <1>2, <1>3

LEMMA TypedInit == Init => Typed
BY Start DEF Init, Typed

\* The steps of the search.
LEMMA TypedFind ==
  ASSUME Typed, (\E n \in Name : Find(n)) \/ FindSector \/ FindFails PROVE Typed'
<1>1. CASE \E n \in Name : Find(n)
  BY <1>1, Start DEF Typed, Find, disk
<1>2. CASE FindSector
  <2>1. Matches(s) \subseteq Entry
    BY DEF Matches, FirstOf, EntriesOf
  <2>2. s \in Sector /\ s' = s + 1 /\ pc' \in {"idle", "find"} /\ (pc' = "find" => ~LastRead(s))
    BY <1>2 DEF Typed, FindSector
  <2>3. s' \in 0..ROOT_SEC /\ (pc' = "find" => s' \in Sector)
    BY <2>2, Sizes
  <2>4. QED
    BY <1>2, <2>1, <2>2, <2>3 DEF Typed, FindSector, disk
<1>3. CASE FindFails
  BY <1>3 DEF Typed, FindFails, disk
<1>4. QED
  BY <1>1, <1>2, <1>3

\* The steps of the listing.
LEMMA TypedList ==
  ASSUME Typed, List \/ LabelSector \/ LabelFails \/ ListSector \/ ListFails PROVE Typed'
<1>1. CASE List
  BY <1>1, Start DEF Typed, List, disk
<1>2. CASE LabelSector
  <2>1. label' \subseteq Entry
    BY <1>2 DEF LabelSector, FirstOf, EntriesOf
  <2>2. s \in Sector /\ ((pc' = "list" /\ s' = 0) \/ (pc' = "label" /\ s' = s + 1 /\ ~LastRead(s)))
    BY <1>2 DEF Typed, LabelSector
  <2>3. s' \in 0..ROOT_SEC /\ s' \in Sector /\ pc' \in {"list", "label"}
    BY <2>2, Sizes
  <2>4. QED
    BY <1>2, <2>1, <2>3 DEF Typed, LabelSector, disk
<1>3. CASE LabelFails
  BY <1>3, Sizes DEF Typed, LabelFails, disk
<1>4. CASE ListSector
  <2>1. s \in Sector /\ ((pc' = "free" /\ s' = s) \/ (pc' = "list" /\ s' = s + 1 /\ ~LastRead(s)))
    BY <1>4 DEF Typed, ListSector
  <2>2. s' \in 0..ROOT_SEC /\ s' \in Sector /\ pc' \in {"free", "list"}
    BY <2>1, Sizes
  <2>3. QED
    BY <1>4, <2>2, Sizes DEF Typed, ListSector, disk
<1>5. CASE ListFails
  BY <1>5 DEF Typed, ListFails, disk
<1>6. QED
  BY <1>1, <1>2, <1>3, <1>4, <1>5

\* The steps of the count.
LEMMA TypedCount ==
  ASSUME Typed, CountEntry \/ CountFails PROVE Typed'
<1>1. CASE CountEntry
  <2>1. e \in Nat /\ e >= 2 /\ e < NFATS * FatEntries /\ free \in Nat /\ free <= e - 2
    BY <1>1 DEF Typed, CountEntry
  <2>2. e \div FAT_PER_SEC \in 0..(NFATS * FAT_SEC - 1)
    BY <2>1, Sizes, SectorBelow
  <2>3. fatbuf' \in -1..(NFATS * FAT_SEC - 1)
    <3>1. fatbuf' = e \div FAT_PER_SEC \/ fatbuf' = fatbuf
      BY <1>1 DEF CountEntry
    <3>2. fatbuf \in -1..(NFATS * FAT_SEC - 1)
      BY DEF Typed
    <3> DEFINE q == e \div FAT_PER_SEC
               n == NFATS * FAT_SEC
    <3>3. n \in Nat /\ q \in 0..(n - 1)
      BY <2>2, Sizes
    <3> HIDE DEF q, n
    <3>4. q \in -1..(n - 1)
      BY <3>3
    <3>5. QED
      BY <3>1, <3>2, <3>4 DEF q, n
  <2>4. free' \in Nat /\ free' <= free + 1
    <3>1. free' = free + 1 \/ free' = free
      BY <1>1 DEF CountEntry
    <3>2. QED
      BY <2>1, <3>1
  <2>5. e' = e + 1 /\ (pc' = "idle" \/ (pc' = "free" /\ e' # NFATS * FatEntries))
    BY <1>1 DEF CountEntry
  <2>6. e' \in 2..(NFATS * FatEntries) /\ free' <= e' - 2 /\ (pc' = "free" => e' < NFATS * FatEntries)
    BY <2>1, <2>4, <2>5, Sizes
  <2>7. pc' \in {"idle", "free"} /\ UNCHANGED <<disk, want, s, failed, found, label, out>>
    BY <1>1, <2>5 DEF CountEntry
  <2>8. QED
    BY <2>3, <2>4, <2>6, <2>7 DEF Typed, disk
<1>2. CASE CountFails
  BY <1>2 DEF Typed, CountFails, disk
<1>3. QED
  BY <1>1, <1>2

LEMMA TypedStep == ASSUME Typed, [Next]_vars PROVE Typed'
<1>1. CASE UNCHANGED vars
  BY <1>1 DEF Typed, vars, disk
<1>2. QED
  BY <1>1, TypedFind, TypedList, TypedCount DEF Next

\* No sector behind the root directory and none behind the copies of the FAT is
\* read, and every variable keeps its type.
THEOREM Typing == Spec => []TypeOK
<1>1. ASSUME Typed, Listing PROVE TypeOK
  <2>1. out \in Seq(Entry)
    <3>1. out \in Seq(Visible) /\ Visible \subseteq Entry
      BY <1>1 DEF Listing, Visible
    <3>2. QED
      BY <3>1
  <2>2. free \in 0..(NFATS * FatEntries)
    BY <1>1, Sizes DEF Typed
  <2>3. QED
    BY <1>1, <2>1, <2>2 DEF Typed, TypeOK
<1>2. Spec => []Typed
  BY TypedInit, TypedStep, PTL DEF Spec
<1>3. QED
  BY <1>1, <1>2, Listed, PTL
=============================================================================
