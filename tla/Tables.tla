-------------------------------- MODULE Tables --------------------------------
(***************************************************************************)
(* The tables the kernel fills for the processor: descriptors of the GDT   *)
(* and the IDT (x86/gdt.c, x86/idt.c) and the page tables (x86/paging.c).  *)
(* Words are below 2^31, the largest TLC can hold.                         *)
(***************************************************************************)
EXTENDS Integers, Sequences

CONSTANTS
  ENTRIES,      \* entries of a page table and of the directory (1024)
  PAGE,         \* bytes of a page (4096)
  TABLES_AT     \* address of kernel_page_tables, page-aligned

ASSUME TablesAssumption ==
  /\ ENTRIES \in Nat \ {0} /\ PAGE = 4 * ENTRIES
  /\ TABLES_AT \in Nat /\ TABLES_AT % PAGE = 0

\* gdt_set_gate
GdtGate(base, limit, access, gran) ==
  [base_low |-> base % 65536, base_middle |-> (base \div 65536) % 256,
   base_high |-> (base \div 16777216) % 256, limit_low |-> limit % 65536,
   granularity |-> ((limit \div 65536) % 16) + (gran \div 16) * 16,
   access |-> access]

\* Descriptor n of a GDT is its element n + 1.  Of a limit of 4 GB only the 20
\* bits that are kept are given.
Null == GdtGate(0, 0, 0, 0)
Flat(access) == GdtGate(0, 1048575, access, 207)

\* gdt_start, which is in force up to gdt_init; gdt_init; and tss_init, whose
\* descriptor is written into the table already loaded.
BootGdt == <<Null, Flat(154), Flat(146)>>
GdtInit == BootGdt \o <<Flat(250), Flat(242), Null>>
TssInit(gdt, tss, size) == [gdt EXCEPT ![6] = GdtGate(tss, size - 1, 137, 0)]

\* GDT_TSS, the selector ltr loads.
GdtTss == 40

\* idt_set_gate: always an interrupt gate of the kernel's code segment.
IdtGate(handler) ==
  [offset_low |-> handler % 65536, selector |-> 8, zero |-> 0,
   type_attr |-> 142, offset_high |-> handler \div 65536]

\* The tables enable_paging writes; 3 is present and writable.
PageEntry(dir, tbl) == dir * ENTRIES * PAGE + tbl * PAGE + 3
DirEntry(dir) == TABLES_AT + dir * ENTRIES * 4 + 3

Absent == -1

\* virt_to_phys: the walk of a directory and of the page table it names.
VirtToPhys(virt) ==
  LET pde == DirEntry((virt \div (ENTRIES * PAGE)) % ENTRIES)
      dir == ((pde - (pde % PAGE)) - TABLES_AT) \div (ENTRIES * 4)
      pte == PageEntry(dir, (virt \div PAGE) % ENTRIES)
  IN IF pde % 2 = 0 \/ pte % 2 = 0 THEN Absent
     ELSE (pte - (pte % PAGE)) + (virt % PAGE)
=============================================================================
