# KansoOS in TLA+

KansoOS is a small 32-bit kernel for PCs: a FAT16 hard disk, a VESA text
console, a PS/2 keyboard, a shell and one user program at a time. This directory
models it for TLC, from the reset of the machine to a program that returns to the
prompt, and proves the main safety properties with TLAPS.

Paths below are relative to the root of the repository, so the kernel is in
`src/`. `PROJECT.json` maps every definition to its lines (there the paths start
with one more `src/`), and lists runs, mutants, findings, hazards and theorems.

    tlc -config Keyboard.cfg MCKeyboard     # one run
    tlapm Keyboard_proofs.tla               # one module of proofs

## 1. The system

One CPU, ring 0 throughout, no scheduler. What runs beside the kernel's
program is IRQ1 and the hardware: the keyboard with its 8042 controller, the PIC,
the ATA and ATAPI drives and the clock. Interrupts are on from the `sti` of `kernel_main`, off in the
handler and in system calls (interrupt gates), and IRQ1 is masked while a user
program runs.

| Component | State | Operations | What is hard | What makes it correct |
|---|---|---|---|---|
| Keyboard driver, `drivers/keyboard.c` | `buf`, `head`, `tail` | init, IRQ1 handler, available, getchar | IRQ1 between any two instructions of the shell; edges latched by the PIC while masked; bytes left by the firmware | never wedges; each character returned once, the oldest first, without loss below the ring's capacity; each interrupt from the prompt on has a byte of its own; a sleeper wakes |
| PIC and IDT, `x86/pic.c`, `x86/idt.c` | masks, in service, gates | init, mask, unmask, EOI | order of unmask, drain, gate and `sti` | no interrupt before its gate; each is ended |
| `kernel_main`, `kernel/kernel.c`, `kernel/command.c` | `line`, `len` | boot, line editing, built-in commands | full line, correction across the edge of the screen | the screen shows what will be executed |
| Launcher, `kernel/user_exec.c` | `USER_PROG_MEM`, `USER_ARG_MEM` | `run_file`, `user_exec` | sizes of names, number of arguments, errors that are ignored | the file named is the file run; argc and argv describe the words |
| File table, `fs/fs_file.c` | `kfiles` | open, read, close, size | reuse of slots in any order, failing opens, programs that do not close | a descriptor stands for its file; nothing is lost |
| FAT16, `fs/fat16.c` | addresses of the regions | find, list, free space, read, 8.3 names | gaps, labels, sector borders, disk errors | finds the file, lists every file, counts free clusters, names the volume |
| Mount, `fs/fs_mount.c`, `drivers/bootdev.c` | `g_fs_ops`, `g_fs_blk` | mount once | no device | an unmounted system opens nothing |
| ATA, `drivers/ata.c`, `drivers/ata_block.c` | none; the drive's registers | read, write | a drive that is slow, busy or gives up in the middle | right sectors and no others, always returns, leaves the drive quiet, reports errors |
| ATAPI, `drivers/atapi.c` | the drive's registers | detect, read a sector | bounded and unbounded polling, what a call leaves in the drive | returns; the buffer holds the sector asked for or its fill |
| Clock, `drivers/cmos.c` | none; the clock's registers | read the date | a carry between two reads, a read within an update | a date between the call and the return |
| User heap, `kernel/mem.c` | `uheap_state` | umalloc, ufree | programs that do not free | one holder for each block |
| Console, `x86/console.c`, `x86/vbe.c` | `cx`, `cy`, the frame buffer | putc, puts, clear, scroll, printf | erasing beyond the edge, glyphs without background | no smeared cell, cursor on the screen |
| System calls, `x86/syscall.c`, `x86/syscall_entry.S` | saved registers | eight calls | dispatch | the file table's and the heap's |
| Texts, `lib/`, `debug/`, `user/lib/mystdio.h` | none | numbers, formats, dates, dumps | limits of buffers and of figures | the text stands for the number |
| Pictures, `x86/vbe.c`, `x86/gfx.c`, `lib/bmp.c`, `user/lib/gfx.h` | the frame buffer | points, shapes, images, flip | edges of the screen, padded rows | the right pixel of the right place |
| Tables, `x86/gdt.c`, `x86/idt.c`, `x86/paging.c` | the tables | descriptors, page walk | fields split over bytes | a descriptor decodes to what was put in |
| BIOS, `bios/` | the 8042, the VGA, the vectors | tests, int 0x10, 0x13 and 0x19 | bytes of the keyboard between those of the controller; a latched interrupt at `sti`; the card's flip-flop and protection | the boot sector is entered with the keyboard in set 1 and no interrupt taken |
| Boot, `boot/vbr.asm`, `boot/switch32.asm`, `kernel/a20.asm` | registers | load the kernel, raise A20, VBE, 32 bits | disk errors, older CPUs, keys | the kernel is entered whole, or not at all |
| Exceptions, timer, CPU, serial | | | see section 7 | |

How they interact: `kernel_main` calls `keyboard_getchar` and hands a line to
`run_builtin_command` or `run_file`; `run_file` goes through `fs_open`, FAT16 and
`block_read` to ATA, masks IRQ1 and calls the program; the program comes back by
`int 0x80` (file table, heap, console) and returns with `ret`. The only shared
state of two activities is the ring (handler and shell), the controller and PIC
(devices, handler, shell, and the BIOS before) and the drives' and the clock's
registers.

## 2. Modules

| Module | Models |
|---|---|
| `KeyStream` | what the keyboard path promises: the characters of the presses, in their order, abstract |
| `Keyboard` | 8042, PIC, IRQ1 handler, ring, boot order, getchar, masking around programs |
| `Keyboard_proofs` | theorems about `Keyboard` |
| `Handles` | what a table of handles promises, abstract |
| `Programs` | `run_file`, the file table over FAT16, the user heap, system calls |
| `Programs_proofs` | theorems about `Programs` |
| `AtaPio` | the ATA driver and the drive |
| `Console` | operators: what `kputc` and its kin do to cursor and cells |
| `Shell` | line editor over `Console`, commands, names and arguments of `run_file` |
| `Shell_proofs` | theorems about `Shell` and `kputs` |
| `Order` | operators: a set of numbers as a rising list, the order of a loop |
| `Order_proofs` | what `Order` gives, least and greatest numbers, induction, loops, joined sequences |
| `Fat16` | directory search and listing, and the count of free clusters |
| `Fat16_proofs` | theorems about `Fat16` |
| `AtaPio_proofs` | theorems about `AtaPio` |
| `Post` | the BIOS's test of the processor, over one stuck bit |
| `Boot` | from reset, or a PC's firmware, to the call of `kernel_main` |
| `Clock` | the date read while the clock runs |
| `Atapi` | the ATAPI driver and what may be the secondary master |
| `Startup` | the three together, with `kernel_main` between them |
| `Startup_proofs` | theorems about `Post`, `Boot`, `Clock`, `Atapi` and `Startup` |
| `Text` | operators: numbers, formats, dates, comparisons, dumps, the teletype |
| `Pixels` | operators: which pixel each drawing routine writes with what |
| `Tables` | operators: descriptors of GDT and IDT, page tables and their walk |
| `Vga` | operators: the writes of int 0x10 to the video card, in their order |
| `Routines` | calls of the four, and what each should give |
| `Routines_proofs` | theorems about `Text`, `Pixels`, `Tables`, `Vga` and the calls of `Routines` |
| `MC*` | small instances for TLC |

Modules that use others: `Startup` extends `Boot` (which extends `Post`), `Clock` and
`Atapi`, and `Routines` extends `Text`, `Pixels`, `Tables` and `Vga`; `Shell` extends `Console`; `Shell` and `Fat16`
use `Order`; `Keyboard` is shown to
implement `KeyStream`, and `Programs` to implement `Handles`. The others meet at
narrow interfaces: what `Keyboard` delivers is an arbitrary character of `Typed`
in `Shell`; what `Fat16` finds is an arbitrary success or failure in `Programs`
(`found`); the `block_read` of `Fat16` and `Programs` is an `AtaPio` call, which
returns its sectors or fails. `Startup` ends where `Keyboard` begins, and `Boot` leaves
any byte in the 8042 and any latched edge, as `Keyboard` assumes.

### Keyboard

`down`, `devq`, `obf` and `data` are the keyboard and the controller; `irr`, `isr`
and `imr` are the PIC's bits for IRQ1; `IFlag` and `gate` are the CPU's and the
IDT's. None of these is in the repository, so they are written from how the
drivers use them: a byte in the output buffer holds the line high, a rising edge
is latched whether masked or not (and stays latched, as in QEMU's PIC, when the
line falls), reading port 0x60 lowers the line and reads the old byte again if
there is none, and ICW1 forgets latched edges. `hpc` and `hc` are
`keyboard_handler`; `pc`, `c` and `shell` are the program from `pic_init` on.
`Init` lets the firmware leave a byte, a latched edge and any mask. Keys that the
keyboard still holds at the prompt do reach the shell, as typed ahead.

`KeyStream` knows keys, not the ring: a press appends the key's character, a return
of `keyboard_getchar` (`Given`: the shell is at "got" with `c`) hands over the head
and removes it, and a character goes missing only behind `Capacity` others, or at a
press that finds the keyboard's buffer full (`jammed`).

Each action is a piece that IRQ1 cannot split: the test of `keyboard_getchar`, its
`hlt`, the load of `buf[tail]` and the store of `tail` are four, the handler has
four of its own, and `At` says that the program executes only outside the handler
and when no interrupt is to be taken. `keyboard.c` is compiled without
optimisation (`build.sh:56`), so the plain load of `buf[tail]` stays between the
accesses to the volatile indices. A store to `buf` and the following store to
`head` are one action, because nothing can look between them with interrupts off.

### Programs

`kfiles` and `uheap` are the kernel's tables; `held`, `blocks`, `lostFds` and
`lostBlocks` record who holds what, which no kernel variable does; `progmem` is
what lies at `USER_PROG_MEM`. System calls run with interrupts off and share
nothing with the handler, so a call is one step, with its failures as separate
actions. `fat16_open_op` and `fat16_read` are inside `FsOpens` and `SysRead`: a
read moves `pos` by one cluster and looks at neither `size` nor `pos`. `RunFile`
opens, loads one cluster and closes; `RunFileReadError` is the same with the read
failing, whose result the code drops.

Programs use the descriptors and blocks they were given. Foreign descriptors are
refused by the range and `used` tests or belong to the same program.

### AtaPio

The drive's `bsy`, `drq` and `err` are the status bits; `cmd`, `at`, `left` and
`cache` are its progress. The drive settles, asks for a sector, commits one or
fails, at any time. The driver's polling loops are guards: a loop that does not
find its bit is a stutter. A sector's 256 words are one step, since the drive
waits for all of them. `before` is a history variable, the media at the call, so
that a property can say what a call did not change. A drive that raises ERR gives
its command up: the driver never resets it, and `QuietAfterReturn` after an error
rests on that.

### Console and Shell

A screen is `[cx, cy, text]`; `text` is what the pixels show. `draw_char` draws no
background, so a glyph over a glyph is `Smeared` and a space changes nothing;
`draw_rect` of the background erases. `kputc` does not wrap a line: right of the
last column the clipping of `putpixel` loses the glyph, and `cx` goes on.

`Shell` takes one typed character, Enter or program output as a step. `EnterRun`
is `run_file` up to `user_exec`: `Word`, `WithSuffix`, `To83`, `Argc` and `Argv` are its
loops, written as sets and sequences. `Argv` lists the elements that are written,
as offsets into the arguments; an element that the loop never writes is absent.
Sizes are constants, so that lines of five characters meet every limit.

### Fat16

A directory is a function from entry numbers to a kind and a name; `kind` stands
for the first byte and the attribute bits that the code tests; a deleted entry with
attribute bit 3 is a kind of its own ("erased"), because the pass for the label tests
only the bit. One `block_read` is
one step and may fail. `fatbuf` is the sector of the FATs that `fat[512]` holds.
Directories are arbitrary as far as a formatter and `mtools` write them: nothing
follows an end, and no two files have one name.

`InOrder`, of `Order`, is the order of the loop over a sector's entries.

### Boot

The machine is QEMU with this BIOS, or a PC with its own firmware (`README.md:41`
says that the BIOS is only for QEMU): two initial states of one model. A PC's
firmware begins at the boot sector, with interrupts on, a handler for IRQ1 and a
processor of any generation. `ibf`, `answer`, `out`, `sent` and `want` are the 8042's two
buffers, an answer it owes, the bytes the keyboard owes, and where the next datum
goes. QEMU's 8042 answers before the next instruction (`Settled`), a PC's takes its
time. A byte is one of four kinds, an answer that is the configuration or the
output port, a keyboard's reply, or a key, and the properties ask which kind was
taken for which.

`Sends`, `Receives` and `Drains` list the waiting loops of `8042.asm` and `a20.asm`: where
each waits, what it writes or keeps, and where it goes on; `Send`, `Receive` and
`Drain` are the three forms of loop. `shadow` is the instruction after `sti`, which
runs before any interrupt. `Cpupost` keeps what the test does to the stack: it ends
with SP = 0, so its `ret` takes the word at 0:0, the start of the BIOS on zeroed
memory, and the BIOS runs on only after a second pass. `DiskSector` polls DRQ and no
error, as the code does.

`A20Fast` is the call of `switch32.asm:37`: port 0x92 is no part of the 8042.

`Post` is the test as a function of a fault. A stuck bit of AX is the one it cannot
see, since the test compares with AX itself.

### Clock

`now` is the clock, `rtc` what has been read, from the seconds up. An update
(`UpdateBegins`) raises one register and clears those below; which register, is any, so
that every calendar is among the behaviours. The registers then change one after
another, from the seconds up (`UpdateMoves`), and a read may come between: `cmos.c` does
not look at the update flag. `torn` notes such a read, for the properties only. A
register holds BCD, and `BcdToBin` decodes it. What a real chip shows in the middle of
an update is undefined; the model shows old and new registers mixed, which is the
mildest case.

### Atapi

`kind` is what is on the cable: nothing, a packet drive, a drive that rejects the
command, or a bus that reads as ones. `st` is its status, `owed` what it still has
to hand over, in bursts of any size, and `count` the byte count of this burst. Each
polling loop of `atapi_read_sector` is a counter with a bound (`POLLS`), except
`wait_clr`, which has none, as in the code.

### Startup

`stage` says which part of the start runs: the BIOS and the boot, the reading of
the clock, the mounting, and from then on calls of the optical drive. The parts
share no variable, so that each stage leaves the others' alone; `KernelMain`, `DateRead`
and `Mount` are what `kernel_main` does between them. The parts' definitions carry the
part's name (`BootNext`, `ClockNext`, `AtapiNext`) because `Startup` EXTENDS them: TLC
then evaluates their assumptions, and what is proved of a part's steps holds of the
whole.

### Text, Pixels, Tables, Vga and Routines

Pure routines are operators, their loops recursive functions over the rounds
(`Scanned`, `Filling`, `LineStep`, `Copied` and `Tty` are one round each) or closed forms. A
drawing is the set of its writes, a text a sequence of characters, the video card a
record of its registers. `Routines` calls each with every input of small sets and
states the result without the algorithm: a numeral by the number it stands for, a
date by its fields, a line by its distance from the ruled one, a colour of the
text screen by its bits. The formats of the calls are made of pieces (`Kinds`): `Chars` are a
piece's characters, `Passed` its arguments, and `Meant` the text that it should become.

## 3. Runs

| Run | Result | Shows | Bounds |
|---|---|---|---|
| `keyboard` | pass | `NeverWedged`, `BootOrder`, `NoGhost`, `RingIsFifo`, `ServedWhileTyping`, and that `Keyboard` implements `KeyStream` | ring of 3, a letter and Enter, one key held, one scancode in the keyboard |
| `keyboard_sleep` | violation | `SleeperServed` | ring of 2, two scancodes in the keyboard |
| `programs` | pass | `FdMeansItsFile`, `TableAccounted`, `HeapAccounted`, and that `Programs` implements `Handles` | 3 slots, 3 blocks, 2 files, one read for each descriptor |
| `programs_stale` | violation | `RunsNamedFile` | the same, one file of two clusters |
| `ata` | pass | `ReadGetsSectors`, `QuietAfterReturn`, `WritePutsSectors`, `EveryCallReturns` | 3 sectors, 2 contents, commands of 1 or 2 |
| `shell` | pass | `PromptShowsLine`, `NothingSmeared`, `NameFits`, `ArgvOfPlainLine` | lines of 5, names of 4, 4 by 2 cells, 4 characters |
| `fat16` | pass | `FindsTheFile`, `ListedOpens`, `ListsAll`, `CountsWhatIsThere` | 2 sectors of 2 entries, 2 copies of a FAT of 2 sectors of 3, 3 clusters, 2 names |
| `fat16_free` | violation | `FreeSpaceTrue` | the same |
| `startup` | pass | `NoInterruptInBios`, `KernelLoaded`, `QuietKeyboardReady`, `SectorOrFill`, `NeverEarly`, `StartEnds`, `AtapiReturns` | kernel of 2 sectors, 2 scancodes, a clock of 2 registers of 2 values, discs of 2 sectors in 2 pieces, 1 poll |
| `clock_update` | violation | `ReadsCurrentTime` | 3 registers of 3 values |
| `boot_a20` | violation | `ReadsOutputPort` | kernel of 1 sector, 1 scancode |
| `routines` | pass | `Decodes`, `TextRight`, `MapsRight` | 14 numbers, screen of 4 by 3 in rows of 5, 4 page tables of 4 pages, 3 calls of int 0x10 |

Every property of a passing run has a mutant, a plausible slip in the code under
which TLC finds the property violated.

Why the bounds are enough. A ring of 3 is empty, partly full, full and wrapped,
with the handler at each place of `keyboard_getchar`; a release is a scancode without
a character, as a key like Shift is (`HasChar`), and the theorems hold for every keymap; one
scancode in the keyboard is enough for it to drop one. The
ring's properties are proved for every size. Three slots allow a hole between
used slots, and the table and heap properties are proved for every size. Two
sectors of a command have a first, a last and an error between; a third sector
shows an access outside the command. A line of five meets the end of the line, the
end of the name, the missing room for the suffix and the right edge of a screen
of four columns; two rows scroll. Two sectors of two entries have an end, a gap
and a label at each place on either side of a sector border; a FAT sector of
three entries has a first one, and ones that rely on the sector read before.
A kernel of two sectors has a first and a last one; two scancodes are one taken for
the controller's answer and one behind it; a clock of two registers, the faster one
going from one figure to two, has updates and carries before, between and after the
reads, and `NeverEarly` is proved for every number of registers; one poll is a loop that ends
before and after the drive is ready. The numbers have each count of figures on
both sides of a comma, the places lie on, in and off the screen, so that every
clipping occurs. `PosMax`, `DownMax`, `DevMax`, `CxMax` and `KeyMax` bound counters that nothing else bounds.

Symmetry is used for files (`programs`) and names (`fat16`), which are only compared
for equality, and in runs without a liveness property. Deadlock is checked in
every run but `startup` and `boot_a20`, where the machine really may stop: halted with
a message, reset, or lost; and `clock_update`, which ends with the last read.

## 4. Fairness

`Keyboard`: weak fairness for the controller (`Load`), the CPU's taking of an
interrupt and the handler, and for the release of each held key; strong fairness
for the kernel's own steps, because every interrupt disables the next step for a
while. No fairness for pressing keys, and none for `UserReturns`: a program need
not return, and no kernel code makes it. `ServedWhileTyping` therefore has two
premises: interrupts keep coming (so no program runs for ever), and the handler
is done with them again and again (`CaughtUp`; a stream of interrupts that never
leaves the shell a step is not a promise the code makes).

`AtaPio`: weak fairness for the drive, which ends what it began, and for the
driver, which polls. Nothing makes a caller call.

`Startup`: weak fairness for the CPU's steps in each stage, for the 8042 (`BootController`),
the disk (`BootDisk`) and the optical drive (`OpticalDrive`), which end what they began,
and for the reading of the clock. No fairness for keys, ticks or calls. `StartEnds`
and `AtapiReturns` name the waits that have no end: a disk that failed, a drive that
rejects IDENTIFY or a bus of ones, and what a call left in the drive.

The other modules state safety only.

## 5. What the code does not keep

Five runs find a statement of the source or its documents violated by the code.

- `SleeperServed`. `keyboard_getchar` tests with interrupts on and then halts. IRQ1
  between the two leaves a character in the ring and a shell asleep. On a
  physical keyboard the release of the key usually follows later and wakes it;
  press and release in one gap need a CPU that is held up there, as a virtual CPU
  is. Then the character waits until another key is used, at the latest.
- `RunsNamedFile`. One cluster is loaded whatever the size, and a failed read is
  not noticed.
- `FreeSpaceTrue`. All copies of the FAT are counted, and the entries behind the
  last cluster.
- `ReadsCurrentTime`. The registers of the clock are read one by one, without the update
  flag and without a second reading: the date may be before the call (a read within
  an update) or ahead of the return (a carry between two reads).
- `ReadsOutputPort`. `a20_enable_8042` takes whatever byte is in the output buffer for
  the output port. A key used just then is written back as the port, whose bit 0
  resets the machine when it is 0.

What else the code does that a reader might not expect, met while modelling. Where a
property's premises leave it out, the property is named:

- `ata_wait_busy` looks at BSY only (`ata.c:6`), so a write whose last sector failed
  returns 0, against `ata.h:13`. No caller writes yet. `WritePutsSectors` therefore asks for a
  clear error bit.
- `num_with_commas` counts the commas it wrote (`fat16.c:215`): 123456 becomes `1,23,456`.
  `TextRight` says of every number that its figures are right, and up to five figures
  that its commas are.
- `%c` of `kprintf` moves the argument pointer by one byte (`console.c:149`), and what is
  converted after it is mixed of two arguments. No caller uses `%c`; `TextRight` is about
  formats with none before a conversion (`CharLast`).
- The search for the volume label does not skip deleted entries (`fat16.c:289`): a removed
  label, or the long name of a removed file, becomes the name of the volume.
- The 0x20 that `vbe.asm:16` writes to initialise the flip-flop of 0x3C0 turns it over
  instead: after a mode set it is the datum of palette register 0. The mode sets come out
  right from either state (`MapsRight`), as they read 0x3DA first.
- Descriptors left open by programs are never taken back (`lostFds`); when all eight
  are gone the shell starts nothing any more. That this is the only way follows from
  `TableAccounted`.
- A space behind the name writes `argv[1]` even if `argc` is 1, and two spaces make an
  empty argument (`ArgvOfPlainLine` is about lines without them).
- `.bin` is added at the end, but the 8.3 name takes its extension after the first
  dot: `test.txt` finds `TEST.TXT` and runs it.
- `pr_dos_datetime` pads no minutes: 9:05 is `9:5a`.
- A disk that fails in int 0x13 stops the boot (no look at ERR), and the carry flag
  of a result is undone by `iret`.
- `switch32.asm:83` returns on an empty stack when VBE fails, and a 286 passes the
  8086 test of `vbr.asm` and is lost at the first 32-bit register.
- An ATAPI call that timed out leaves its sector in the drive, and the next call
  waits for it without end; of a sector in several bursts only the first is read.
- Mode 3's bright blue, cyan, magenta and white lack a quarter of their other
  components (`vga.asm:273`: 0x09 and not 0x39).
- Mode 13's table of the sequencer holds what belongs into registers 1 to 4 and is written
  from register 0 on, and its attributes are one byte short, so that the first byte of
  the palette follows. (`vga.asm:2` says that the mode is being worked on.) `Loaded` states
  these registers as the code leaves them.
- No mode set turns VBE off: after VBE's call the picture stays VBE's. `MapsRight` says of
  such a sequence what is in the registers, not which picture they give.
- `debug_dump_stack` shows the words on both sides of esp and not the one at esp
  (`debug_print.c:149` and 161).
- `fat16_read` fills a whole cluster, whatever the length of the buffer. The models do not
  lay out the memory of programs, so no property says this.
- The number of an unknown system call falls through to `syscall_write`
  (`syscall_entry.S:43`).
- `gfx_do_flip` and `draw_bmp` trust their sizes; a header that is no BMP leaves
  `draw_bmp`'s width and height unset.

## 6. Proofs

The assumptions are named in the modules, and TLC evaluates them on every run. Besides sizes that
are at least one:

- `KeyboardAssumption`: a ring of at least two slots, a keymap into characters or `NoChar`.
- `ProgramsAssumption`: at least one slot and block; `NoFile` and `Garbled` are no files.
- `ShellAssumption`: lengths are numbers (a line and a screen are not empty), the
  space and the dot can be typed, `\n` and `\b` are not among what a cell may show, the
  suffix holds no space, and what a program prints is finite.
- `BootAssumption`: `KeyMax` is at least 1. It is a bound for TLC only, and a larger one
  means more behaviours.
- `Fat16Assumption`: a FAT has room for the clusters and the two entries before them, which
  its first sector holds.
- `ClockAssumption`: each register of the clock has a first and a last value, in that
  order, and none above 99: two figures of BCD.
- `TablesAssumption`: a page table fills a page of entries of four bytes, and the tables
  start on a page.
- `PixelsAssumption`: a row of video memory has room for the pixels that are seen of it.
- `RoutinesAssumption`: an `int` that `itoa` can negate (-2^31 is excluded: `itoa.c` negates
  it in an `int`, which is undefined in C).

The steps of a proof that an invariant is preserved follow the actions; where an
invariant is not inductive the strengthening is named and explained here.

### Keyboard_proofs

`NeverWedged`, `BootOrder` and `NoGhost` are not inductive: whether
a request owns a byte depends on where the program is. `IInv` adds `ProgramPlace`
(the gate is set and IRQ1 unmasked exactly where the boot order and `run_file` put
them, and the handler runs only after `sti`) and `OneByteEach` (from the prompt on,
a request and a handler about to read own one byte each, which is what makes
the stale interrupt of the drain harmless). `Invariance` gives the four theorems on
types, wedging, boot order and ghosts. `RingInv` then says that the slots between
`tail` and `head` hold characters; its steps rest on `DistVal`, the distance of two
slots without the remainder. `PushWaiting`, `AdvanceWaiting` and `SameWaiting` say
what each writer does to `Waiting` as a sequence, and `RingFifo` combines them: the
ring is a queue for every size: the end of `buf_push` appends its character or finds
`KBD_BUF_SIZE - 1` waiting, and the return of `keyboard_getchar` takes the oldest, which is
the one it returns.

`KeyboardIsStream` is the refinement: `Keyboard` implements `KeyStream` for every ring,
keymap and set of keys. A character is, from the key to the shell, in one of four
places: the keyboard's queue (`Chars(devq)`), the controller (`Held`), the handler
(`Pushing`) and the ring (`Waiting`); `Stream` is these four in a row. `PressStream` and
`ReleaseStream` append at its end, `LoadStream` and `ReadStream` move a character from
one place to the next and leave the whole alone, `AdvanceStream` takes the head,
which is what `Given` becomes, and `PushStream` either moves one or loses it. That a loss needs a full ring is `Lost`: what
is dropped was behind `KBD_BUF_SIZE - 1` others, which is the guard of the abstract
`Lose`. Before the prompt the drain empties what the firmware left, the abstract `Flush`.
`Chars` is a recursive function over the length of the queue; `CharsAppend` and
`CharsHeadTail` are what the steps need of it.

### Programs_proofs

`IInv` is `TypeOK` with the three accounting invariants and "at the
prompt nobody holds anything". The argument is that `AllocFd` gives an unused slot
(`AllocFdFree`) and that a write to one slot changes `Used` by that slot only
(`SlotWritten`). `TableIsHandles` maps each step to an `Open`, a `Close` or a stutter of
`Handles`.

### AtaPio_proofs

`IInv` relates the driver's place to the drive's: how many sectors the
command still owes (`left`) against how many the loop has moved, where the transfer
is, and that outside a call none is pending. `ReadsRight` and `WritesRight` say for every
number of sectors that what a successful call moved is what was asked for; of a write
also, through `Kept`, that at no time another sector is changed (`KeptStep` for the steps
that leave the media, `CommitStep` for the one that does not). A write counts as
successful when the error bit is clear too: its return value does not say it.

### Fat16_proofs

`Searching` says that what bears the name lies in no sector read so far,
which with "one entry for a name" makes the sector's matches the file or nothing;
`EntrySector` and `NextPlace` are the arithmetic of sectors. `Counting` adds that the
buffer holds the sector of the last entry counted, which `MustRead` keeps. `Listing`
says that the entries listed are those shown (`Visible`) in the sectors read, each once;
`ListedRight` and `AllListed` follow: what is listed can be opened, and all is listed.

### Shell_proofs

`KputsByKputc` reads `kputs` as its loop, one `kputc` after another, and `KputsKeeps` carries
over to a text what one `kputc` keeps. `Screens` are the consoles on which nothing is drawn from
the cursor on (`Clear`): this is what keeps a glyph from being drawn over a glyph,
since `draw_char` erases nothing, and it is why a `\b` must erase and a scroll must
clear the last row. `Shows` says that the row of the cursor shows the prompt and the
line up to the right edge. `RunOf` says what `run_file` makes of a line; `NameHeld` bounds the
name with its suffix by the buffer, and `ArgvRight` finds the written elements of `argv` to be
the beginnings of the words, by the list of the places of spaces (`OneOrder`: two
rising lists of one set are one list).

### Startup_proofs

Boot. `PostFindsFaults` computes that the test passes exactly a sound processor
or one with a stuck AX. `BootIInv` says where interrupts are off (`Masked`), what has
been checked at each place (`Checked`), and that the sectors read are the first ones
(`Sectors`). `BiosMasked` and `KernelComplete` follow for every size of the kernel and any
number of keys. `KeyboardReady` is the sequence of the 8042 when no key is used: `Quiet`
names at each place what is under way between CPU, controller and keyboard, an answer
owed (`Asked`), a byte announced (`Announced`) or handed over (`Given`), or nothing (`Silent`),
so that each byte the boot takes is the one it asked for.

Clock. As long as no read fell into an update, what has been read is compared with what
the clock showed at each read: reading upwards, the registers still to come are at least
the call's, or a register above the read ones has been raised. `BcdToBin` undoes `Bcd` for
numbers of two figures.

Optical drive. `AtapiIInv` ties the drive's phase and the sector of its command to the
driver's place, so that data that is ready is of the sector asked for.

The whole. `IInv` is the parts' invariants (`BootKnown` for the boot), `Staged` (what
`kernel_main` knows at each stage) and "the clock is unread in the BIOS's stage"; a step
of the whole is a step of one part and a stutter of the others, so the parts' step
lemmas carry over, and types and five safety properties hold of the whole.

### Routines_proofs

The three invariants speak of the call made last, so they are inductive as they stand;
the work is in the routines. Each has a lemma about its result for whatever it is
given, much wider than the calls of the run, and a lemma `...Step` that takes the result from
the call of that name (`WhichCall`). `AllDecodes`, `AllMapsRight` and `AllTextRight` put these
together for every buffer, line, screen and table size, all numbers and all coordinates.

Numbers. `FiguresRight` is the do-while of `itoa` and `utoa`, for every number in base 10 and 16: the
figures, turned round, read back as the number (`NumberOf` is the reader), and none is a
leading zero. `UtoaStands` and `ItoaStands` are its consequences. `HexStands` says it of `itoa_hex`
and every 32-bit word: `ShiftFits` is that each shift by four bits leaves one figure less, so
that nothing is left after eight. `GdtDecodes` and `IdtDecodes` put the parts of a descriptor
and of a gate together again. `WalkIsIdentity` is the page walk for tables of any size,
from the uniqueness of a quotient (`OneQuotient`).

Drawings. Shapes and pictures are shown to be the set of their points, clipped. A line
is a path of turns (`Points` may not end, so `LoopsWrite` shows that its recursion has a
solution, and `LoopWrites` that any solution is what the turns of a path that ends have).
`Straight` is the path of a line that is not steep: `BandKept` keeps `err` in a band of two
lengths, so that every turn takes a step along and none strays further than half a
pixel; `SwappedPath` exchanges the sides for the steep ones, and `LineRuled` is the result.

The card. `RegistersSet` says what both mode sets leave from any state of the card, as
protection is lifted before the CRTC is filled: misc, sequencer, CRTC, graphics,
attributes and palette; `Mode3Set`, `Mode13Set` and `VbeSet` follow the
writes one by one. `AllCalls` is the induction over the calls: what is seen after k of them
(`LeftBy`) depends on the last mode set and on VBE after it. `TextColours` follows an
attribute through its register to the palette.

Texts. `GroupedRight` and `FiveFigures` are the two halves of `num_with_commas`: without commas the
number, and up to five figures the commas in place. Dates are read back from their
words (`FieldsApart`). `RowsDumped` and `StackRight` say of the two dumps what is in them, which
is all that was asked for and, of the stack, nothing twice. The loops over a format go over one piece in a round: `ScanOne` says so of
`kprintf`, `FillOne` of `printf_d` and `printf_x`, whose buffer ends in the middle of a piece or
between two (`FirstMore`). `KprintfRight` and `PrintfOneRight` are the inductions over the pieces, for
formats of any length; `Read` names where `arg_ptr` stands, at a slot's start as long as no
`%c` came by, which is why the hypothesis `CharLast` is needed. `StrcmpRight` and `MemcmpRight` hold
for bytes and strings of any length. `CursorRight` keeps the column of the cursor through CR and
LF, and `CursorBound` keeps it on the screen of the calls.

### Order_proofs, and recursion

The library's induction takes an operator, which the provers cannot be given. A set can
be given: `Induction` says that a set that holds 0 and with each number the next holds
all numbers, and follows from `Least`. Each proof about a recursive function defines the
set of the lengths (or numbers) for which the claim holds. That the function exists at all
is proved in the same way (`FiguringExists`, `Loops`, and their like), as
TLA+ defines it by `CHOOSE`. For this the loops in question are recursive functions over
an interval (`Kputs`, `Chars`, `Figures`, `Kprintf`, `Typed`, `NumberOf`) and the sorted list is
`InOrder`: a fold takes an operator, which the provers cannot be given. The rest of the module
is what a proof about texts needs again and again: where everything stands in joined
sequences (`Concatenated`), the first so many of one (`First`), and one that stands in a longer
one (`Within`).

### Model-checked only

Liveness (`ServedWhileTyping`, `EveryCallReturns`, `StartEnds`, `AtapiReturns`), since fairness and
ENABLED are out of the prover's reach. Every invariant, every action property and both
refinements of the passing runs are theorems.

## 7. What is not modelled, and why

- `bios/font_8x16.c`, `x86/font_8x16.c` and `kernel/penguin_bmp.h`, two thirds of all lines:
  pictures, data without behaviour.
- `kernel/old`, `x86/old`, `boot/old`: not built. `drivers/devmount.c`: not built, a copy of
  `bootdev.c`.
- CPU exceptions: each handler prints and halts for good.
- The timer and the PIT: `timer_init` is commented out. `enable_paging` is too, but its
  tables are in `Tables`.
- The kernel heap: no caller.
- Boot screens, the CPU's name, the cache bits, the serial port: straight output, one
  after another, nothing reads them back.
- `cdboot.asm`: the load of `vbr.asm` from a CD, without its checks.
- `fat16_init`: the regions' addresses are constants of one format; the boot sector's
  LBA 72 is a constant of `Boot`.
- The entry of a system call beyond its dispatch: the saving of the registers, and EAX
  given back through the stack.
- The user programs one by one: `Programs` lets a program make any calls with what it
  was given.

Assumed: zeroed `.bss` (the loader clears nothing; QEMU's memory is zero), one
drive, programs that use only what they were given, a kernel that ends below
`USER_PROG_MEM` (0x10000, so 32 KB).

What could come next: `Fat16` over `AtaPio` through `block_read` in one behaviour,
`Boot` and `Keyboard` over one 8042, and a finer bus for `AtaPio`, on which BSY takes 400 ns
to rise.
