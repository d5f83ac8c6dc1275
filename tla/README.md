# openGPOS in TLA+

A verification development for openGPOS, a small operating system for the
RP2040: TLA+ modules for its core components, TLC configurations that check
them on small instances, and TLAPS proofs. Every definition is translated from
the C source; `PROJECT.json` maps each one to its lines.

## The system

There is one thread of control. The start-up code copies `.data`, clears `.bss`,
brings up clocks and blocks; the kernel initialises the SD card, mounts the FAT32
volume, loads `/bin/init.elf` and jumps to it; the program makes system calls.
What runs beside the CPU is hardware: the blocks that come out of reset in their
own time, the DMA, the timer, SysTick, the UART's FIFO, the SPI controller with
its FIFOs, the card. What makes the system hard is failure (any transfer may fail,
between any two assignments), order (a byte read over SPI was clocked in several
transfers ago; a block must have answered before it is used), exceptions (SysTick
between any two steps) and long sequences of legal calls (the heap's list, file
handles, iterators).

| Component | State | Operations | Interacts with |
|---|---|---|---|
| Heap (`libc/src/stdlib/heap.c`) | list of headers in the heap | `init_malloc`, `malloc`, `realloc`, `free` | called by `loadELF` and programs; `realloc` calls `memcpy` |
| FAT32 volume (`driver/fs/FAT32.c`) | `g_fat32_volume_info` | `fat32_init` (`parseMBR`, `parseBPB`), `getNextCluster`, `fatClusterToLba` | SD reads |
| FAT32 files (`FAT32.c`) | `open_file_handles` | `fat32_open`, `fat32_read`, `fat32_get_size`, `fat32_close` | volume, SD reads; used by `loadELF` |
| FAT32 directories (`FAT32.c`) | the caller's iterator, LFN buffer on the stack | `fat_init_root_dir_iterator`, `fat_read_next_dir_entry`, `get_file` | volume, SD reads; used by `fat32_open` |
| SD driver (`lib/sd/SD.c`) | chip select, counters of the call in progress | `SDInit`, `sdReadBlock`, `sdReadPartialBlock`, `sdWriteBlock`, `SDShutdown` | SPI, card |
| SPI driver (`driver/spi/spi.c`) | two FIFOs | `spi_send_byte`, `spi_read_byte` | controller |
| ELF loader (`lib/elf/elf.c`) | a buffer, memory at the program's addresses | `loadELF` | files, heap |
| Boot (`kernel/main.c`) | - | `kernel_main` | everything |
| Start-up (`startup_rp2040.c`, `system_rp2040.c`) | blocks asked for and answered, `.data`, `.bss`, SysTick | `resetHandler`, `SystemInit`, `resetSubsys`, `defaultHandler` | `memcpy`, `kernel_main` |
| DMA and memcpy (`driver/dma`, `libc/src/string/memcpy.c`) | a channel | `dma_transfer_start`, `dma_transfer_await` | start-up, heap, loader; sleeps with `usleep` |
| Time (`libc/src/unistd`) | - | `usleep` | the timer, read in two halves |
| System calls (`kernel/syscall.c`, `libc/src/unistd/write.c`) | the stacked frame | `svCallHandler`, `do_syscall`, `sys_write` | programs, UART |
| UART (`driver/uart/uart.c`) | transmit FIFO | `uartTx`, number printers | system calls, everybody's messages |
| Strings, hex helpers, names, checksum of the boot stage | - | pure functions | FAT32, UART, the build |
| Process table (`kernel/process.c`) | - | not built | - |

What makes each correct:

- heap: the list always tiles the heap; ranges given out are disjoint, large
  enough and never move; a call fails only when nothing fits; calls return;
- volume: the clusters it accepts lie inside the partition, behind the FATs;
- files: a successful read delivers exactly the file's next bytes, whatever else
  was opened, read, closed or failed before; reads return;
- directories: a listing is complete, in order and without repetition; a path
  leads to the file it names and to no other; lookups end;
- SD driver: a successful read has the block's bytes; no command takes an old
  answer for its own; every call returns, with a dead card too;
- start-up: nothing is used before it has answered; behind it the two sections
  hold what the program was linked with; a sleep is never too short;
- boot: the image in memory is the file's; the kernel starts a program or stops;
- system calls: the output is what the program asked for; the program goes on
  where it was, with its registers and stack; the call ends;
- conversions: digits denote the number, names come back as they were stored and
  are told apart, the checksum is the one the ROM computes.

The hazards behind these, each at its line, are in `PROJECT.json`.

## Modules

| Module | Models |
|---|---|
| `Allocator` | abstract: what a program may rely on from `malloc`, `realloc`, `free` |
| `Heap` | `heap.c`; implements `Allocator` |
| `FatVolume` | mounting and cluster chains; extended by the next two |
| `FileApi` | abstract: identifiers, positions, reads |
| `FatFile` | open files; implements `FileApi` |
| `FatDir` | iterator and path lookup |
| `SdCard` | SD driver, SPI FIFOs, controller and card |
| `Startup` | from the reset to the card: sections, DMA, timer, blocks, drivers' set-up |
| `Boot` | `kernel_main` and `loadELF` over the interfaces of the others |
| `Syscall` | `write`, exception frame, `svCallHandler`, `do_syscall`, UART output |
| `Kernel` | composes `Startup`, `Boot` and `Syscall`, with programs and SysTick |
| `Crc` | `calculate_crc32` with its table |
| `Text` | digits, short and long names, string functions; uses `Crc` |
| `Induction` | lemmas: induction on numbers, existence of recursive functions |
| `HeapProofs` | theorems about `Heap`: invariants, searches, that it implements `Allocator` |
| `FatVolumeProofs` | lemmas: arithmetic, the layout of a mounted volume, chains |
| `FatFileProofs` | theorems about `FatFile`: invariants, reads, that it implements `FileApi` |
| `FatDirProofs` | theorems about `FatDir` |
| `SdCardProofs` | theorems about `SdCard` |
| `KernelProofs` | theorems about `Kernel` with `Startup`, `Boot` and `Syscall` |
| `TextProofs` | theorems about `Text` and `Crc` |
| `MCHeap`, `MCFatFile`, `MCFatDir`, `MCSdCard`, `MCKernel`, `MCText` | small instances for TLC |

A definition whose comment begins with `Mutant:` is a plausible bug in the
definition it precedes. It is used by no specification: substituted for its
original it makes the property it is listed with in `PROJECT.json` fail, which
shows that the property depends on that code.

**Heap.** `hdr` maps each header's address to its fields. The walk of
`find_free_space` is one step per node; the split, the merges and the copy happen
in the step in which the call returns, since nothing runs beside it. A header
that a merge absorbs leaves `hdr`, because its bytes become payload. `free`
reads through `prev`, which may be such an address: that is undefined behaviour,
modelled as either nothing or `wild`, after which nothing is claimed. Addresses and
sizes are real bytes; `size_t` arithmetic in `ALIGN_4BYTE` is modulo `SIZE_MOD`.

**FatVolume, FatFile.** A medium is a partition table, a parameter block, a FAT
and its files, as decoded numbers, 32-bit arithmetic modulo `WORD`. A read is one
step per transfer, each of which may fail; the eager look-up of the next cluster
(FAT32.c:467) is a step of its own with its five outcomes. A byte on the card is
the pair of its sector and its place in it, so the abstract module can tell
whether a read delivered the right bytes. `FileApi` promises exact bytes for a
handle that is *sure*: its directory entry agrees with its chain, and its cluster
and offset are those of its position. A handle stops being sure when a FAT
look-up fails at a cluster's end: the code leaves the offset at the end of the
old cluster, and a retry would read the sector physically behind it.
With 2^31 bytes left or more the signed `min` may count more bytes than a sector has, or than
the 16-bit length of `sdReadPartialBlock` can say: places of the buffer that are counted and
not written are `Untouched`.
`getNextCluster` accepts entries it should not (1, or a number behind the last
cluster); `StraysLittle` bounds what a caller is given because of that.

**FatDir.** One step per turn of the iterator's loop. Names are sequences of
pieces. `lfn_parts_found` and `lfn_buffer` are uninitialised on entry: any value
of `Garbage`, and `Junk`. A program lists a directory until the first result that
is not success; it does not call the iterator again after that. `lfn_parts_found` and
`lfn_checksum` count modulo 256, as their types do. On one of the
media a directory's chain is circular: there a lookup of a name that is not found
runs for ever, and `LookupsEnd` claims only the others.

**SdCard.** Driver, controller and card act independently. The driver sends a
symbol or reads a byte per step. The controller exchanges a byte and drops it when
the receive FIFO is full. The card (external) answers a complete command after as
long as it likes or never, with success or an error. `upset` records that an
answer came after the driver gave up or that a byte of an answer was dropped: the
code does not notice either, and nothing is claimed of the data afterwards.

**Boot.** `kernel_main` from `SDInit` to the shutdown loop, with `loadELF` call by
call. The other components are reduced to what a caller sees: a call works or
fails, a read delivers a prefix, `malloc` gives the first block of the empty heap
or `NULL`. Memory is made of cells, one per header or piece of a program, and the loader reads the
headers from the buffer in memory, at an offset that `read_le32` takes modulo 2^16: what a failed read left there, or a segment
has overwritten, is what it sees. `memcpy` copies upwards, as the DMA does. With
the size 0 of a file that could not be opened, the first cell of the buffer is
the heap's next header, whose first byte is the low byte of an aligned address
and so never 0x7F. `Boot` has no specification of its own: `Kernel` starts it when
`Startup` is through.

**Startup.** A block is `asked` for, and is `ready` some time later; using one that
is not is recorded in `early`. A cold reset starts with every block in reset, a warm
one (of the core alone) with every block up and perhaps a DMA transfer of an
earlier life still running. `memcpy` is a transfer the DMA carries out byte by byte
beside the CPU, polled with `usleep`, which reads the timer in two steps: the lower
half latches the upper. Sections are counted in whole words, as `resetHandler` does;
up to three bytes behind them stay as they were, since the linker script does not align
their ends: `DataReady` and `DataCopied` are about the whole words only. Of clocks only the order is modelled.

**Syscall.** The stack is a sequence, a frame its last eight words, so that an
instruction that reads or pops at the wrong place meets another word. The handler
stores the result at the address that *is* the result (syscall.c:76: r0 was
overwritten by the call): an unaligned address is a HardFault; an aligned one is in
the boot ROM or behind it, where the store faults or is lost. Both are possible
steps.

**Kernel.** The parts side by side, `Thread` guarding what only thread code does.
`masked` is PRIMASK as the boot ROM left it, which no code of this repository sets:
both values are possible. Unmasked, SysTick may come between any two steps and its
vector is the default handler, which never returns; masked, an `svc` escalates to
a HardFault, which goes the same way. A program is one that makes system calls and
may return.

**Text, Crc.** Pure functions: an action is one call with its arguments and result,
and the properties compare the result with a reference: the value of the digits,
equality of the padded name fields, the name as a volume stores it (external), and
for the CRC the remainder of a division of polynomials over GF(2), written
without the table. A byte or word of the CRC is the set of the numbers of its bits
that are 1, so that `^` is the symmetric difference and a shift renumbers the bits:
TLC's integers are too narrow for a word, and sets can be reasoned about. The table
is the one of compCrc32.c, entry by entry. `Loop` is a `for` loop.

## Runs

| Run | States | Shows |
|---|---|---|
| `heap` | 45,812 | `Tiling`, `HeldIntact`, `FirstFit`, `ReallocKeeps`, `WalkAdvances`, `CallsReturn`, and that `Heap` implements `Allocator` |
| `heap_links` | violation | the list is not doubly linked (heap.c:66-73 against the comment at :26) |
| `fat_file` | 183,815 | `ClustersInside`, `WithinBounds`, `StraysLittle`, `ReadsAdvance`, `ReadsReturn`, and that `FatFile` implements `FileApi` |
| `sd_card` | 1,592,049 | `NeverStarves`, `NoStaleAnswer`, `ReadRight`, `CallsAdvance`, `CallsReturn` |
| `sd_card_write` | violation | `sdWriteBlock` can wait for ever (SD.c:241, against :244) |
| `fat_dir` | 1,799 | `ListsAll`, `FindsTarget`, `WalksOn`, `LookupsEnd` |
| `fat_dir_names` | violation | long names come out wrong (FAT32.h:35) |
| `kernel` | 34,138 | `DataReady`, `NothingEarly`, `SleepsEnough` of the start-up; `LoadsImage`, `BootEnds` of the boot; `OutputRight`, `CallBalanced`, `CallsEnd` of system calls; `TickIsFinal` |
| `boot_jump` | violation | the kernel jumps to error codes (main.c:50 against elf.c:32) |
| `startup_data` | violation | after a cold start `.data` is not copied, not even its whole words: the DMA is in reset (startup_rp2040.c:118-119, main.c:27) |
| `syscall_result` | violation | `write` returns its first argument, not the result (syscall.c:76 against write.c:18) |
| `text` | 59,976 | `NumbersRight`, `NamesTellApart`, `SumDetects`, `LongNameRight`, `CrcRight` |

Bounds, and why they are enough:

- `heap`: 89 bytes with 16-byte headers, requests of 0, 9 and 24 bytes. Up to four blocks fit,
  so splits, leftovers too small to split, exact fits, merges on both sides and
  stale `prev` all occur. An unaligned `HeapStart` exercises the rounding. The
  violation run has a larger heap.
- `fat_file`: six clusters of two two-byte sectors, two handles, reads of 1, 5 and
  the whole file: reads within a sector, across sectors, across clusters, ending
  exactly on a cluster. Files: two sound ones, one longer than its chain, one with
  a bad cluster, a circular one of 2^(w-1)+1 bytes, a read of which exceeds the range of the driver's
  16-bit length (`UINT16`, here 8); media whose chains leave the
  volume below and above it; one without a signature and one without a FAT32 partition.
- `fat_dir`: two entries per sector, two sectors per cluster; a root directory of two
  clusters and a subdirectory that fills its cluster and has no end mark; on a second
  medium that subdirectory is circular.
- `sd_card`: FIFOs of three bytes and commands of two, which keeps the relation of
  the board (eight and seven); time-outs of seven exceed both FIFOs together, as on
  the board, and every loop still gives up within the run. The answers
  to CMD8 and CMD58 have two bytes behind the R1 (`TAIL`; four on the board), with right and
  wrong voltage and pattern, and with the capacity bit set and clear beside other bits. The block contains
  the bytes of an R1 and a token. The write run has shorter time-outs.
- `kernel`: eight files (a program with text, data, BSS and a header that is not
  `PT_LOAD`; one with an all-BSS segment; one over its own buffer; one that is no
  executable; one with missing headers; one that does not fit; an empty one; one whose
  `e_phoff` exceeds the 16 bits of `read_le32`'s offset, here `UINT16 = 8` cells), two RAMs;
  `.data` of six and `.bss` of five bytes, so both end inside a word; at most one
  byte left of an earlier transfer; a timer of two halves of one bit, which carries
  and wraps within a sleep of two ticks, and at most three ticks per sleep
  (`MaxTicks`); a UART FIFO of two for texts of up to four bytes, so it fills; a known
  and an unknown system call.
- `text`: short names of three and two bytes over a space and two letters, all pairs;
  long names of up to eight units in entries of five, with results of up to six
  bytes, so names fit exactly, are cut, and end exactly with an entry; numbers at
  every change of length up to 2^31-1, TLC's largest; images of one byte, which
  use each of the 256 table entries, pairs, longer ones, and one that is too large.
- Deadlock is checked by `text` only: elsewhere the environment (a program, the
  kernel) may stop calling, and the kernel may halt.

Fairness: `WF` on the steps of a call in progress (`Step`, `Driver`), because a
single CPU executes them without preemption, and on `Shift`, because the
controller is clocked while its transmit FIFO is not empty. In `Kernel`, `WF` on the
CPU's steps, on a block that was asked for answering, the DMA moving a byte, the
timer ticking and the UART sending; `SF` on SysTick, because a pending tick waits at most
for the end of a system call, however many of those there are. No fairness for
callers, none for the card, and none for a transfer's failure
(`TransferFails` and `LoadFails` are outside `Step`), so no call ends only because the
card must fail some time. That a transfer of the FAT modules ends is
`CallsReturn` of `SdCard`: they use only reads.

## Proofs

Every property of the passing runs but the seven liveness properties, both refinements
included, is a theorem for every value of the constants. TLAPS checks them to the last
leaf. For the calls, reads and walks that must end there is, beside the liveness property
that TLC checks, a theorem that each step leaves less to do.

| Module | Theorem | Property |
|---|---|---|
| `HeapProofs` | `TypeCorrect`, `ListTilesHeap`, `HoldingsSafe` | `TypeOK`, `Tiling`, `HeldIntact` |
| `HeapProofs` | `TakesFirstFit`, `ReallocCopies`, `SearchesAdvance` (actions) | `FirstFit`, `ReallocKeeps`, `WalkAdvances` |
| `HeapProofs` | `HeapImplementsAllocator` | `ImplementsAllocator` |
| `FatFileProofs` | `TypeCorrect`, `BoundsKept`, `ClustersKept`, `StraysAreFew` | `TypeOK`, `WithinBounds`, `ClustersInside`, `StraysLittle` |
| `FatFileProofs` | `ReadsEnd` (action) | `ReadsAdvance` |
| `FatFileProofs` | `FilesImplementApi` | `ImplementsFileApi` |
| `FatDirProofs` | `TypeCorrect`, `ListingsComplete`, `LookupsRight` | `TypeOK`, `ListsAll`, `FindsTarget` |
| `FatDirProofs` | `WalksComeToAnEnd` (action) | `WalksOn` |
| `SdCardProofs` | `TypeCorrect`, `ReadsAreFed`, `AnswersAreFresh`, `ReadsAreRight` | `TypeOK`, `NeverStarves`, `NoStaleAnswer`, `ReadRight` |
| `SdCardProofs` | `CallsComeToAnEnd` (action) | `CallsAdvance` |
| `KernelProofs` | `TypeCorrect`, `SectionsReady`, `BlocksReady`, `ImagesLoaded`, `OutputKept`, `CallsBalanced`, `SleepsLong` (action) | `TypeOK`, `DataReady`, `NothingEarly`, `LoadsImage`, `OutputRight`, `CallBalanced`, `SleepsEnough` |
| `TextProofs` | `NumbersCorrect`, `NamesApartAlways`, `ChecksumDetects`, `LongNamesRight`, `ChecksumRight` | `NumbersRight`, `NamesTellApart`, `SumDetects`, `LongNameRight`, `CrcRight` |

### The arguments

**Heap.** The inductive invariant is `IInv == TypeOK /\ Tiling /\ HeldIntact`. None is
inductive alone: a split keeps sizes non-negative because blocks tile; a
merge keeps the tiling because `next` is where the block ends; `free` and
`realloc` touch a header of the list because every held pointer has one; and the
merge of a free neighbour never swallows what the program holds. Nothing is
assumed of `prev`: the proof shows that a merge through a stale `prev` that is still the
address of some free header is harmless to the tiling, because what is merged is that
header's own successor. The lemmas `MergeGood`, `CutGood`, `SplitGood`, `SetGood`,
`ReleaseGood` and `CoalesceGood` say what each list operation does to a tiling.
A request above `Largest = SIZE_MOD - 4` is rounded up to 0 by `ALIGN_4BYTE` and
granted an empty block (heap.c:93), although stdlib.h:6 declares `alloc_size(1)`;
`HeldIntact` says nothing of the size of such a block.

First fit needs one thing more, `Walked`: no block in front of the walk's cursor
will do. The refinement maps a held pointer to its range; `Agree` says that the
ranges of two steps differ only where the program asked for it, and disjointness of
a new range comes from the tiling.

**Files.** `Inv` of `FatFileProofs` ties the read in progress to its handle (what has
been delivered is how far the position has moved, and does not exceed
`actual_bytes_to_read`) and the volume to its medium (`VolumeOK`: once mounted it is
`Mounted(medium)`). `StraysSoFar` follows a read on a damaged chain: at most a sector
comes from outside before the first look-up in the FAT works, and what is taken from a
cluster that is not one is counted by the offset in it; the next look-up refuses that
cluster. For the refinement `Progress` adds, for a read that began *sure*, that the
bytes so far are `Exact`, that in the loop the handle is `Aligned` with its position and
that before a look-up it is at the end of a cluster of its chain (`UsedUp`). The
abstract position of a handle is the one its read began with until the read returns
(`Stands`), which is what makes a read atomic to its caller.

**Directories.** The place of an iterator is a number of entries from the first of
the directory: `At(c, it, pos)` says that `it` has passed `pos` of them, in the cluster
that some number of links leads to, with that sector in its buffer. `TurnAt` shows that
a turn takes the entry at that place and moves on by one, over sectors and clusters and
from the sector counter's start at -1. A listing's invariant `ListOK` is that what was
seen is what is `Gathered` from the first `pos` entries. A lookup's, `FindOK`, is that
for some component `i` of the path the part of it still to be looked up is the rest from `i`
on, that the directory looked through is the one the components before lead to, and
that no entry passed so far has the name (`Clear`). On a circular chain the iterator passes
entries more than once: `ComesBack` (the pigeonhole principle, from the theorems on
finite sets) shows that every cluster it meets is one of the first round, so the
first entry found is still the first of its name (`HitIsFound`).

**SD card.** `ControlOK` and `CardOK` are the shapes of driver and card. `Flow` says
where the bytes of an answer are: an answer is a sequence of bytes, and at any moment the
driver has taken some, the receive FIFO holds the next, the transmit FIFO holds the
dummies for those after them, and the card has the rest (`Coming`); the driver's counters
say how many it has taken (`Answering`, `AtToken`, `AtData`, `AtTail`, `AtWrite`). It is
conditional on `~upset`. `ReadsAreFed` needs only `ControlOK`: it holds of a card that
says anything at all.

**Kernel.** `Inv` is the conjunction of an invariant per part, `StartOK`, `SvcOK` and `BootOK`,
with what they know of each other. `PowerOK`: what has been waited for has answered.
`DataOK`: of a transfer, what has been moved is in place, and no transfer is left when
`memcpy` has returned. `NapOK`: the timer is as many ticks behind the first time read
as were counted, modulo its period, and a time put together from two halves is one the
timer had. `SvcOK`: the stack is the frame and the handler's return address. `LoadOK`:
the segments of the first `i` program headers are in place (`Placed`) and the buffer
still has the file.

**Text and CRC.** `ChecksumRight`: long division is linear (`Linear`, for sets of
exponents under symmetric difference), so a remainder may be taken of a part first
(`EightBehind`), and a turn of `calculate_crc32`, which shifts by a byte and adds a table
entry, takes the remainder of what was read so far to that of one byte more (`NextIs`): the
table's part is `TableAssumption`. `CrcIs` is the induction on the bytes read.
`NumbersCorrect` is strong induction on the number, `Digits` being the digits of the
quotient and then the last one; that ten of them hold every 32-bit word is
`DigitsFit`. `ChecksumDetects`: the rotation and the addition modulo 256 are each injective,
so two fields that differ in one place have sums that differ from there on
(`SumApart`). `NamesApartAlways`: a proper field has neither NUL nor dot and no space inside, so the
dot of the string separates name and extension again (`DottedApart`), and `strcmp` is 0
only for equal strings. `LongNamesRight`: the parts of a name, each cut at its NUL, put
together are the name, of any length (`JoinedIs`), as far as the buffer reaches (`AssembledIs`).

**Ends.** An action property says for every loop what it uses up. A search of the heap
(`WalkAdvances`) moves to a header further up, because blocks tile. A read (`ReadsAdvance`)
has `ToDo`, two units for each byte still to come: no transfer is empty, since the offset
is inside the cluster when a turn begins, and a look-up in the FAT never follows another.
A listing or a lookup (`WalksOn`) has the components of the path still to be looked up and, for
one of them, `EntriesLeft`, the entries up to the end of the chain; that a link of the chain
makes it shorter (`OneLinkLess`) is induction on the chain, and a chain for which it
does not is `Circular`. A call to the SD driver (`CallsAdvance`) has, lexicographically, the
commands that are still to be sent (`Ahead`, repeats of the initialisation included), the
`Stage` of the command and the tries, bytes or symbols left in it (`Remaining`): so no card can
keep the driver in a loop, and `sdWriteBlock`, which can hang, can do so only where it
waits for a byte that nobody clocks in. With fairness these measures give the liveness properties;
that last inference is TLC's.

**Induction.** The provers cannot instantiate the library's induction theorems. The
induction these proofs need is on sets of numbers: `Least` takes the least element
from the library's theorem that `<` is well founded on `Nat`, `Upward` is induction for
a set, and `Recursions`, `Iterated` and `FoldsExist` show that the recursive functions of the
models (`Chain`, `Gathered`, `Leads`, `Loop`, `Digits`) exist and satisfy their equations.

### The assumptions

Each is as weak as the proofs allow, and TLC evaluates it on the runs.

- `HeapAssumption`: what the linker script provides. The heap is not empty, its
  start does not wrap when aligned, and a header fits.
- `VolumeAssumption`: the widths of the on-disk fields. A sector is not empty and has
  fewer than 2^31 bytes (the field has 16 bits), a cluster is not empty: the code
  divides by its size (FAT32.c:161) without looking.
- `FatAssumption`, `SectorAssumption`: whatever the card holds where a FAT entry or a
  directory entry is looked up can be read as one, and a sector holds at least one entry
  of 32 bytes. The code takes both for granted (FAT32.c:205, :314).
- `FileAssumption`: callers ask for fewer than 2^31 bytes, as `min` compares as `int`, and a
  sector has fewer than 2^16, as `sdReadPartialBlock` takes its length in 16 bits.
- `DirAssumption`: `lfn_parts_found` is a byte, a path has at least one component,
  though it may be empty: `get_file` takes what is in front of the first `/` or NUL.
- `SdAssumption`: time-outs and sizes are positive, an R3 or R7 has at least two bytes behind
  its R1, slices lie in the block, and the time-out
  of a write is longer than both FIFOs together, which it is on the board (1000 against 16, SD.c:273).
- `StartAssumption`: sleeps are shorter than the timer's period. `MaxTicks` bounds only
  what TLC explores.
- `SvcAssumption`, `BootAssumption`: texts are sequences, system calls have the
  number of an `svc` (one byte), headers have their fields, the heap is in the RAM
  and smaller than 2^16 bytes (0x8000 in linker.ld), so that `read_le32` reaches all of a
  buffer in it.
- `TextAssumption`: numbers have 32 bits, name fields their length, stored names neither
  NUL nor padding; a row of the LFN buffer and the result hold the units of an entry and
  a NUL (13 units; FAT32.h:7 and :10 give 40 and 256 bytes).
- `TableAssumption`: each of the 256 table entries is the remainder of its byte followed
  by 32 zeros. It has no constants in it: TLC computes it, all of it, in the `text` run.

Properties of a volume that its maker must see to are premises instead: `Plausible` (the
partition fits the card and holds its FATs) and `Sound` (a file's chain bears out its size).

### What the proofs changed

A proof that failed for a good reason led to these corrections of models and properties:

- `getNextCluster` had overlapping cases in a `CASE`, which leaves the choice open: the order of
  the tests in the code (FAT32.c:209-219) is now the order of the cases;
- `InRange` wraps, as `total_clusters + 1` does in a 32-bit word;
- `lfn_parts_found` counts modulo 256; `current_cluster` of a handle can be any word, since
  a start in a directory entry is not checked;
- `ReallocKeeps` claimed too much of blocks whose size had wrapped, and `StraysLittle` of
  files with 2^31 bytes left or more;
- a file is `Sound` only on a plausible volume and when every link of its chain is one that
  `getNextCluster` follows;
- `ListsAll` claimed a complete listing of a circular directory, and `Target` took an
  empty inner component for a name: `get_file` skips it (FAT32.c:519);
- `NamesTellApart` called a field with a NUL in it proper: the string of such a name ends
  there, and two of them can be the same;
- `Crc` and `Text` are written with sets of bits and loops as functions, not with `Bitwise` and
  recursive operators, so that they can be proved about; what TLC computes is the same.

### Only model-checked

- Liveness: `CallsReturn` (heap and card), `ReadsReturn`, `LookupsEnd`, `BootEnds`, `CallsEnd`,
  `TickIsFinal`. The prover has no rules for fairness and `ENABLED`. For the first four the
  measures above are proved; the three of the kernel wait for hardware (blocks, DMA, timer,
  UART) as much as for the CPU, and a measure of the CPU's steps alone would say little.
- The violations, which are counterexamples.

## Not modelled, and the plan

The modules of the plan are written; their safety properties, refinements and measures
are proved. What could follow is a measure for the kernel's waits, with the hardware's steps
counted in, and the values that are left out below.

Left out for good: the values written to registers of clocks, pads, UART and SPI;
boot stage 2's flash commands; the process table, which is not built; the byte
offsets of on-disk fields (`read_le16`, `read_le32`); functions without a caller:
`fat_read_cluster`, `write_sectors`, `spi_rw`, `spi_rw_blocking`, `spi_rw_byte`,
`uartRx`, `uartRxStr`, `dma_channel_start`, the `dma_config_*` setters, `sleep`,
`strncpy`, `strchr`, `strtok`.

Observations that no run is about: `strchr` loops while the character is NUL instead of until
it is, and `strtok` with it; `sleep`'s product wraps from 4295 seconds on; a read
that meets the end of a short chain reports success (FAT32.c:471); a `.data` that ends inside
a word is not copied to its end, nor `.bss` cleared to its end (startup_rp2040.c:119, :122); after a failed
read of a directory sector the buffer of the sector before it still counts as valid
(FAT32.c:339); a long name whose
short name has checksum 0 is taken for none (FAT32.c:399).
