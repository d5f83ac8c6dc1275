-------------------------------- MODULE Boot --------------------------------
(***************************************************************************)
(* kernel_main of src/kernel/main.c and the loader it calls, loadELF of    *)
(* src/lib/elf/elf.c.  The card, the volume, the open files and the heap   *)
(* are here only what their callers see: each call works or fails, a read  *)
(* delivers a prefix of the file, malloc gives the heap's first block.     *)
(*                                                                         *)
(* Memory and files are made of cells: an ELF header, a program header, a  *)
(* piece of the program, zero, a header of the heap, or whatever the RAM   *)
(* held.  The loader reads its file's headers from the buffer, so it sees  *)
(* there what the read did not deliver and what it has overwritten itself. *)
(***************************************************************************)
EXTENDS Integers, Sequences

CONSTANTS
  Files,     \* what /bin/init.elf may be: sequences of cells
  Rams,      \* what the RAM may hold at reset: address |-> cell
  Buffer,    \* the address malloc returns on an empty heap
  HeapRoom,  \* the largest size malloc grants
  UINT16     \* the cells in 2^16 bytes, the range of read_le32's offset

\* The headers as the loader reads them, field by field.
ElfHeaders == [kind : {"ehdr"}, valid : BOOLEAN, entry : Nat, phoff : Nat, phnum : Nat]
ProgramHeaders == [kind : {"phdr"}, load : BOOLEAN, offset : Nat, vaddr : Nat,
                   filesz : Nat, memsz : Nat]
Cell(c) == /\ c.kind = "ehdr" => c \in ElfHeaders
           /\ c.kind = "phdr" => c \in ProgramHeaders

ASSUME BootAssumption ==
  /\ Buffer \in Nat /\ HeapRoom \in Nat
  /\ UINT16 \in Nat /\ HeapRoom < UINT16
  /\ \A f \in Files : f \in Seq({f[k] : k \in DOMAIN f}) /\ \A k \in DOMAIN f : Cell(f[k])
  /\ \A r \in Rams : /\ 0 .. (Buffer + HeapRoom) \subseteq DOMAIN r /\ DOMAIN r \subseteq Nat
                     /\ r = [a \in DOMAIN r |-> r[a]]
                     /\ \A a \in DOMAIN r : Cell(r[a])

VARIABLES
  pc,       \* the call that kernel_main or loadELF makes next
  file,     \* /bin/init.elf
  ram,      \* history: the RAM at reset
  mem,      \* the RAM
  mounted,  \* fat32_init worked
  size,     \* loadELF's size
  ehdr,     \* e_entry, e_phoff and e_phnum, as read from the buffer
  i,        \* the program header the loop is at
  entry,    \* what loadELF returned
  clean     \* history: every call so far has worked

bootVars == <<pc, file, ram, mem, mounted, size, ehdr, i, entry, clean>>

Zero == [kind |-> "zero"]
HeapCell == [kind |-> "heap"]
NoHeader == [kind |-> "none"]
ELF_INVALID_EXECUTABLE == 1

BootInit ==
  /\ pc = "SDInit"
  /\ file \in Files /\ ram \in Rams /\ mem = ram
  /\ mounted = FALSE /\ size = 0 /\ ehdr = NoHeader /\ i = 0 /\ entry = 0
  /\ clean = TRUE

\* Without a card main returns, and resetHandler loops.
StartCard ==
  /\ pc = "SDInit"
  /\ pc' \in {"fat32_init", "stopped"}
  /\ UNCHANGED <<file, ram, mem, mounted, size, ehdr, i, entry, clean>>

\* init_malloc, and fat32_init, whose result is ignored.
Mount ==
  /\ pc = "fat32_init" /\ pc' = "fat32_open"
  /\ mounted' \in BOOLEAN
  /\ clean' = mounted'
  /\ UNCHANGED <<file, ram, mem, size, ehdr, i, entry>>

\* fat32_open and fat32_get_size: of the identifier -1 the size is 0.
OpenFile ==
  /\ pc = "fat32_open" /\ pc' = "malloc"
  /\ \/ mounted /\ size' = Len(file) /\ UNCHANGED clean
     \/ size' = 0 /\ clean' = FALSE
  /\ UNCHANGED <<file, ram, mem, mounted, ehdr, i, entry>>

Return(e) == pc' = "running" /\ entry' = e

\* Mutant: the result of malloc is not looked at.
GrantedAlways == TRUE

Granted == size <= HeapRoom

\* malloc(size), also of 0; the heap's next header is behind the block, unless
\* the block is all there is.
Allocate ==
  /\ pc = "malloc"
  /\ \/ /\ Granted
        /\ pc' = "fat32_read"
        /\ mem' = IF size < HeapRoom THEN [mem EXCEPT ![Buffer + size] = HeapCell] ELSE mem
        /\ UNCHANGED <<entry, clean>>
     \/ /\ ~Granted
        /\ Return(2) /\ clean' = FALSE
        /\ UNCHANGED mem
  /\ UNCHANGED <<file, ram, mounted, size, ehdr, i>>

\* fat32_read delivers the first n cells; its result is ignored.
ReadFile ==
  /\ pc = "fat32_read" /\ pc' = "check"
  /\ \E n \in 0 .. size :
       /\ mem' = [a \in DOMAIN mem |-> IF a \in Buffer .. (Buffer + n - 1)
                                         THEN file[a - Buffer + 1] ELSE mem[a]]
       /\ clean' = (clean /\ n = size)
  /\ UNCHANGED <<file, ram, mounted, size, ehdr, i, entry>>

\* Magic, class, byte order, type and machine.
Executable(c) == c.kind = "ehdr" /\ c.valid

\* A file that is none leaves the buffer allocated.
CheckHeader ==
  /\ pc = "check"
  /\ \/ /\ Executable(mem[Buffer])
        /\ pc' = "load" /\ ehdr' = mem[Buffer]
        /\ UNCHANGED entry
     \/ /\ ~Executable(mem[Buffer])
        /\ Return(ELF_INVALID_EXECUTABLE)
        /\ UNCHANGED ehdr
  /\ UNCHANGED <<file, ram, mem, mounted, size, i, clean>>

\* memcpy, cell after cell upwards: a source that the copy has already written
\* is read as written.
memcpy(m, to, from, n) ==
  LET new[k \in 0 .. (n - 1)] == IF from + k \in to .. (to + k - 1)
                             THEN new[from + k - to] ELSE m[from + k]
  IN  [a \in DOMAIN m |-> IF a \in to .. (to + n - 1) THEN new[a - to] ELSE m[a]]

memset(m, to, n) == [a \in DOMAIN m |-> IF a \in to .. (to + n - 1) THEN Zero ELSE m[a]]

\* Mutant: the BSS is taken to start where the segment does.
BssStartEarly(p) == p.vaddr

BssStart(p) == p.vaddr + p.filesz

\* The memory m with the segment p in it.
Loaded(m, p) ==
  LET copied == memcpy(m, p.vaddr, Buffer + p.offset, p.filesz)
  IN  IF p.memsz > p.filesz
        THEN memset(copied, BssStart(p), p.memsz - p.filesz) ELSE copied

\* The header at e_phoff + i * e_phentsize, which read_le32 takes for a uint16_t.
ThisHeader == mem[Buffer + ((ehdr.phoff + i) % UINT16)]

\* Mutant: a header that is not PT_LOAD does not move the loop on.
NextHeaderStuck == IF ThisHeader.load THEN i + 1 ELSE i

NextHeader == i + 1

\* One turn of the loop.  Cells that are no program header but are read as one
\* may hold any numbers: what the loader does then is not followed (wild).
LoadSegment ==
  /\ pc = "load" /\ i < ehdr.phnum
  /\ \/ /\ ThisHeader.kind = "phdr" /\ ThisHeader.load
        /\ mem' = Loaded(mem, ThisHeader)
        /\ i' = NextHeader /\ UNCHANGED pc
     \/ /\ ThisHeader.kind = "phdr" /\ ~ThisHeader.load
        /\ i' = NextHeader /\ UNCHANGED <<mem, pc>>
     \/ /\ ThisHeader.kind # "phdr"
        /\ pc' = "wild" /\ UNCHANGED <<mem, i>>
  /\ UNCHANGED <<file, ram, mounted, size, ehdr, entry, clean>>

\* free(data); kernel_main calls what it is returned.
FinishLoad ==
  /\ pc = "load" /\ i >= ehdr.phnum
  /\ Return(ehdr.entry)
  /\ UNCHANGED <<file, ram, mem, mounted, size, ehdr, i, clean>>

\* A program that was loaded may return.
ProgramReturns ==
  /\ pc = "running" /\ clean /\ ehdr # NoHeader
  /\ pc' = "SDShutdown"
  /\ UNCHANGED <<file, ram, mem, mounted, size, ehdr, i, entry, clean>>

\* Tried until it works; the kernel then loops for ever.
Shutdown ==
  /\ pc = "SDShutdown" /\ pc' = "halted"
  /\ UNCHANGED <<file, ram, mem, mounted, size, ehdr, i, entry, clean>>

BootStep == \/ StartCard \/ Mount \/ OpenFile \/ Allocate \/ ReadFile \/ CheckHeader
            \/ LoadSegment \/ FinishLoad

(***************************************************************************)
(* Properties.                                                             *)
(***************************************************************************)

\* Memory keeps its extent, the loop its bounds, and a file is only read into a
\* block that was granted.
BootTypeOK ==
  /\ pc \in {"SDInit", "stopped", "fat32_init", "fat32_open", "malloc", "fat32_read", "check",
             "load", "wild", "running", "SDShutdown", "halted"}
  /\ DOMAIN mem = DOMAIN ram
  /\ pc \in {"fat32_read", "check", "load"} => size \in 0 .. HeapRoom
  /\ pc = "load" => i \in 0 .. ehdr.phnum
  /\ {mounted, clean} \subseteq BOOLEAN

Segments == {k \in DOMAIN file : file[k].kind = "phdr" /\ file[k].load}
Covers(p, a) == a \in p.vaddr .. (p.vaddr + p.memsz - 1)
Used == Buffer .. (Buffer + Len(file))

\* An executable whose program headers and segments are in the file, and whose
\* segments go neither where the file is read to nor over each other.
Sound ==
  /\ file # <<>> /\ Executable(file[1])
  /\ {k \in DOMAIN file : file[k].kind = "phdr"}
       = (file[1].phoff + 1) .. (file[1].phoff + file[1].phnum)
  /\ \A k \in Segments :
       /\ file[k].offset + file[k].filesz <= Len(file) /\ file[k].filesz <= file[k].memsz
       /\ \A a \in Used : ~Covers(file[k], a)
       /\ \A j \in Segments \ {k}, a \in DOMAIN ram : ~(Covers(file[j], a) /\ Covers(file[k], a))

\* What the segment p has at address a when its program starts.
CellOf(p, a) == IF a < p.vaddr + p.filesz THEN file[p.offset + (a - p.vaddr) + 1] ELSE Zero

\* When every call has worked, the kernel jumps to the entry of a sound
\* executable with each of its segments in place, the BSS zeroed, and not a cell
\* of memory changed but those and the buffer.
LoadsImage ==
  pc = "running" /\ clean /\ Sound =>
    /\ entry = file[1].entry
    /\ \A a \in DOMAIN mem \ Used :
         IF \E k \in Segments : Covers(file[k], a)
           THEN \E k \in Segments : Covers(file[k], a) /\ mem[a] = CellOf(file[k], a)
           ELSE mem[a] = ram[a]

\* What the comment at elf.c:32 says of the value returned there, "Not a elf
\* executable": it is an error, and so never the address of a program.
JumpsToProgram == pc = "running" => entry # ELF_INVALID_EXECUTABLE
=============================================================================
