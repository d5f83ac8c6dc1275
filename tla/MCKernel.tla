------------------------------- MODULE MCKernel ------------------------------
(***************************************************************************)
(* Kernel with 18 cells of memory: the kernel's at 0 and 1, a heap from 2  *)
(* of up to seven cells, programs at 10 and up.  .data and .bss end inside *)
(* a word; the timer wraps after four ticks.                               *)
(***************************************************************************)
EXTENDS Kernel

Ehdr(valid, start, phnum) ==
  [kind |-> "ehdr", valid |-> valid, entry |-> start, phoff |-> 1, phnum |-> phnum]
Phdr(load, offset, vaddr, filesz, memsz) ==
  [kind |-> "phdr", load |-> load, offset |-> offset, vaddr |-> vaddr,
   filesz |-> filesz, memsz |-> memsz]
Piece(x) == [kind |-> "cell", id |-> x]

\* Text and data with a BSS; a header that is not PT_LOAD between them.
Program == <<Ehdr(TRUE, 10, 3), Phdr(TRUE, 4, 10, 2, 2), Phdr(FALSE, 4, 0, 1, 1),
             Phdr(TRUE, 6, 13, 1, 3), Piece("t1"), Piece("t2"), Piece("d")>>
\* Only a BSS, and a segment without one.
Small == <<Ehdr(TRUE, 12, 2), Phdr(TRUE, 3, 12, 1, 1), Phdr(TRUE, 4, 14, 0, 2), Piece("s")>>
\* A segment over the buffer it is loaded from.
Over == <<Ehdr(TRUE, 6, 2), Phdr(TRUE, 3, 6, 2, 2), Phdr(TRUE, 4, 11, 1, 1),
          Piece("o1"), Piece("o2")>>
Foreign == <<Ehdr(FALSE, 11, 1), Phdr(TRUE, 2, 11, 1, 1), Piece("f")>>
\* Fewer headers than the file says.
Short == <<Ehdr(TRUE, 11, 2), Phdr(TRUE, 2, 11, 1, 2)>>
Large == Program \o <<Piece("l")>>
\* e_phoff is past what an offset of 16 bits can tell: the header read is cell 1.
Far == <<[Ehdr(TRUE, 11, 1) EXCEPT !.phoff = 9], Phdr(TRUE, 2, 11, 1, 1), Piece("w")>>

MCFiles == {Program, Small, Over, Foreign, Short, Large, Far, <<>>}

Blank == [a \in 0 .. 17 |-> [kind |-> "ram"]]
\* The RAM of a board that was reset: the buffer still holds another program.
Warm == [a \in 0 .. 17 |-> IF a \in 2 .. 5 THEN Small[a - 1] ELSE Blank[a]]

\* Counts of 0 and 4 give a result that is an aligned address, the others fault.
MCTexts == {<<"a", "b", "c", "d">>}

MCRams == {Blank, Warm}
=============================================================================
