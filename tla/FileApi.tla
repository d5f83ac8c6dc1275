------------------------------ MODULE FileApi ------------------------------
(***************************************************************************)
(* What a caller of fat32_open, fat32_read and fat32_close (FAT32.c) may   *)
(* rely on, without clusters or sectors: an identifier stands for one file *)
(* and a position in it; a read that returns true delivers the file's next *)
(* bytes, as many as were asked for and are left.  A read that fails may   *)
(* have moved the position, and the file may be lost to the caller: it is  *)
(* no longer sure what later reads of it return.  FatFile implements this. *)
(***************************************************************************)
EXTENDS Integers

CONSTANT Ids      \* the file identifiers

VARIABLES sound,  \* the files [start, size] whose clusters bear out their size
          open,   \* identifiers in use |-> [start, size, pos, sure]
          busy,   \* the read in progress, or NoRead
          out     \* what the last read that ended delivered

avars == <<open, busy, out>>

NoRead == [id |-> -1, n |-> 0]
NoBytes == [from |-> 0, count |-> 0, exact |-> TRUE, ok |-> FALSE]

Handle(o, i, h) == [j \in DOMAIN o \cup {i} |-> IF j = i THEN h ELSE o[j]]
Left(h) == h.size - h.pos
Least(a, b) == IF a < b THEN a ELSE b

AInit == open = [i \in {} |-> 0] /\ busy = NoRead /\ out = NoBytes

\* An identifier not in use now stands for the file, at its first byte, and
\* reads of it are sure unless the file itself is damaged.
Open(i, h) ==
  /\ busy = NoRead
  /\ i \in Ids \ DOMAIN open
  /\ h.pos = 0
  /\ h.sure = ([start |-> h.start, size |-> h.size] \in sound)
  /\ open' = Handle(open, i, h)
  /\ UNCHANGED <<busy, out>>

Close(i) ==
  /\ busy = NoRead
  /\ open' = [j \in DOMAIN open \ {i} |-> open[j]]
  /\ UNCHANGED <<busy, out>>

Begin(i, n) ==
  /\ busy = NoRead
  /\ busy' = [id |-> i, n |-> n]
  /\ out' = NoBytes
  /\ UNCHANGED open

Succeed ==
  LET i == busy.id
      h == open[i]
      n == Least(busy.n, Left(h))
  IN  /\ busy # NoRead
      /\ h.sure =>
           /\ out' = [from |-> h.pos, count |-> n, exact |-> TRUE, ok |-> TRUE]
           /\ open' = [open EXCEPT ![i].pos = @ + n]
      /\ ~h.sure =>
           \E p \in h.pos .. h.size, s \in BOOLEAN :
             open' = [open EXCEPT ![i].pos = p, ![i].sure = s]
      /\ busy' = NoRead

\* Position and certainty may be lost, but what was delivered before the
\* failure was right.
Fail ==
  LET i == busy.id
      h == open[i]
  IN  /\ busy # NoRead
      /\ ~out'.ok
      /\ h.sure => out'.exact
      /\ \E p \in h.pos .. h.size, s \in BOOLEAN :
           open' = [open EXCEPT ![i].pos = p, ![i].sure = s]
      /\ busy' = NoRead

ANext ==
  \/ \E i \in DOMAIN open' : Open(i, open'[i])
  \/ \E i \in DOMAIN open : Close(i)
  \/ \E i \in DOMAIN open : Begin(i, busy'.n)
  \/ Succeed
  \/ Fail

ASpec == AInit /\ [][ANext]_avars
=============================================================================
