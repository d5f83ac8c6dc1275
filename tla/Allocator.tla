----------------------------- MODULE Allocator -----------------------------
(***************************************************************************)
(* What a program may rely on when it calls malloc, realloc and free of    *)
(* libc/src/stdlib/heap.c, without any free list: a pointer it is given    *)
(* starts a range of bytes that lies in the heap and overlaps no range it  *)
(* already holds, and a range stays its own until it gives it back.  Heap  *)
(* is the detailed specification that implements this one.                 *)
(***************************************************************************)
EXTENDS Integers

CONSTANTS HeapLo,   \* the first byte of the heap
          HeapHi,   \* the first byte after the heap
          HDR,      \* the bytes of bookkeeping in front of every range
          Sizes,    \* the sizes a program may ask for
          Largest   \* the largest size that is promised to be honoured

VARIABLES held,     \* ranges the program holds: pointer |-> length in bytes
          call      \* the call in progress, "none" or what was asked for

avars == <<held, call>>

NULL == 0
NoCall == [op |-> "none", size |-> 0, old |-> NULL]

(* The bytes [p, p+n) lie in the heap with their bookkeeping in front of    *)
(* them, and touch neither the bytes nor the bookkeeping of a range in h.   *)
Fits(h, p, n) ==
  /\ HeapLo + HDR <= p /\ p + n <= HeapHi
  /\ \A q \in DOMAIN h : p + n + HDR <= q \/ q + h[q] + HDR <= p

Drop(h, p) == [q \in DOMAIN h \ {p} |-> h[q]]
Hold(h, p, n) == [q \in DOMAIN h \cup {p} |-> IF q = p THEN n ELSE h[q]]

AInit == held = [p \in {} |-> 0] /\ call = NoCall

AskNew(n) ==
  /\ call = NoCall
  /\ call' = [op |-> "malloc", size |-> n, old |-> NULL]
  /\ UNCHANGED held

AskMove(p, n) ==
  /\ call = NoCall
  /\ call' = [op |-> "realloc", size |-> n, old |-> p]
  /\ UNCHANGED held

(* The call succeeds: the new range avoids everything held, the range that  *)
(* realloc moves included, which is given back in the same step.            *)
Grant(p, n) ==
  /\ call # NoCall
  /\ Fits(held, p, n)
  /\ call.size <= Largest => call.size <= n
  /\ held' = IF call.old = NULL THEN Hold(held, p, n)
                                ELSE Hold(Drop(held, call.old), p, n)
  /\ call' = NoCall

(* The call fails and changes nothing.                                      *)
Refuse == call # NoCall /\ call' = NoCall /\ UNCHANGED held

GiveBack(p) ==
  /\ call = NoCall
  /\ held' = Drop(held, p)
  /\ UNCHANGED call

ANext ==
  \/ \E n \in Sizes : AskNew(n)
  \/ \E p \in DOMAIN held, n \in Sizes : AskMove(p, n)
  \/ \E p \in DOMAIN held' : Grant(p, held'[p])
  \/ Refuse
  \/ \E p \in DOMAIN held : GiveBack(p)

ASpec == AInit /\ [][ANext]_avars
=============================================================================
