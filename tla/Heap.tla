-------------------------------- MODULE Heap --------------------------------
(***************************************************************************)
(* The first-fit allocator of libc/src/stdlib/heap.c, linked into the      *)
(* kernel and into every program.  Addresses and sizes are in bytes.       *)
(*                                                                         *)
(* hdr maps the address of every memory_space_t on the list to its fields; *)
(* a header that mergeNextMemorySpace absorbs leaves the domain, because   *)
(* its bytes become payload.  A program's loop over the list is one step   *)
(* per node (curr); everything else a call does happens in the step that   *)
(* returns from it.  The programs are single threaded: one call at a time. *)
(***************************************************************************)
EXTENDS Integers

CONSTANTS
  HeapStart,  \* __heap_start__, where the linker puts it
  HeapEnd,    \* __heap_end__
  HDR,        \* sizeof(memory_space_t)
  SIZE_MOD,   \* size_t counts modulo this, 2^32 on the RP2040
  Sizes       \* the sizes a program passes to malloc and realloc

NULL == 0

ALIGN_4BYTE(x) == (((x + 3) \div 4) * 4) % SIZE_MOD

ASSUME HeapAssumption ==
  /\ HeapStart \in Nat \ {0} /\ HeapEnd \in Nat
  /\ HDR \in Nat \ {0}
  /\ SIZE_MOD \in Nat \ {0}
  /\ Sizes \subseteq 0 .. (SIZE_MOD - 1)
  /\ HeapStart <= ALIGN_4BYTE(HeapStart)
  /\ ALIGN_4BYTE(HeapStart) + HDR <= HeapEnd

head == ALIGN_4BYTE(HeapStart)

VARIABLES
  hdr,    \* the list: address of a header |-> its four fields
  call,   \* the call in progress, or NoCall
  curr,   \* find_free_space's cursor, NULL between calls
  owned,  \* history: pointer the program holds |-> size it asked for, and how
          \*   many bytes of it realloc carried over
  wild    \* history: free() followed prev to bytes that are no header any more

vars == <<hdr, call, curr, owned, wild>>

NoCall == [op |-> "none", size |-> 0, old |-> NULL]

(***************************************************************************)
(* The list operations, as functions from one list to the next.            *)
(***************************************************************************)

\* The first byte after a block.
End(h, b) == b + HDR + h[b].size

\* Mutant: the neighbour is swallowed whether or not it is in use.
MergeableInUse(h, n) == n # NULL

Mergeable(h, n) == n # NULL /\ ~h[n].isAllocated

mergeNextMemorySpace(h, b) ==
  LET n == h[b].next
  IN  IF Mergeable(h, n)
        THEN [a \in DOMAIN h \ {n} |->
               IF a = b THEN [h[b] EXCEPT !.next = h[n].next,
                                          !.size = @ + HDR + h[n].size]
               ELSE IF a = h[n].next THEN [h[a] EXCEPT !.prev = b]
               ELSE h[a]]
        ELSE h

\* Mutant: the leftover's size forgets the header in front of it.
LeftoverNoHeader(h, b, size) == h[b].size - size

Leftover(h, b, size) == h[b].size - size - HDR

\* The leftover's successor keeps the prev it had: only the merge updates it.
CutMemorySpace(h, b, size) ==
  LET n == b + HDR + size
  IN  [a \in DOMAIN h \cup {n} |->
         IF a = n THEN [prev |-> b, next |-> h[b].next,
                        size |-> Leftover(h, b, size), isAllocated |-> FALSE]
         ELSE IF a = b THEN [h[b] EXCEPT !.next = n, !.size = size]
         ELSE h[a]]

\* Mutant: a block is split however small the leftover is.
splitMemorySpaceAlways(h, b, size) ==
  mergeNextMemorySpace(CutMemorySpace(h, b, size), b + HDR + size)

splitMemorySpace(h, b, size) ==
  IF h[b].size > size + HDR + 4
    THEN mergeNextMemorySpace(CutMemorySpace(h, b, size), b + HDR + size)
    ELSE h

SetAllocated(h, b, v) == [h EXCEPT ![b].isAllocated = v]

(* free() up to its look at the previous block.                             *)
Release(h, b) == mergeNextMemorySpace(SetAllocated(h, b, FALSE), b)

(* The rest of free(): the previous block swallows its successor if it is   *)
(* free.  prev may be stale; if it is the address of no header the bytes    *)
(* read there are payload, and what happens is the allocator's undefined    *)
(* behaviour: nothing, or damage that the model does not follow (wild).     *)
Coalesce(h, b) ==
  LET p == h[b].prev
  IN  IF p \in DOMAIN h /\ ~h[p].isAllocated THEN mergeNextMemorySpace(h, p) ELSE h

Dangling(h, b) == h[b].prev # NULL /\ h[b].prev \notin DOMAIN h

(***************************************************************************)
(* Calls.                                                                  *)
(***************************************************************************)

\* init_malloc
Init ==
  /\ hdr = [a \in {head} |-> [prev |-> NULL, next |-> NULL,
                              size |-> HeapEnd - head - HDR, isAllocated |-> FALSE]]
  /\ call = NoCall
  /\ curr = NULL
  /\ owned = [p \in {} |-> [asked |-> 0, kept |-> 0]]
  /\ wild = FALSE

Idle == call = NoCall /\ ~wild

malloc(n) ==
  /\ Idle
  /\ call' = [op |-> "malloc", size |-> n, old |-> NULL]
  /\ curr' = head
  /\ UNCHANGED <<hdr, owned, wild>>

realloc(p, n) ==
  /\ Idle
  /\ call' = [op |-> "realloc", size |-> n, old |-> p]
  /\ curr' = head
  /\ UNCHANGED <<hdr, owned, wild>>

\* The size the list is searched for.
Wanted == ALIGN_4BYTE(call.size)

\* Mutant: a block of exactly the wanted size is passed over.
UnfitExact(b) == hdr[b].isAllocated \/ hdr[b].size <= Wanted

Unfit(b) == hdr[b].isAllocated \/ hdr[b].size < Wanted

\* Mutant: the cursor is set from the list's head, not from itself.
NextNodeStuck(b) == hdr[head].next

\* Mutant: the search follows the links backwards.
NextNodeBack(b) == hdr[b].prev

NextNode(b) == hdr[b].next

\* One turn of find_free_space's loop.
find_free_space ==
  /\ call # NoCall /\ ~wild
  /\ hdr[curr].next # NULL /\ Unfit(curr)
  /\ curr' = NextNode(curr)
  /\ UNCHANGED <<hdr, call, owned, wild>>

\* The walk ended on a node that will not do: malloc and realloc return NULL.
ReturnNull ==
  /\ call # NoCall /\ ~wild
  /\ hdr[curr].next = NULL /\ Unfit(curr)
  /\ call' = NoCall /\ curr' = NULL
  /\ UNCHANGED <<hdr, owned, wild>>

\* Mutant: the block handed out is not marked allocated.
PlaceUnmarked(h, b) == splitMemorySpace(h, b, Wanted)

Place(h, b) == SetAllocated(splitMemorySpace(h, b, Wanted), b, TRUE)

Bytes(asked, kept) == [asked |-> asked, kept |-> kept]
Hold(o, p, v) == [q \in DOMAIN o \cup {p} |-> IF q = p THEN v ELSE o[q]]
Drop(o, p) == [q \in DOMAIN o \ {p} |-> o[q]]

\* malloc returns the block the walk stopped at.
ReturnNew ==
  /\ call.op = "malloc" /\ ~wild
  /\ ~Unfit(curr)
  /\ hdr' = Place(hdr, curr)
  /\ owned' = Hold(owned, curr + HDR, Bytes(call.size, 0))
  /\ call' = NoCall /\ curr' = NULL
  /\ UNCHANGED wild

\* Mutant: realloc copies as much as was asked for.
toCopyAsked(oldSize, size) == size

\* The bytes realloc copies: of the old block's size and the size asked for.
toCopy(oldSize, size) == IF oldSize < size THEN oldSize ELSE size

\* Everything after free() has cleared the flag and merged forward.
FreeTail(h, b) ==
  \/ /\ hdr' = Coalesce(h, b)
     /\ UNCHANGED wild
  \/ /\ Dangling(h, b)
     /\ hdr' = h
     /\ wild' = TRUE

\* realloc has found room: it copies the old bytes and frees the old block.
ReturnMoved ==
  /\ call.op = "realloc" /\ ~wild
  /\ ~Unfit(curr)
  /\ LET placed == Place(hdr, curr)
         b      == call.old - HDR
     IN  /\ FreeTail(Release(placed, b), b)
         /\ owned' = Hold(Drop(owned, call.old), curr + HDR,
                          Bytes(call.size, toCopy(hdr[b].size, call.size)))
  /\ call' = NoCall /\ curr' = NULL

\* free(p) for a pointer the program holds.  free(NULL) changes nothing.
free(p) ==
  /\ Idle
  /\ FreeTail(Release(hdr, p - HDR), p - HDR)
  /\ owned' = Drop(owned, p)
  /\ UNCHANGED <<call, curr>>

Next ==
  \/ \E n \in Sizes : malloc(n)
  \/ \E p \in DOMAIN owned, n \in Sizes : realloc(p, n)
  \/ find_free_space
  \/ ReturnNull
  \/ ReturnNew
  \/ ReturnMoved
  \/ \E p \in DOMAIN owned : free(p)

Step == find_free_space \/ ReturnNull \/ ReturnNew \/ ReturnMoved

Spec == Init /\ [][Next]_vars
FairSpec == Spec /\ WF_vars(Step)

(***************************************************************************)
(* Properties.                                                             *)
(***************************************************************************)

Header == [prev : Nat, next : Nat, size : Nat, isAllocated : BOOLEAN]

\* Every variable has the type its declaration in heap.c gives it.
TypeOK ==
  /\ DOMAIN hdr \subseteq Nat
  /\ hdr \in [DOMAIN hdr -> Header]
  /\ call \in [op : {"none", "malloc", "realloc"}, size : Nat, old : Nat]
  /\ curr \in Nat
  /\ DOMAIN owned \subseteq Nat
  /\ owned \in [DOMAIN owned -> [asked : Nat, kept : Nat]]
  /\ wild \in BOOLEAN

\* The list h starts at head, every block ends where its next one starts, the
\* last at __heap_end__, none reaches past it, and no two overlap.
Tiles(h) ==
  /\ head \in DOMAIN h
  /\ \A b \in DOMAIN h :
       /\ head <= b /\ End(h, b) <= HeapEnd
       /\ h[b].next = NULL => End(h, b) = HeapEnd
       /\ h[b].next # NULL => h[b].next \in DOMAIN h /\ h[b].next = End(h, b)
  /\ \A b, c \in DOMAIN h : b < c => End(h, b) <= c

\* The list that find_free_space walks always covers the heap exactly, and a
\* walk's cursor is on it.  Splits, forward merges and the merge through a
\* stale prev in free() all keep it so.
Tiling ==
  /\ Tiles(hdr)
  /\ call # NoCall => curr \in DOMAIN hdr

\* The largest size that ALIGN_4BYTE does not wrap to something smaller.
Largest == SIZE_MOD - 4

\* The list and the program agree on who owns what: a block is marked
\* allocated exactly while the program holds its pointer, and it is as large
\* as the program asked for (up to Largest).  The block that realloc is moving
\* is still the program's.
HeldIntact ==
  /\ \A b \in DOMAIN hdr : hdr[b].isAllocated => b + HDR \in DOMAIN owned
  /\ \A p \in DOMAIN owned :
       /\ p - HDR \in DOMAIN hdr /\ hdr[p - HDR].isAllocated
       /\ owned[p].asked <= Largest => owned[p].asked <= hdr[p - HDR].size
  /\ call.op = "realloc" => call.old \in DOMAIN owned

Adequate(n) == {b \in DOMAIN hdr : ~hdr[b].isAllocated /\ hdr[b].size >= ALIGN_4BYTE(n)}

\* First fit, stated without the walk: a call fails only when no free block is
\* large enough, and otherwise takes the lowest one that is.
FirstFit ==
  [][call # NoCall /\ call' = NoCall =>
       IF Adequate(call.size) = {}
         THEN UNCHANGED owned
         ELSE \E b \in Adequate(call.size) :
                /\ \A c \in Adequate(call.size) : b <= c
                /\ DOMAIN owned' = (DOMAIN owned \ {call.old}) \cup {b + HDR}
    ]_vars

\* realloc's memcpy carries over every byte the program could have written and
\* still has room for (of a block that malloc did not wrap to something smaller),
\* and neither reads past the old block nor writes past the new one.  A failed
\* realloc leaves the old block the program's.
ReallocKeeps ==
  [][call.op = "realloc" /\ call' = NoCall /\ call.size <= Largest =>
       \/ UNCHANGED <<owned, hdr>>
       \/ \E p \in DOMAIN owned' \ DOMAIN owned :
            /\ owned[call.old].asked <= Largest =>
                 owned'[p].kept >= toCopy(owned[call.old].asked, call.size)
            /\ owned'[p].kept <= hdr[call.old - HDR].size
            /\ owned'[p].kept <= hdr'[p - HDR].size
    ]_vars

\* Every call of malloc and realloc returns: the walk never goes round in a
\* circle.  (After wild nothing is claimed.)
CallsReturn == (call # NoCall) ~> (call = NoCall \/ wild)

\* A search only moves up the heap, from one header to a later one, whatever the
\* calls before it have split and merged, and never leaves it: a call takes no more
\* turns than there are headers.
WalkAdvances ==
  [][call # NoCall /\ call' # NoCall => call' = call /\ curr < curr' /\ curr' + HDR <= HeapEnd]_vars

Held == [p \in {b + HDR : b \in {c \in DOMAIN hdr : hdr[c].isAllocated}} |->
           hdr[p - HDR].size]

Abs == INSTANCE Allocator WITH HeapLo <- head, HeapHi <- HeapEnd, held <- Held

\* The allocator implements the abstract one: what is marked allocated on the
\* list are disjoint ranges inside the heap that never move or change size.
ImplementsAllocator == Abs!ASpec

\* What the comment at heap.c:26 says, "doubly linked list": the prev of a block
\* is a block of the list.
PrevIsListNode == \A b \in DOMAIN hdr : hdr[b].prev # NULL => hdr[b].prev \in DOMAIN hdr
=============================================================================
