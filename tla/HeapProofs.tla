----------------------------- MODULE HeapProofs -----------------------------
(***************************************************************************)
(* For every heap, header size and set of request sizes: the list of Heap  *)
(* tiles the heap, and agrees with the program on which blocks it holds;   *)
(* the calls take the first block that fits, realloc carries bytes over,   *)
(* and Heap implements Allocator.                                          *)
(***************************************************************************)
EXTENDS Heap, TLAPS

\* A well-typed list that tiles the heap.
GoodList(h) ==
  /\ DOMAIN h \subseteq Nat
  /\ h \in [DOMAIN h -> Header]
  /\ Tiles(h)

\* The blocks marked allocated in g are those of h, with the same size.
SameAllocated(g, h) ==
  /\ \A b \in DOMAIN h : h[b].isAllocated =>
       b \in DOMAIN g /\ g[b].isAllocated /\ g[b].size = h[b].size
  /\ \A b \in DOMAIN g : g[b].isAllocated => b \in DOMAIN h /\ h[b].isAllocated

----------------------------------------------------------------------------
\* ALIGN_4BYTE rounds up by less than four bytes wherever it does not wrap.
LEMMA AlignNat == ASSUME NEW n \in Nat PROVE ALIGN_4BYTE(n) \in Nat
  BY HeapAssumption DEF ALIGN_4BYTE

LEMMA ModSmall == ASSUME NEW x \in Nat, NEW m \in Nat \ {0}, x < m PROVE x % m = x
  OBVIOUS

LEMMA AlignUp == ASSUME NEW n \in Nat, n <= Largest
                 PROVE  n <= ALIGN_4BYTE(n)
<1>1. /\ ((n + 3) \div 4) * 4 \in Nat
      /\ n <= ((n + 3) \div 4) * 4
      /\ ((n + 3) \div 4) * 4 < SIZE_MOD
  BY HeapAssumption DEF Largest
<1>2. QED BY <1>1, ModSmall, HeapAssumption DEF ALIGN_4BYTE

LEMMA HeadNat == head \in Nat /\ head # NULL /\ head + HDR <= HeapEnd
  BY AlignNat, HeapAssumption DEF head, NULL

----------------------------------------------------------------------------
\* What GoodList says of one block and of two, without its definition.
LEMMA Block ==
  ASSUME NEW h, GoodList(h), NEW a \in DOMAIN h
  PROVE  /\ a \in Nat /\ head <= a /\ h[a] \in Header
         /\ h[a].size \in Nat /\ h[a].next \in Nat /\ h[a].prev \in Nat
         /\ h[a].isAllocated \in BOOLEAN
         /\ End(h, a) \in Nat /\ End(h, a) = a + HDR + h[a].size /\ a < End(h, a)
         /\ End(h, a) <= HeapEnd
         /\ h[a].next = NULL => End(h, a) = HeapEnd
         /\ h[a].next # NULL => h[a].next \in DOMAIN h /\ h[a].next = End(h, a)
<1>1. a \in Nat /\ h[a] \in Header
  BY DEF GoodList
<1>2. /\ head <= a /\ End(h, a) <= HeapEnd
      /\ h[a].next = NULL => End(h, a) = HeapEnd
      /\ h[a].next # NULL => h[a].next \in DOMAIN h /\ h[a].next = End(h, a)
  BY DEF GoodList, Tiles
<1>3. QED BY <1>1, <1>2, HeapAssumption DEF End, Header

LEMMA Apart ==
  ASSUME NEW h, GoodList(h), NEW a \in DOMAIN h, NEW c \in DOMAIN h, a < c
  PROVE  End(h, a) <= c
  BY DEF GoodList, Tiles

\* mergeNextMemorySpace keeps the list good and touches no allocated block
\* other than b.
LEMMA MergeGood ==
  ASSUME NEW h, GoodList(h), NEW b \in DOMAIN h
  PROVE  LET g == mergeNextMemorySpace(h, b)
         IN  /\ GoodList(g)
             /\ b \in DOMAIN g
             /\ g[b].isAllocated = h[b].isAllocated
             /\ g[b].prev = h[b].prev
             /\ \A a \in DOMAIN h : a < b => a \in DOMAIN g /\ g[a].size = h[a].size
                                             /\ g[a].isAllocated = h[a].isAllocated
             /\ ~h[b].isAllocated => SameAllocated(g, h)
<1> DEFINE g == mergeNextMemorySpace(h, b)
           n == h[b].next
           m == h[n].next
<1> USE HeadNat, HeapAssumption
<1>1. CASE ~(n # NULL /\ ~h[n].isAllocated)
  BY <1>1 DEF mergeNextMemorySpace, Mergeable, SameAllocated
<1>2. CASE n # NULL /\ ~h[n].isAllocated
  <2>1. /\ n \in DOMAIN h /\ n = End(h, b) /\ b < n
        /\ h[b] \in Header /\ h[n] \in Header
    BY <1>2, Block
  <2>2. m # NULL => m \in DOMAIN h /\ m = End(h, n) /\ n < m
    BY <2>1, Block
  <2>3. g = [a \in DOMAIN h \ {n} |->
               IF a = b THEN [h[b] EXCEPT !.next = m, !.size = @ + HDR + h[n].size]
               ELSE IF a = m THEN [h[a] EXCEPT !.prev = b]
               ELSE h[a]]
    BY <1>2 DEF mergeNextMemorySpace, Mergeable
  <2>4. /\ DOMAIN g = DOMAIN h \ {n}
        /\ g[b] = [h[b] EXCEPT !.next = m, !.size = @ + HDR + h[n].size]
        /\ \A a \in DOMAIN g : a # b => /\ g[a] \in Header
                                       /\ g[a].next = h[a].next
                                       /\ g[a].size = h[a].size
                                       /\ g[a].isAllocated = h[a].isAllocated
    BY <2>1, <2>3 DEF GoodList, Header
  <2>5. /\ g[b] \in Header /\ g[b].next = m
        /\ g[b].size = h[b].size + HDR + h[n].size
        /\ g[b].isAllocated = h[b].isAllocated
        /\ g[b].prev = h[b].prev
    <3>1. /\ g[b].next = m /\ g[b].size = h[b].size + HDR + h[n].size
          /\ g[b].prev = h[b].prev /\ g[b].isAllocated = h[b].isAllocated
      BY <2>1, <2>4 DEF Header
    <3>2. g[b].size \in Nat /\ m \in Nat
      BY <2>1, <3>1, Block
    <3>3. g[b] = [prev |-> h[b].prev, next |-> m, size |-> g[b].size,
                  isAllocated |-> h[b].isAllocated]
      BY <2>1, <2>4, <3>1 DEF Header
    <3>4. g[b] \in Header
      BY <3>2, <3>3, Block DEF Header
    <3>5. QED BY <3>1, <3>4
  <2>6. DOMAIN g \subseteq Nat /\ g \in [DOMAIN g -> Header]
    BY <2>3, <2>4, <2>5 DEF GoodList
  <2>7. End(g, b) = End(h, n)
    BY <2>1, <2>5 DEF End, GoodList, Header
  <2>8. \A a \in DOMAIN g : a # b => End(g, a) = End(h, a) /\ h[a].next # n
    <3> SUFFICES ASSUME NEW a \in DOMAIN g, a # b
                 PROVE  End(g, a) = End(h, a) /\ h[a].next # n
      OBVIOUS
    <3>1. a \in DOMAIN h /\ End(g, a) = End(h, a)
      BY <2>4 DEF End
    <3>2. End(h, a) # n
      <4>1. a \in Nat /\ b \in Nat /\ (a < b \/ b < a)
        BY <3>1, Block
      <4>2. QED BY <4>1, <3>1, <2>1, Block, Apart
    <3>3. n # NULL
      BY <1>2
    <3>4. QED BY <3>1, <3>2, <3>3, Block
  <2>9. Tiles(g)
    <3>1. head \in DOMAIN g
      BY <2>1, <2>4 DEF GoodList, Tiles
    <3>2. ASSUME NEW a \in DOMAIN g
          PROVE  /\ head <= a /\ End(g, a) <= HeapEnd
                 /\ g[a].next = NULL => End(g, a) = HeapEnd
                 /\ g[a].next # NULL => g[a].next \in DOMAIN g /\ g[a].next = End(g, a)
      <4>1. CASE a = b
        BY <4>1, <2>1, <2>2, <2>4, <2>5, <2>7 DEF GoodList, Tiles
      <4>2. CASE a # b
        BY <4>2, <2>4, <2>8 DEF GoodList, Tiles
      <4>3. QED BY <4>1, <4>2
    <3>3. ASSUME NEW a \in DOMAIN g, NEW c \in DOMAIN g, a < c
          PROVE  End(g, a) <= c
      <4>1. a \in DOMAIN h /\ c \in DOMAIN h /\ c # n /\ a \in Nat /\ c \in Nat
        BY <2>4 DEF GoodList
      <4>2. CASE a = b
        <5>1. n < c
          BY <4>1, <4>2, <3>3, <2>1 DEF GoodList, Tiles
        <5>2. QED BY <5>1, <4>1, <4>2, <2>1, <2>7 DEF GoodList, Tiles
      <4>3. CASE a # b
        BY <4>1, <4>3, <3>3, <2>8 DEF GoodList, Tiles
      <4>4. QED BY <4>2, <4>3
    <3>4. QED BY <3>1, <3>2, <3>3 DEF Tiles
  <2>10. ~h[b].isAllocated => SameAllocated(g, h)
    BY <1>2, <2>1, <2>4, <2>5 DEF SameAllocated
  <2>11. b \in DOMAIN g
    BY <2>1, <2>4 DEF GoodList
  <2>12. \A a \in DOMAIN h : a < b => a \in DOMAIN g /\ g[a].size = h[a].size
                                       /\ g[a].isAllocated = h[a].isAllocated
    BY <2>1, <2>4, Block
  <2>13. QED BY <2>5, <2>6, <2>9, <2>10, <2>11, <2>12 DEF GoodList
<1>3. QED BY <1>1, <1>2

\* Cutting a free block in two keeps the list good.
LEMMA CutGood ==
  ASSUME NEW h, GoodList(h), NEW b \in DOMAIN h, NEW size \in Nat,
         h[b].size > size + HDR + 4
  PROVE  LET g == CutMemorySpace(h, b, size)
             n == b + HDR + size
         IN  /\ GoodList(g)
             /\ b \in DOMAIN g /\ n \in DOMAIN g /\ b < n
             /\ g[b].size = size /\ g[b].isAllocated = h[b].isAllocated
             /\ ~g[n].isAllocated
             /\ ~h[b].isAllocated => SameAllocated(g, h)
<1> DEFINE g == CutMemorySpace(h, b, size)
           n == b + HDR + size
<1> USE HeadNat, HeapAssumption
<1>1. n \in Nat /\ b < n /\ n < End(h, b)
  BY Block
<1>2. n \notin DOMAIN h
  BY <1>1, Block, Apart
<1>3. g = [a \in DOMAIN h \cup {n} |->
             IF a = n THEN [prev |-> b, next |-> h[b].next,
                            size |-> h[b].size - size - HDR, isAllocated |-> FALSE]
             ELSE IF a = b THEN [h[b] EXCEPT !.next = n, !.size = size]
             ELSE h[a]]
  BY DEF CutMemorySpace, Leftover
<1>4. /\ DOMAIN g = DOMAIN h \cup {n}
      /\ g[n] = [prev |-> b, next |-> h[b].next,
                 size |-> h[b].size - size - HDR, isAllocated |-> FALSE]
      /\ g[b] = [h[b] EXCEPT !.next = n, !.size = size]
      /\ \A a \in DOMAIN h : a # b => g[a] = h[a]
  BY <1>1, <1>2, <1>3, Block
<1>5. /\ g[n].next = h[b].next /\ g[n].size = h[b].size - size - HDR
      /\ ~g[n].isAllocated /\ g[n] \in Header
  BY <1>4, Block DEF Header
<1>6. /\ g[b].next = n /\ g[b].size = size
      /\ g[b].isAllocated = h[b].isAllocated /\ g[b].prev = h[b].prev
  BY <1>4, Block DEF Header
<1>7. g[b] \in Header
  <2>1. h[b] \in Header
    BY Block
  <2>2. g[b] = [prev |-> h[b].prev, next |-> n, size |-> size,
                isAllocated |-> h[b].isAllocated]
    BY <2>1, <1>4, <1>6 DEF Header
  <2>3. QED BY <2>2, <1>1, Block DEF Header
<1>8. DOMAIN g \subseteq Nat /\ g \in [DOMAIN g -> Header]
  <2>1. DOMAIN g \subseteq Nat
    BY <1>1, <1>4 DEF GoodList
  <2>2. \A a \in DOMAIN g : g[a] \in Header
    BY <1>4, <1>5, <1>7, Block
  <2>3. QED BY <2>1, <2>2, <1>3
<1>9. /\ End(g, b) = n /\ End(g, n) = End(h, b)
      /\ \A a \in DOMAIN h : a # b => End(g, a) = End(h, a)
  BY <1>4, <1>5, <1>6, Block DEF End
<1>10. Tiles(g)
  <2>1. head \in DOMAIN g
    BY <1>4 DEF GoodList, Tiles
  <2>2. ASSUME NEW a \in DOMAIN g
        PROVE  /\ head <= a /\ End(g, a) <= HeapEnd
               /\ g[a].next = NULL => End(g, a) = HeapEnd
               /\ g[a].next # NULL => g[a].next \in DOMAIN g /\ g[a].next = End(g, a)
    <3>1. CASE a = b
      BY <3>1, <1>1, <1>4, <1>6, <1>9, Block DEF NULL
    <3>2. CASE a = n
      BY <3>2, <1>1, <1>4, <1>5, <1>9, Block
    <3>3. CASE a # b /\ a # n
      BY <3>3, <1>4, <1>9, Block
    <3>4. QED BY <3>1, <3>2, <3>3
  <2>3. ASSUME NEW a \in DOMAIN g, NEW c \in DOMAIN g, a < c
        PROVE  End(g, a) <= c
    <3>1. CASE a = b
      BY <3>1, <2>3, <1>1, <1>4, <1>9, Block, Apart
    <3>2. CASE a = n
      <4>1. c \in DOMAIN h /\ b < c
        BY <3>2, <2>3, <1>1, <1>4, Block
      <4>2. QED BY <4>1, <3>2, <1>9, Apart
    <3>3. CASE a # b /\ a # n
      <4>1. CASE c = n
        <5>1. a < b
          BY <4>1, <3>3, <2>3, <1>1, <1>4, Block, Apart
        <5>2. QED BY <5>1, <4>1, <3>3, <1>1, <1>4, <1>9, Block, Apart
      <4>2. CASE c # n
        BY <4>2, <3>3, <2>3, <1>4, <1>9, Apart
      <4>3. QED BY <4>1, <4>2
    <3>4. QED BY <3>1, <3>2, <3>3
  <2>4. QED BY <2>1, <2>2, <2>3 DEF Tiles
<1>11. ~h[b].isAllocated => SameAllocated(g, h)
  BY <1>2, <1>4, <1>5, <1>6 DEF SameAllocated
<1>12. QED BY <1>1, <1>4, <1>5, <1>6, <1>8, <1>10, <1>11 DEF GoodList

LEMMA SplitGood ==
  ASSUME NEW h, GoodList(h), NEW b \in DOMAIN h, ~h[b].isAllocated,
         NEW size \in Nat, size <= h[b].size
  PROVE  LET g == splitMemorySpace(h, b, size)
         IN  /\ GoodList(g) /\ b \in DOMAIN g
             /\ ~g[b].isAllocated /\ size <= g[b].size
             /\ SameAllocated(g, h)
<1>1. CASE ~(h[b].size > size + HDR + 4)
  BY <1>1 DEF splitMemorySpace, SameAllocated
<1>2. CASE h[b].size > size + HDR + 4
  <2> DEFINE c == CutMemorySpace(h, b, size)
             n == b + HDR + size
             g == mergeNextMemorySpace(c, n)
  <2>1. /\ GoodList(c) /\ b \in DOMAIN c /\ n \in DOMAIN c /\ b < n
        /\ c[b].size = size /\ ~c[b].isAllocated /\ ~c[n].isAllocated
        /\ SameAllocated(c, h)
    BY <1>2, CutGood
  <2>2. /\ GoodList(g) /\ b \in DOMAIN g /\ g[b].size = size /\ ~g[b].isAllocated
        /\ SameAllocated(g, c)
    <3> HIDE DEF c, n
    <3>1. QED BY <2>1, MergeGood
  <2>3. splitMemorySpace(h, b, size) = g
    BY <1>2 DEF splitMemorySpace
  <2>4. SameAllocated(g, h)
    <3> HIDE DEF c, g
    <3>1. QED BY <2>1, <2>2 DEF SameAllocated
  <2>5. QED BY <2>2, <2>3, <2>4
<1>3. QED BY <1>1, <1>2

\* Outside b, g and h have the same allocated blocks, with the same sizes.
SameElsewhere(g, h, b) ==
  /\ \A a \in DOMAIN h : a # b /\ h[a].isAllocated =>
       a \in DOMAIN g /\ g[a].isAllocated /\ g[a].size = h[a].size
  /\ \A a \in DOMAIN g : a # b /\ g[a].isAllocated => a \in DOMAIN h /\ h[a].isAllocated

LEMMA SetGood ==
  ASSUME NEW h, GoodList(h), NEW b \in DOMAIN h, NEW v \in BOOLEAN
  PROVE  LET g == SetAllocated(h, b, v)
         IN  /\ GoodList(g) /\ b \in DOMAIN g /\ g[b].isAllocated = v
             /\ g[b].size = h[b].size /\ SameElsewhere(g, h, b)
<1> DEFINE g == SetAllocated(h, b, v)
<1>1. /\ DOMAIN g = DOMAIN h /\ g[b] = [h[b] EXCEPT !.isAllocated = v]
      /\ \A a \in DOMAIN h : a # b => g[a] = h[a]
      /\ g = [a \in DOMAIN h |-> g[a]]
  BY DEF SetAllocated, GoodList
<1> HIDE DEF g
<1>2. h[b] \in Header
  BY Block
<1>3. /\ g[b].isAllocated = v /\ g[b].size = h[b].size
      /\ g[b].next = h[b].next /\ g[b].prev = h[b].prev
  BY <1>1, <1>2 DEF Header
<1>4. g[b] = [prev |-> h[b].prev, next |-> h[b].next, size |-> h[b].size, isAllocated |-> v]
  BY <1>1, <1>2, <1>3 DEF Header
<1>5. \A a \in DOMAIN g : g[a] \in Header
  BY <1>1, <1>4, Block DEF Header
<1>6. \A a \in DOMAIN h : g[a].next = h[a].next /\ End(g, a) = End(h, a)
  BY <1>1, <1>3 DEF End
<1>7. Tiles(g)
  BY <1>1, <1>6 DEF GoodList, Tiles
<1>8. GoodList(g)
  <2>1. g \in [DOMAIN g -> Header]
    BY <1>1, <1>5
  <2>2. QED BY <2>1, <1>1, <1>7 DEF GoodList
<1>9. SameElsewhere(g, h, b)
  BY <1>1 DEF SameElsewhere
<1>10. QED BY <1>1, <1>3, <1>8, <1>9 DEF g

LEMMA PlaceGood ==
  ASSUME NEW h, GoodList(h), NEW b \in DOMAIN h, ~h[b].isAllocated,
         Wanted \in Nat, Wanted <= h[b].size
  PROVE  LET g == Place(h, b)
         IN  /\ GoodList(g) /\ b \in DOMAIN g /\ g[b].isAllocated
             /\ Wanted <= g[b].size /\ SameElsewhere(g, h, b)
<1> DEFINE s == splitMemorySpace(h, b, Wanted)
<1>1. /\ GoodList(s) /\ b \in DOMAIN s /\ Wanted <= s[b].size /\ SameAllocated(s, h)
  BY SplitGood
<1> DEFINE g == SetAllocated(s, b, TRUE)
<1>2. Place(h, b) = g
  BY DEF Place
<1> HIDE DEF s
<1>3. /\ GoodList(g) /\ b \in DOMAIN g /\ g[b].isAllocated
      /\ g[b].size = s[b].size /\ SameElsewhere(g, s, b)
  BY <1>1, SetGood
<1>4. SameElsewhere(g, h, b)
  <2> HIDE DEF g
  <2>1. QED BY <1>1, <1>3 DEF SameAllocated, SameElsewhere
<1>5. QED BY <1>1, <1>2, <1>3, <1>4

LEMMA ReleaseGood ==
  ASSUME NEW h, GoodList(h), NEW b \in DOMAIN h
  PROVE  LET g == Release(h, b)
         IN  GoodList(g) /\ b \in DOMAIN g /\ ~g[b].isAllocated /\ SameElsewhere(g, h, b)
<1> DEFINE s == SetAllocated(h, b, FALSE)
<1>1. GoodList(s) /\ b \in DOMAIN s /\ s[b].isAllocated = FALSE /\ SameElsewhere(s, h, b)
  BY SetGood
<1>2. Release(h, b) = mergeNextMemorySpace(s, b)
  BY DEF Release
<1> HIDE DEF s
<1>3. QED BY <1>1, <1>2, MergeGood DEF SameAllocated, SameElsewhere

LEMMA CoalesceGood ==
  ASSUME NEW h, GoodList(h), NEW b \in DOMAIN h
  PROVE  LET g == Coalesce(h, b)
         IN  GoodList(g) /\ SameAllocated(g, h)
<1> DEFINE p == h[b].prev
<1>1. CASE p \in DOMAIN h /\ ~h[p].isAllocated
  BY <1>1, MergeGood DEF Coalesce
<1>2. CASE ~(p \in DOMAIN h /\ ~h[p].isAllocated)
  BY <1>2 DEF Coalesce, SameAllocated
<1>3. QED BY <1>1, <1>2

\* Whatever free() does after its forward merge, the list stays good, and the
\* allocated blocks are those of h without b.
LEMMA FreeGood ==
  ASSUME NEW h, GoodList(h), NEW b \in DOMAIN h, FreeTail(Release(h, b), b), TypeOK
  PROVE  /\ GoodList(hdr') /\ SameElsewhere(hdr', h, b)
         /\ b \in DOMAIN hdr' => ~hdr'[b].isAllocated
         /\ wild' \in BOOLEAN
<1> DEFINE r == Release(h, b)
<1>1. GoodList(r) /\ b \in DOMAIN r /\ ~r[b].isAllocated /\ SameElsewhere(r, h, b)
  BY ReleaseGood
<1>2. hdr' = Coalesce(r, b) \/ hdr' = r
  BY DEF FreeTail
<1>3. GoodList(hdr') /\ SameAllocated(hdr', r)
  <2> HIDE DEF r
  <2>1. CASE hdr' = Coalesce(r, b)
    BY <2>1, <1>1, CoalesceGood
  <2>2. CASE hdr' = r
    BY <2>2, <1>1 DEF SameAllocated
  <2>3. QED BY <1>2, <2>1, <2>2
<1>4. wild' \in BOOLEAN
  BY DEF FreeTail, TypeOK
<1> HIDE DEF r
<1>5. QED BY <1>1, <1>3, <1>4 DEF SameAllocated, SameElsewhere

----------------------------------------------------------------------------
(***************************************************************************)
(* The inductive invariant: the three invariants together.  Tiling alone   *)
(* is not inductive because free() must find a header at p - HDR, and      *)
(* HeldIntact alone is not because a split or a merge of a list that does  *)
(* not tile the heap could land inside a block the program holds.          *)
(***************************************************************************)
IInv == TypeOK /\ Tiling /\ HeldIntact

LEMMA IInvGood == IInv => GoodList(hdr)
  BY DEF IInv, TypeOK, Tiling, GoodList

LEMMA InitInv == Init => IInv
<1> SUFFICES ASSUME Init PROVE IInv
  OBVIOUS
<1> USE HeadNat, HeapAssumption
<1>1. /\ DOMAIN hdr = {head}
      /\ hdr[head] = [prev |-> NULL, next |-> NULL,
                      size |-> HeapEnd - head - HDR, isAllocated |-> FALSE]
  BY DEF Init
<1>2. hdr[head] \in Header
  BY <1>1 DEF Header, NULL
<1>3. TypeOK
  <2>1. hdr \in [DOMAIN hdr -> Header] /\ DOMAIN hdr \subseteq Nat
    BY <1>1, <1>2 DEF Init
  <2>2. QED BY <2>1 DEF Init, TypeOK, NoCall, NULL
<1>4. Tiling
  BY <1>1 DEF Tiling, Tiles, End, Init
<1>5. HeldIntact
  BY <1>1 DEF HeldIntact, Init, NoCall
<1>6. QED BY <1>3, <1>4, <1>5 DEF IInv

\* A call starts: nothing but the call and the cursor changes.
LEMMA AskInv ==
  ASSUME IInv, UNCHANGED <<hdr, owned, wild>>, curr' = head,
         NEW n \in Sizes, NEW p \in Nat, NEW op \in {"malloc", "realloc"},
         op = "realloc" => p \in DOMAIN owned,
         call' = [op |-> op, size |-> n, old |-> p]
  PROVE  IInv'
<1> USE HeadNat, HeapAssumption
<1>1. TypeOK'
  BY DEF IInv, TypeOK
<1>2. Tiling'
  BY DEF IInv, Tiling, Tiles, End
<1>3. HeldIntact'
  BY DEF IInv, HeldIntact
<1>4. QED BY <1>1, <1>2, <1>3 DEF IInv

\* The walk and a failed call: the list and the holdings stay as they are.
LEMMA WalkInv == ASSUME IInv, find_free_space \/ ReturnNull PROVE IInv'
<1>1. UNCHANGED <<hdr, owned, wild>>
  BY DEF find_free_space, NextNode, ReturnNull
<1>2. CASE find_free_space
  <2>1. /\ UNCHANGED <<call, hdr, owned, wild>> /\ curr' \in DOMAIN hdr /\ curr' \in Nat
    <3>1. curr \in DOMAIN hdr /\ hdr[curr].next # NULL /\ curr' = hdr[curr].next
      BY <1>2 DEF find_free_space, NextNode, IInv, Tiling
    <3>2. QED BY <3>1, <1>2, IInvGood, Block DEF find_free_space, NextNode
  <2>2. QED BY <2>1 DEF IInv, TypeOK, Tiling, Tiles, End, HeldIntact
<1>3. CASE ReturnNull
  <2>1. call' = NoCall /\ curr' = NULL
    BY <1>3 DEF ReturnNull
  <2>2. QED BY <1>1, <2>1 DEF IInv, TypeOK, Tiling, Tiles, End, HeldIntact, NoCall, NULL
<1>4. QED BY <1>2, <1>3

\* Where the walk stopped at a block that will do.
LEMMA Found ==
  ASSUME IInv, call # NoCall, ~Unfit(curr)
  PROVE  /\ curr \in DOMAIN hdr /\ ~hdr[curr].isAllocated
         /\ Wanted \in Nat /\ Wanted <= hdr[curr].size
         /\ call.size \in Nat
         /\ call.size <= Largest => call.size <= Wanted
         /\ curr \in Nat /\ curr + HDR \in Nat /\ curr + HDR \notin DOMAIN owned
<1>1. curr \in DOMAIN hdr /\ call.size \in Nat
  BY DEF IInv, Tiling, TypeOK
<1>2. Wanted \in Nat /\ (call.size <= Largest => call.size <= Wanted)
  BY <1>1, AlignNat, AlignUp DEF Wanted
<1>3. hdr[curr].size \in Nat /\ curr \in Nat
  BY <1>1, IInvGood, Block
<1>4. ~hdr[curr].isAllocated /\ Wanted <= hdr[curr].size
  BY <1>2, <1>3 DEF Unfit
<1>5. curr + HDR \notin DOMAIN owned
  <2>1. (curr + HDR) - HDR = curr
    BY <1>3, HeapAssumption
  <2>2. QED BY <2>1, <1>4 DEF IInv, HeldIntact
<1>6. QED BY <1>1, <1>2, <1>3, <1>4, <1>5, HeapAssumption

LEMMA NewInv == ASSUME IInv, ReturnNew PROVE IInv'
<1> USE HeapAssumption
<1>1. call # NoCall /\ ~Unfit(curr) /\ call' = NoCall /\ curr' = NULL /\ UNCHANGED wild
  BY DEF ReturnNew, NoCall
<1> DEFINE p == curr + HDR
<1>2. /\ GoodList(hdr') /\ curr \in DOMAIN hdr' /\ hdr'[curr].isAllocated
      /\ Wanted <= hdr'[curr].size /\ SameElsewhere(hdr', hdr, curr)
  BY <1>1, Found, IInvGood, PlaceGood DEF ReturnNew
<1>3. /\ DOMAIN owned' = DOMAIN owned \cup {p}
      /\ owned'[p] = [asked |-> call.size, kept |-> 0]
      /\ \A q \in DOMAIN owned : q # p => owned'[q] = owned[q]
      /\ owned' = [q \in DOMAIN owned' |-> owned'[q]]
  BY DEF ReturnNew, Hold, Bytes
<1>4. TypeOK'
  <2>1. \A q \in DOMAIN owned' : owned'[q] \in [asked : Nat, kept : Nat]
    BY <1>1, <1>3, Found DEF IInv, TypeOK
  <2>2. owned' \in [DOMAIN owned' -> [asked : Nat, kept : Nat]] /\ DOMAIN owned' \subseteq Nat
    BY <1>1, <1>3, <2>1, Found DEF IInv, TypeOK
  <2>3. QED BY <1>1, <1>2, <2>2 DEF IInv, TypeOK, GoodList, NoCall, NULL
<1>5. Tiling'
  BY <1>1, <1>2 DEF Tiling, GoodList
<1>6. HeldIntact'
  <2>1. ASSUME NEW b \in DOMAIN hdr', hdr'[b].isAllocated
        PROVE  b + HDR \in DOMAIN owned'
    BY <1>2, <1>3, <2>1 DEF SameElsewhere, IInv, HeldIntact
  <2>2. ASSUME NEW q \in DOMAIN owned'
        PROVE  /\ q - HDR \in DOMAIN hdr' /\ hdr'[q - HDR].isAllocated
               /\ owned'[q].asked <= Largest => owned'[q].asked <= hdr'[q - HDR].size
    <3>1. CASE q = p
      <4>1. q - HDR = curr /\ owned'[q].asked = call.size
        BY <3>1, <1>1, <1>3, Found
      <4>2. hdr'[curr].size \in Nat
        BY <1>2, Block
      <4>3. Largest \in Int
        BY HeapAssumption DEF Largest
      <4>4. QED BY <4>1, <4>2, <4>3, <1>1, <1>2, Found
    <3>2. CASE q # p
      <4>1. q \in DOMAIN owned /\ owned'[q] = owned[q] /\ q \in Nat /\ q - HDR # curr
        BY <3>2, <1>1, <1>3, Found DEF IInv, TypeOK
      <4>2. /\ q - HDR \in DOMAIN hdr /\ hdr[q - HDR].isAllocated
            /\ owned[q].asked <= Largest => owned[q].asked <= hdr[q - HDR].size
        BY <4>1 DEF IInv, HeldIntact
      <4>3. /\ q - HDR \in DOMAIN hdr' /\ hdr'[q - HDR].isAllocated
            /\ hdr'[q - HDR].size = hdr[q - HDR].size
        BY <4>1, <4>2, <1>2 DEF SameElsewhere
      <4>4. QED BY <4>1, <4>2, <4>3
    <3>3. QED BY <3>1, <3>2
  <2>3. call'.op # "realloc"
    BY <1>1 DEF NoCall
  <2>4. QED BY <2>1, <2>2, <2>3 DEF HeldIntact
<1>7. QED BY <1>4, <1>5, <1>6 DEF IInv

\* What the program holds after it gave p back: the pointers but p, as they were.
LEMMA DropOwned ==
  ASSUME IInv, NEW p \in DOMAIN owned, NEW d, d = Drop(owned, p)
  PROVE  /\ DOMAIN d = DOMAIN owned \ {p} /\ DOMAIN d \subseteq Nat
         /\ d \in [DOMAIN d -> [asked : Nat, kept : Nat]]
         /\ \A q \in DOMAIN d : d[q] = owned[q]
<1>1. DOMAIN d = DOMAIN owned \ {p} /\ \A q \in DOMAIN d : d[q] = owned[q]
  BY DEF Drop
<1>2. QED BY <1>1 DEF Drop, IInv, TypeOK

\* The header of a pointer the program holds.
LEMMA OwnedHeader ==
  ASSUME IInv, NEW q \in DOMAIN owned
  PROVE  /\ q \in Nat /\ q - HDR \in DOMAIN hdr /\ q - HDR \in Nat
         /\ hdr[q - HDR].isAllocated /\ (q - HDR) + HDR = q
         /\ hdr[q - HDR].size \in Nat
         /\ owned[q].asked \in Nat
         /\ owned[q].asked <= Largest => owned[q].asked <= hdr[q - HDR].size
<1>1. q \in Nat /\ owned[q].asked \in Nat
  BY DEF IInv, TypeOK
<1>2. /\ q - HDR \in DOMAIN hdr /\ hdr[q - HDR].isAllocated
      /\ owned[q].asked <= Largest => owned[q].asked <= hdr[q - HDR].size
  BY DEF IInv, HeldIntact
<1>3. q - HDR \in Nat /\ hdr[q - HDR].size \in Nat
  BY <1>2, IInvGood, Block
<1>4. QED BY <1>1, <1>2, <1>3, HeapAssumption

LEMMA FreeInv == ASSUME IInv, NEW p \in DOMAIN owned, free(p) PROVE IInv'
<1> USE HeapAssumption
<1> DEFINE c == p - HDR
<1>1. c \in DOMAIN hdr /\ c \in Nat /\ c + HDR = p /\ hdr[c].isAllocated
  BY OwnedHeader
<1>2. UNCHANGED <<call, curr>> /\ call = NoCall /\ owned' = Drop(owned, p)
  BY DEF free, Idle
<1>3. /\ GoodList(hdr') /\ SameElsewhere(hdr', hdr, c)
      /\ c \in DOMAIN hdr' => ~hdr'[c].isAllocated
      /\ wild' \in BOOLEAN
  BY <1>1, IInvGood, FreeGood DEF free, IInv
<1>4. /\ DOMAIN owned' = DOMAIN owned \ {p} /\ DOMAIN owned' \subseteq Nat
      /\ owned' \in [DOMAIN owned' -> [asked : Nat, kept : Nat]]
      /\ \A q \in DOMAIN owned' : owned'[q] = owned[q]
  BY <1>2, DropOwned
<1>5. TypeOK'
  BY <1>2, <1>3, <1>4 DEF IInv, TypeOK, GoodList
<1>6. Tiling'
  BY <1>2, <1>3 DEF Tiling, GoodList
<1>7. HeldIntact'
  <2>1. ASSUME NEW b \in DOMAIN hdr', hdr'[b].isAllocated
        PROVE  b + HDR \in DOMAIN owned'
    <3>1. b # c /\ b \in DOMAIN hdr /\ hdr[b].isAllocated
      BY <2>1, <1>3 DEF SameElsewhere
    <3>2. b + HDR \in DOMAIN owned /\ b \in Nat
      BY <3>1, IInvGood, Block DEF IInv, HeldIntact
    <3>3. b + HDR # p
      BY <3>1, <3>2, <1>1
    <3>4. QED BY <3>2, <3>3, <1>4
  <2>2. ASSUME NEW q \in DOMAIN owned'
        PROVE  /\ q - HDR \in DOMAIN hdr' /\ hdr'[q - HDR].isAllocated
               /\ owned'[q].asked <= Largest => owned'[q].asked <= hdr'[q - HDR].size
    <3>1. q \in DOMAIN owned /\ q # p /\ owned'[q] = owned[q] /\ q \in Nat
      BY <1>4
    <3>2. q - HDR # c
      BY <3>1, <1>1
    <3>3. /\ q - HDR \in DOMAIN hdr' /\ hdr'[q - HDR].isAllocated
          /\ hdr'[q - HDR].size = hdr[q - HDR].size
      BY <3>1, <3>2, <1>3, OwnedHeader DEF SameElsewhere
    <3>4. QED BY <3>1, <3>3, OwnedHeader
  <2>3. QED BY <2>1, <2>2, <1>2 DEF HeldIntact, NoCall
<1>8. QED BY <1>5, <1>6, <1>7 DEF IInv

LEMMA MovedInv == ASSUME IInv, ReturnMoved PROVE IInv'
<1> USE HeapAssumption
<1>1. call # NoCall /\ ~Unfit(curr) /\ call' = NoCall /\ curr' = NULL
  BY DEF ReturnMoved, NoCall
<1> DEFINE o == call.old
           c == o - HDR
           p == curr + HDR
           h == Place(hdr, curr)
           kept == toCopy(hdr[c].size, call.size)
<1>2. o \in DOMAIN owned
  BY DEF ReturnMoved, IInv, HeldIntact
<1>3. c \in DOMAIN hdr /\ c \in Nat /\ c + HDR = o /\ hdr[c].isAllocated /\ hdr[c].size \in Nat
  BY <1>2, OwnedHeader
<1>4. /\ curr \in DOMAIN hdr /\ curr \in Nat /\ p \in Nat /\ p \notin DOMAIN owned /\ curr # c
      /\ call.size \in Nat /\ Wanted \in Nat /\ Wanted <= hdr[curr].size
      /\ ~hdr[curr].isAllocated
      /\ call.size <= Largest => call.size <= Wanted
  BY <1>1, <1>3, Found
<1>5. /\ GoodList(h) /\ curr \in DOMAIN h /\ h[curr].isAllocated
      /\ Wanted <= h[curr].size /\ SameElsewhere(h, hdr, curr)
  BY <1>4, IInvGood, PlaceGood
<1>6. FreeTail(Release(h, c), c) /\ owned' = Hold(Drop(owned, o), p, Bytes(call.size, kept))
  BY DEF ReturnMoved
<1> HIDE DEF h
<1>7. c \in DOMAIN h
  BY <1>3, <1>4, <1>5 DEF SameElsewhere
<1>8. /\ GoodList(hdr') /\ SameElsewhere(hdr', h, c)
      /\ c \in DOMAIN hdr' => ~hdr'[c].isAllocated
      /\ wild' \in BOOLEAN
  BY <1>5, <1>6, <1>7, FreeGood DEF IInv
<1>9. /\ curr \in DOMAIN hdr' /\ hdr'[curr].isAllocated /\ hdr'[curr].size = h[curr].size
  BY <1>4, <1>5, <1>8 DEF SameElsewhere
<1> HIDE DEF c, kept
<1>10. /\ DOMAIN owned' = (DOMAIN owned \ {o}) \cup {p}
       /\ owned'[p] = [asked |-> call.size, kept |-> kept]
       /\ \A q \in DOMAIN owned : q # p /\ q # o => owned'[q] = owned[q]
       /\ owned' = [q \in DOMAIN owned' |-> owned'[q]]
  BY <1>6 DEF Hold, Drop, Bytes
<1>11. kept \in Nat
  BY <1>3, <1>4 DEF kept, toCopy
<1>12. TypeOK'
  <2>1. \A q \in DOMAIN owned' : owned'[q] \in [asked : Nat, kept : Nat]
    BY <1>4, <1>10, <1>11 DEF IInv, TypeOK
  <2>2. owned' \in [DOMAIN owned' -> [asked : Nat, kept : Nat]] /\ DOMAIN owned' \subseteq Nat
    BY <1>4, <1>10, <2>1 DEF IInv, TypeOK
  <2>3. QED BY <1>1, <1>8, <2>2 DEF TypeOK, GoodList, NoCall, NULL
<1>13. Tiling'
  BY <1>1, <1>8 DEF Tiling, GoodList
<1>14. HeldIntact'
  <2>1. ASSUME NEW b \in DOMAIN hdr', hdr'[b].isAllocated
        PROVE  b + HDR \in DOMAIN owned'
    <3>1. b # c /\ b \in DOMAIN h /\ h[b].isAllocated
      BY <2>1, <1>8 DEF SameElsewhere
    <3>2. CASE b = curr
      BY <3>2, <1>10
    <3>3. CASE b # curr
      <4>1. b \in DOMAIN hdr /\ hdr[b].isAllocated
        BY <3>1, <3>3, <1>5 DEF SameElsewhere
      <4>2. b + HDR \in DOMAIN owned /\ b \in Nat
        BY <4>1, IInvGood, Block DEF IInv, HeldIntact
      <4>3. b + HDR # o
        BY <3>1, <4>2, <1>3
      <4>4. QED BY <4>2, <4>3, <1>10
    <3>4. QED BY <3>2, <3>3
  <2>2. ASSUME NEW q \in DOMAIN owned'
        PROVE  /\ q - HDR \in DOMAIN hdr' /\ hdr'[q - HDR].isAllocated
               /\ owned'[q].asked <= Largest => owned'[q].asked <= hdr'[q - HDR].size
    <3>1. CASE q = p
      <4>1. q - HDR = curr /\ owned'[q].asked = call.size
        BY <3>1, <1>4, <1>10
      <4>2. hdr'[curr].size \in Nat
        BY <1>8, <1>9, Block
      <4>3. Largest \in Int
        BY DEF Largest
      <4>4. QED BY <4>1, <4>2, <4>3, <1>4, <1>5, <1>9
    <3>2. CASE q # p
      <4>1. q \in DOMAIN owned /\ q # o /\ owned'[q] = owned[q] /\ q \in Nat
        BY <3>2, <1>10, OwnedHeader
      <4>2. q - HDR # c /\ q - HDR # curr
        BY <4>1, <3>2, <1>3, <1>4
      <4>3. /\ q - HDR \in DOMAIN hdr /\ hdr[q - HDR].isAllocated
            /\ owned[q].asked <= Largest => owned[q].asked <= hdr[q - HDR].size
        BY <4>1, OwnedHeader
      <4>4. /\ q - HDR \in DOMAIN h /\ h[q - HDR].isAllocated
            /\ h[q - HDR].size = hdr[q - HDR].size
        BY <4>2, <4>3, <1>5 DEF SameElsewhere
      <4>5. /\ q - HDR \in DOMAIN hdr' /\ hdr'[q - HDR].isAllocated
            /\ hdr'[q - HDR].size = h[q - HDR].size
        BY <4>2, <4>4, <1>8 DEF SameElsewhere
      <4>6. QED BY <4>1, <4>3, <4>4, <4>5
    <3>3. QED BY <3>1, <3>2
  <2>3. call'.op # "realloc"
    BY <1>1 DEF NoCall
  <2>4. QED BY <2>1, <2>2, <2>3 DEF HeldIntact
<1>15. QED BY <1>12, <1>13, <1>14 DEF IInv

LEMMA NextInv == IInv /\ [Next]_vars => IInv'
<1> SUFFICES ASSUME IInv, [Next]_vars PROVE IInv'
  OBVIOUS
<1>1. CASE \E n \in Sizes : malloc(n)
  BY <1>1, AskInv DEF malloc, NULL
<1>2. CASE \E p \in DOMAIN owned, n \in Sizes : realloc(p, n)
  <2>1. PICK p \in DOMAIN owned, n \in Sizes : realloc(p, n)
    BY <1>2
  <2>2. p \in Nat
    BY DEF IInv, TypeOK
  <2>3. QED BY <2>1, <2>2, AskInv DEF realloc
<1>3. CASE find_free_space
  BY <1>3, WalkInv
<1>4. CASE ReturnNull
  BY <1>4, WalkInv
<1>5. CASE ReturnNew
  BY <1>5, NewInv
<1>6. CASE ReturnMoved
  BY <1>6, MovedInv
<1>7. CASE \E p \in DOMAIN owned : free(p)
  BY <1>7, FreeInv
<1>8. CASE UNCHANGED vars
  BY <1>8 DEF vars, IInv, TypeOK, Tiling, Tiles, End, HeldIntact
<1>9. QED
  BY <1>1, <1>2, <1>3, <1>4, <1>5, <1>6, <1>7, <1>8 DEF Next

\* The inductive invariant holds in every state of heap.c's allocator.
THEOREM Inductive == Spec => []IInv
  BY InitInv, NextInv, PTL DEF Spec

\* Every variable keeps its type through every sequence of calls.
THEOREM TypeCorrect == Spec => []TypeOK
<1>1. IInv => TypeOK
  BY DEF IInv
<1>2. QED BY <1>1, Inductive, PTL

\* No sequence of malloc, realloc and free makes the blocks of the list
\* overlap, leave a gap, or lose the cursor of the walk in progress.
THEOREM ListTilesHeap == Spec => []Tiling
<1>1. IInv => Tiling
  BY DEF IInv
<1>2. QED BY <1>1, Inductive, PTL

\* No sequence of calls takes back, moves or shrinks a block the program holds.
THEOREM HoldingsSafe == Spec => []HeldIntact
<1>1. IInv => HeldIntact
  BY DEF IInv
<1>2. QED BY <1>1, Inductive, PTL

----------------------------------------------------------------------------
(***************************************************************************)
(* What the walk of find_free_space has established when it stands at      *)
(* curr: no block in front of it will do.                                  *)
(***************************************************************************)
Walked ==
  /\ call.op = "none" => call = NoCall
  /\ call.op = "malloc" => call.old = NULL
  /\ call # NoCall => \A c \in DOMAIN hdr : c < curr => Unfit(c)

LEMMA WalkedInit == Init => Walked
  BY DEF Init, Walked, NoCall

LEMMA WalkedNext == IInv /\ Walked /\ [Next]_vars => Walked'
<1> SUFFICES ASSUME IInv, Walked, [Next]_vars PROVE Walked'
  OBVIOUS
<1>1. ASSUME NEW n \in Sizes, malloc(n) PROVE Walked'
  <2>1. \A c \in DOMAIN hdr : ~(c < head)
    BY HeadNat, IInvGood, Block
  <2>2. QED BY <1>1, <2>1 DEF malloc, Walked, NoCall
<1>2. ASSUME NEW p \in DOMAIN owned, NEW n \in Sizes, realloc(p, n) PROVE Walked'
  <2>1. \A c \in DOMAIN hdr : ~(c < head)
    BY HeadNat, IInvGood, Block
  <2>2. QED BY <1>2, <2>1 DEF realloc, Walked, NoCall
<1>3. CASE find_free_space
  <2>1. /\ UNCHANGED <<hdr, call>> /\ call # NoCall /\ Unfit(curr)
        /\ hdr[curr].next # NULL /\ curr' = hdr[curr].next /\ curr \in DOMAIN hdr
    BY <1>3 DEF find_free_space, NextNode, IInv, Tiling
  <2>2. curr \in Nat /\ curr' = End(hdr, curr) /\ curr' \in Nat
    BY <2>1, IInvGood, Block
  <2>3. ASSUME NEW c \in DOMAIN hdr, c < curr' PROVE Unfit(c)
    <3>1. c \in Nat
      BY IInvGood, Block
    <3>2. ~(curr < c)
      BY <2>1, <2>2, <2>3, <3>1, IInvGood, Apart
    <3>3. QED BY <2>1, <2>2, <3>1, <3>2 DEF Walked
  <2>4. QED BY <2>1, <2>3 DEF Walked, Unfit, Wanted
<1>4. CASE ReturnNull \/ ReturnNew \/ ReturnMoved
  BY <1>4 DEF ReturnNull, ReturnNew, ReturnMoved, Walked, NoCall
<1>5. ASSUME NEW p \in DOMAIN owned, free(p) PROVE Walked'
  BY <1>5 DEF free, Idle, Walked, NoCall
<1>6. CASE UNCHANGED vars
  BY <1>6 DEF vars, Walked, Unfit, Wanted
<1>7. QED BY <1>1, <1>2, <1>3, <1>4, <1>5, <1>6 DEF Next

LEMMA WalkedAlways == Spec => [](IInv /\ Walked)
<1>1. Init => IInv /\ Walked
  BY InitInv, WalkedInit
<1>2. (IInv /\ Walked) /\ [Next]_vars => (IInv /\ Walked)'
  BY NextInv, WalkedNext
<1>3. QED BY <1>1, <1>2, PTL DEF Spec

\* A call ends in one of three ways.
LEMMA CallEnds ==
  ASSUME IInv, [Next]_vars, call # NoCall, call' = NoCall
  PROVE  ReturnNull \/ ReturnNew \/ ReturnMoved
<1>1. ~(\E n \in Sizes : malloc(n)) /\ ~(\E p \in DOMAIN owned, n \in Sizes : realloc(p, n))
  BY DEF malloc, realloc, Idle
<1>2. ~find_free_space
  BY DEF find_free_space
<1>3. ~(\E p \in DOMAIN owned : free(p))
  BY DEF free, Idle
<1>4. ~UNCHANGED vars
  BY DEF vars
<1>5. QED BY <1>1, <1>2, <1>3, <1>4 DEF Next

\* What a block has to be to be adequate, against the walk's test.
LEMMA AdequateFit ==
  ASSUME IInv, NEW c \in DOMAIN hdr
  PROVE  c \in Adequate(call.size) <=> ~Unfit(c)
<1>1. hdr[c].size \in Nat /\ call.size \in Nat
  BY IInvGood, Block DEF IInv, TypeOK
<1>2. Wanted \in Nat /\ Wanted = ALIGN_4BYTE(call.size)
  BY <1>1, AlignNat DEF Wanted
<1>3. QED BY <1>1, <1>2 DEF Adequate, Unfit

\* The block the walk stopped at is the lowest adequate one.
LEMMA Lowest ==
  ASSUME IInv, Walked, call # NoCall, ~Unfit(curr)
  PROVE  curr \in Adequate(call.size) /\ \A c \in Adequate(call.size) : curr <= c
<1>1. curr \in DOMAIN hdr /\ curr \in Nat
  BY Found
<1>2. curr \in Adequate(call.size)
  BY <1>1, AdequateFit
<1>3. ASSUME NEW c \in Adequate(call.size) PROVE curr <= c
  <2>1. c \in DOMAIN hdr
    BY DEF Adequate
  <2>2. c \in Nat /\ ~Unfit(c)
    BY <2>1, AdequateFit, IInvGood, Block
  <2>3. QED BY <1>1, <2>1, <2>2 DEF Walked
<1>4. QED BY <1>2, <1>3

\* What FirstFit says of one step.
FirstFitStep ==
  call # NoCall /\ call' = NoCall =>
    IF Adequate(call.size) = {}
      THEN UNCHANGED owned
      ELSE \E b \in Adequate(call.size) :
             /\ \A c \in Adequate(call.size) : b <= c
             /\ DOMAIN owned' = (DOMAIN owned \ {call.old}) \cup {b + HDR}

LEMMA FitStep == IInv /\ Walked /\ [Next]_vars => FirstFitStep
<1> SUFFICES ASSUME IInv, Walked, [Next]_vars, call # NoCall, call' = NoCall
             PROVE  FirstFitStep
  BY DEF FirstFitStep
<1>1. CASE ReturnNull
  <2>1. curr \in DOMAIN hdr /\ hdr[curr].next = NULL /\ Unfit(curr) /\ UNCHANGED owned
    BY <1>1 DEF ReturnNull, IInv, Tiling
  <2>2. curr \in Nat /\ End(hdr, curr) = HeapEnd
    BY <2>1, IInvGood, Block
  <2>3. ASSUME NEW c \in Adequate(call.size) PROVE FALSE
    <3>1. c \in DOMAIN hdr
      BY DEF Adequate
    <3>2. c \in Nat /\ ~Unfit(c) /\ c < End(hdr, c) /\ End(hdr, c) <= HeapEnd
          /\ End(hdr, c) \in Nat
      BY <3>1, AdequateFit, IInvGood, Block
    <3>3. ~(curr < c)
      BY <2>1, <2>2, <3>1, <3>2, IInvGood, Apart, HeapAssumption
    <3>4. c # curr /\ ~(c < curr)
      BY <2>1, <3>1, <3>2 DEF Walked
    <3>5. QED BY <2>2, <3>2, <3>3, <3>4
  <2>4. QED BY <2>1, <2>3 DEF FirstFitStep
<1>2. CASE ReturnNew
  <2>1. ~Unfit(curr) /\ call.old = NULL
    BY <1>2 DEF ReturnNew, Walked
  <2>2. NULL \notin DOMAIN owned
    <3>1. ASSUME NULL \in DOMAIN owned PROVE FALSE
      <4>1. NULL - HDR \in Nat
        BY <3>1, OwnedHeader
      <4>2. QED BY <4>1, HeapAssumption DEF NULL
    <3>2. QED BY <3>1
  <2>3. DOMAIN owned' = DOMAIN owned \cup {curr + HDR}
    BY <1>2 DEF ReturnNew, Hold
  <2>4. QED BY <2>1, <2>2, <2>3, Lowest DEF FirstFitStep
<1>3. CASE ReturnMoved
  <2>1. ~Unfit(curr)
    BY <1>3 DEF ReturnMoved
  <2>2. DOMAIN owned' = (DOMAIN owned \ {call.old}) \cup {curr + HDR}
    BY <1>3 DEF ReturnMoved, Hold, Drop
  <2>3. QED BY <2>1, <2>2, Lowest DEF FirstFitStep
<1>4. QED BY <1>1, <1>2, <1>3, CallEnds

\* Every call of malloc and realloc that returns a block returns the lowest one
\* that is large enough, and one returns NULL only when there is none.
THEOREM TakesFirstFit == Spec => FirstFit
<1>1. (IInv /\ Walked) /\ [Next]_vars => [FirstFitStep]_vars
  BY FitStep
<1>2. QED BY <1>1, WalkedAlways, PTL DEF Spec, FirstFit, FirstFitStep

----------------------------------------------------------------------------
(***************************************************************************)
(* realloc's copy.                                                         *)
(***************************************************************************)

\* What a successful realloc leaves behind: the new block is as Place made it,
\* and the pointer is new.
LEMMA Moved ==
  ASSUME IInv, ReturnMoved
  PROVE  LET c == call.old - HDR
             h == Place(hdr, curr)
         IN  /\ call # NoCall /\ ~Unfit(curr) /\ call' = NoCall
             /\ call.old \in DOMAIN owned /\ c \in DOMAIN hdr /\ c \in Nat /\ c # curr
             /\ GoodList(h) /\ curr \in DOMAIN h /\ h[curr].isAllocated
             /\ Wanted <= h[curr].size /\ SameElsewhere(h, hdr, curr)
             /\ GoodList(hdr') /\ SameElsewhere(hdr', h, c)
             /\ c \in DOMAIN hdr' => ~hdr'[c].isAllocated
             /\ curr \in DOMAIN hdr' /\ hdr'[curr].isAllocated /\ hdr'[curr].size = h[curr].size
             /\ DOMAIN owned' = (DOMAIN owned \ {call.old}) \cup {curr + HDR}
             /\ owned'[curr + HDR] = Bytes(call.size, toCopy(hdr[c].size, call.size))
<1> DEFINE o == call.old
           c == o - HDR
           h == Place(hdr, curr)
<1>1. call # NoCall /\ ~Unfit(curr) /\ call' = NoCall
  BY DEF ReturnMoved, NoCall
<1>2. o \in DOMAIN owned
  BY DEF ReturnMoved, IInv, HeldIntact
<1>3. c \in DOMAIN hdr /\ c \in Nat /\ hdr[c].isAllocated
  BY <1>2, OwnedHeader
<1>4. /\ curr \in DOMAIN hdr /\ curr # c /\ ~hdr[curr].isAllocated
      /\ Wanted \in Nat /\ Wanted <= hdr[curr].size
  BY <1>1, <1>3, Found
<1>5. /\ GoodList(h) /\ curr \in DOMAIN h /\ h[curr].isAllocated
      /\ Wanted <= h[curr].size /\ SameElsewhere(h, hdr, curr)
  BY <1>4, IInvGood, PlaceGood
<1>6. FreeTail(Release(h, c), c)
  BY DEF ReturnMoved
<1>7. /\ DOMAIN owned' = (DOMAIN owned \ {o}) \cup {curr + HDR}
      /\ owned'[curr + HDR] = Bytes(call.size, toCopy(hdr[c].size, call.size))
  BY DEF ReturnMoved, Hold, Drop
<1> HIDE DEF h
<1>8. c \in DOMAIN h
  BY <1>3, <1>4, <1>5 DEF SameElsewhere
<1>9. /\ GoodList(hdr') /\ SameElsewhere(hdr', h, c)
      /\ c \in DOMAIN hdr' => ~hdr'[c].isAllocated
  BY <1>5, <1>6, <1>8, FreeGood DEF IInv
<1>10. curr \in DOMAIN hdr' /\ hdr'[curr].isAllocated /\ hdr'[curr].size = h[curr].size
  BY <1>4, <1>5, <1>9 DEF SameElsewhere
<1>11. QED BY <1>1, <1>2, <1>3, <1>4, <1>5, <1>7, <1>9, <1>10 DEF h

\* What ReallocKeeps says of one step.
ReallocStep ==
  call.op = "realloc" /\ call' = NoCall /\ call.size <= Largest =>
    \/ UNCHANGED <<owned, hdr>>
    \/ \E p \in DOMAIN owned' \ DOMAIN owned :
         /\ owned[call.old].asked <= Largest =>
              owned'[p].kept >= toCopy(owned[call.old].asked, call.size)
         /\ owned'[p].kept <= hdr[call.old - HDR].size
         /\ owned'[p].kept <= hdr'[p - HDR].size

LEMMA KeepStep == IInv /\ [Next]_vars => ReallocStep
<1> SUFFICES ASSUME IInv, [Next]_vars, call.op = "realloc", call' = NoCall,
                    call.size <= Largest
             PROVE  ReallocStep
  BY DEF ReallocStep
<1>1. call # NoCall
  BY DEF NoCall
<1>2. CASE ReturnNull
  BY <1>2 DEF ReturnNull, ReallocStep
<1>3. CASE ReturnNew
  BY <1>3 DEF ReturnNew
<1>4. CASE ReturnMoved
  <2> DEFINE p == curr + HDR
             c == call.old - HDR
             h == Place(hdr, curr)
             kept == toCopy(hdr[c].size, call.size)
  <2>1. /\ p \in DOMAIN owned' /\ owned'[p] = Bytes(call.size, kept)
        /\ hdr'[curr].size = h[curr].size /\ Wanted <= h[curr].size
        /\ GoodList(hdr') /\ curr \in DOMAIN hdr' /\ call.old \in DOMAIN owned
        /\ ~Unfit(curr)
    BY <1>4, Moved
  <2>2. /\ p \notin DOMAIN owned /\ curr \in Nat /\ p - HDR = curr
        /\ call.size \in Nat /\ Wanted \in Nat /\ call.size <= Wanted
    BY <1>1, <2>1, Found, HeapAssumption
  <2>3. /\ hdr[c].size \in Nat /\ owned[call.old].asked \in Nat
        /\ owned[call.old].asked <= Largest => owned[call.old].asked <= hdr[c].size
    BY <2>1, OwnedHeader
  <2>4. hdr'[curr].size \in Nat
    BY <2>1, Block
  <2>5. owned'[p].kept = kept
    BY <2>1 DEF Bytes
  <2>6. kept <= hdr[c].size /\ kept <= call.size
    BY <2>2, <2>3 DEF toCopy
  <2>7. kept \in Nat
    BY <2>2, <2>3 DEF toCopy
  <2>8. owned[call.old].asked <= Largest => kept >= toCopy(owned[call.old].asked, call.size)
    BY <2>2, <2>3 DEF toCopy
  <2>9. kept <= hdr'[p - HDR].size
    <3> HIDE DEF kept, h
    <3>1. QED BY <2>1, <2>2, <2>4, <2>6, <2>7
  <2>10. QED BY <2>1, <2>2, <2>5, <2>6, <2>8, <2>9 DEF ReallocStep
<1>5. QED BY <1>1, <1>2, <1>3, <1>4, CallEnds

\* realloc copies everything the program had and still has room for, and never
\* outside the two blocks; when it fails it changes nothing.
THEOREM ReallocCopies == Spec => ReallocKeeps
<1>1. IInv /\ [Next]_vars => [ReallocStep]_vars
  BY KeepStep
<1>2. QED BY <1>1, Inductive, PTL DEF Spec, ReallocKeeps, ReallocStep

----------------------------------------------------------------------------
(***************************************************************************)
(* The refinement.  The abstract allocator's ranges are the blocks marked  *)
(* allocated; by HeldIntact they are what the program holds.               *)
(***************************************************************************)
HeldOf(h) ==
  [p \in {b + HDR : b \in {c \in DOMAIN h : h[c].isAllocated}} |-> h[p - HDR].size]

\* The list h and the holdings o agree on who owns what.
Agree(h, o) ==
  /\ GoodList(h)
  /\ DOMAIN o \subseteq Nat
  /\ \A b \in DOMAIN h : h[b].isAllocated => b + HDR \in DOMAIN o
  /\ \A p \in DOMAIN o : p - HDR \in DOMAIN h /\ h[p - HDR].isAllocated

LEMMA AgreeNow == ASSUME IInv PROVE Agree(hdr, owned) /\ Held = HeldOf(hdr)
  BY IInvGood DEF IInv, TypeOK, HeldIntact, Agree, Held, HeldOf

LEMMA AgreeNext == ASSUME IInv' PROVE Agree(hdr', owned') /\ Held' = HeldOf(hdr')
<1>1. GoodList(hdr')
  BY DEF IInv, TypeOK, Tiling, GoodList
<1>2. QED BY <1>1 DEF IInv, TypeOK, HeldIntact, Agree, Held, HeldOf

LEMMA HeldIs ==
  ASSUME NEW h, NEW o, Agree(h, o)
  PROVE  HeldOf(h) = [q \in DOMAIN o |-> h[q - HDR].size]
<1> DEFINE D == {b + HDR : b \in {c \in DOMAIN h : h[c].isAllocated}}
<1>1. ASSUME NEW q \in D PROVE q \in DOMAIN o
  BY DEF Agree
<1>2. ASSUME NEW q \in DOMAIN o PROVE q \in D
  <2>1. q \in Nat /\ q - HDR \in DOMAIN h /\ h[q - HDR].isAllocated
    BY DEF Agree
  <2>2. q = (q - HDR) + HDR
    BY <2>1, HeapAssumption
  <2>3. QED BY <2>1, <2>2
<1>3. D = DOMAIN o
  BY <1>1, <1>2
<1>4. QED BY <1>3 DEF HeldOf

\* A block of a good list fits beside others of it.
LEMMA BlockFits ==
  ASSUME NEW g, GoodList(g), NEW b \in DOMAIN g, NEW held,
         \A q \in DOMAIN held : /\ q \in Nat /\ q - HDR \in DOMAIN g /\ q - HDR # b
                                /\ held[q] = g[q - HDR].size
  PROVE  Abs!Fits(held, b + HDR, g[b].size)
<1> USE HeapAssumption
<1>1. /\ b \in Nat /\ g[b].size \in Nat /\ head \in Nat /\ head <= b
      /\ End(g, b) = b + HDR + g[b].size /\ End(g, b) <= HeapEnd
  BY Block, HeadNat
<1>2. head + HDR <= b + HDR /\ (b + HDR) + g[b].size <= HeapEnd
  BY <1>1
<1>3. ASSUME NEW q \in DOMAIN held
      PROVE  \/ (b + HDR) + g[b].size + HDR <= q
             \/ q + held[q] + HDR <= b + HDR
  <2> DEFINE c == q - HDR
  <2>1. /\ q \in Nat /\ c \in DOMAIN g /\ c # b /\ held[q] = g[c].size
        /\ c \in Nat /\ g[c].size \in Nat /\ End(g, c) = c + HDR + g[c].size
    BY Block
  <2>2. CASE b < c
    BY <2>1, <2>2, <1>1, Apart
  <2>3. CASE c < b
    BY <2>1, <2>3, <1>1, Apart
  <2>4. QED BY <2>1, <2>2, <2>3, <1>1
<1>4. QED BY <1>2, <1>3 DEF Abs!Fits

LEMMA RefInit == Init => Abs!AInit
<1> SUFFICES ASSUME Init PROVE Abs!AInit
  OBVIOUS
<1>1. DOMAIN owned = {} /\ call = NoCall
  BY DEF Init
<1>2. Held = [p \in {} |-> 0]
  BY <1>1, InitInv, AgreeNow, HeldIs
<1>3. QED BY <1>1, <1>2 DEF Abs!AInit, Abs!NoCall, Abs!NULL, NoCall, NULL

\* Held before and after a step, in terms of what the program holds.
LEMMA HeldStep ==
  ASSUME IInv, IInv'
  PROVE  /\ Held = [q \in DOMAIN owned |-> hdr[q - HDR].size]
         /\ Held' = [q \in DOMAIN owned' |-> hdr'[q - HDR].size]
  BY AgreeNow, AgreeNext, HeldIs

LEMMA RefNew == ASSUME IInv, Walked, IInv', ReturnNew PROVE Abs!ANext
<1> DEFINE p == curr + HDR
<1> USE HeapAssumption
<1>1. call # NoCall /\ ~Unfit(curr) /\ call' = NoCall /\ call.old = NULL
  BY DEF ReturnNew, NoCall, Walked
<1>2. /\ curr \in DOMAIN hdr /\ curr \in Nat /\ p \notin DOMAIN owned /\ p - HDR = curr
      /\ call.size \in Nat /\ Wanted \in Nat
      /\ call.size <= Largest => call.size <= Wanted
  BY <1>1, Found
<1>3. /\ GoodList(hdr') /\ curr \in DOMAIN hdr' /\ Wanted <= hdr'[curr].size
      /\ SameElsewhere(hdr', hdr, curr)
  BY <1>1, Found, IInvGood, PlaceGood DEF ReturnNew
<1>4. DOMAIN owned' = DOMAIN owned \cup {p}
  BY DEF ReturnNew, Hold
<1>5. ASSUME NEW q \in DOMAIN owned
      PROVE  /\ q \in Nat /\ q - HDR \in DOMAIN hdr' /\ q - HDR # curr
             /\ hdr[q - HDR].size = hdr'[q - HDR].size
  BY <1>1, <1>3, OwnedHeader, Found DEF SameElsewhere
<1>6. Abs!Fits(Held, p, hdr'[curr].size)
  BY <1>3, <1>5, HeldStep, BlockFits
<1>7. Held' = Abs!Hold(Held, p, hdr'[curr].size)
  BY <1>2, <1>4, <1>5, HeldStep DEF Abs!Hold
<1>8. p \in DOMAIN Held' /\ Held'[p] = hdr'[curr].size
  BY <1>2, <1>4, HeldStep
<1>9. call.size <= Largest => call.size <= hdr'[curr].size
  <2>1. hdr'[curr].size \in Nat /\ Largest \in Int
    BY <1>3, Block DEF Largest
  <2>2. QED BY <2>1, <1>2, <1>3
<1>10. Abs!Grant(p, hdr'[curr].size)
  BY <1>1, <1>6, <1>7, <1>9 DEF Abs!Grant, Abs!NoCall, Abs!NULL, NoCall, NULL
<1>11. QED BY <1>8, <1>10 DEF Abs!ANext

LEMMA RefMoved == ASSUME IInv, IInv', ReturnMoved PROVE Abs!ANext
<1> DEFINE p == curr + HDR
           o == call.old
           c == o - HDR
           h == Place(hdr, curr)
<1> USE HeapAssumption
<1>1. /\ call # NoCall /\ ~Unfit(curr) /\ call' = NoCall
      /\ o \in DOMAIN owned /\ c \in DOMAIN hdr /\ c \in Nat /\ c # curr
      /\ GoodList(h) /\ curr \in DOMAIN h
      /\ Wanted <= h[curr].size /\ SameElsewhere(h, hdr, curr)
      /\ SameElsewhere(hdr', h, c) /\ hdr'[curr].size = h[curr].size
      /\ DOMAIN owned' = (DOMAIN owned \ {o}) \cup {p}
  BY Moved
<1> HIDE DEF h
<1>2. /\ curr \in Nat /\ p \notin DOMAIN owned /\ p - HDR = curr
      /\ call.size \in Nat /\ Wanted \in Nat
      /\ call.size <= Largest => call.size <= Wanted
  BY <1>1, Found
<1>3. o # NULL
  <2>1. o \in Nat /\ o = c + HDR
    BY <1>1, OwnedHeader
  <2>2. QED BY <1>1, <2>1 DEF NULL
<1>4. ASSUME NEW q \in DOMAIN owned
      PROVE  /\ q \in Nat /\ q - HDR \in DOMAIN h /\ h[q - HDR].isAllocated /\ q - HDR # curr
             /\ hdr[q - HDR].size = h[q - HDR].size
  BY <1>1, OwnedHeader, Found DEF SameElsewhere
<1>5. ASSUME NEW q \in DOMAIN owned, q # o
      PROVE  hdr'[q - HDR].size = hdr[q - HDR].size
  <2>1. q - HDR # c
    BY <1>1, <1>4, <1>5, OwnedHeader
  <2>2. QED BY <2>1, <1>1, <1>4 DEF SameElsewhere
<1>6. Abs!Fits(Held, p, h[curr].size)
  BY <1>1, <1>4, HeldStep, BlockFits
<1>7. Held' = Abs!Hold(Abs!Drop(Held, o), p, h[curr].size)
  <2>1. Abs!Drop(Held, o) = [q \in DOMAIN owned \ {o} |-> hdr[q - HDR].size]
    BY HeldStep DEF Abs!Drop
  <2>2. QED BY <2>1, <1>1, <1>2, <1>5, HeldStep DEF Abs!Hold
<1>8. p \in DOMAIN Held' /\ Held'[p] = h[curr].size
  BY <1>1, <1>2, HeldStep
<1>9. call.size <= Largest => call.size <= h[curr].size
  <2>1. h[curr].size \in Nat /\ Largest \in Int
    BY <1>1, Block DEF Largest
  <2>2. QED BY <2>1, <1>1, <1>2
<1>10. Abs!Grant(p, h[curr].size)
  BY <1>1, <1>3, <1>6, <1>7, <1>9 DEF Abs!Grant, Abs!NoCall, Abs!NULL, NoCall, NULL
<1>11. QED BY <1>8, <1>10 DEF Abs!ANext

LEMMA RefFree == ASSUME IInv, IInv', NEW p \in DOMAIN owned, free(p) PROVE Abs!ANext
<1> DEFINE c == p - HDR
<1> USE HeapAssumption
<1>1. c \in DOMAIN hdr /\ c \in Nat
  BY OwnedHeader
<1>2. call = NoCall /\ UNCHANGED call /\ DOMAIN owned' = DOMAIN owned \ {p}
  BY DEF free, Idle, Drop
<1>3. SameElsewhere(hdr', hdr, c)
  BY <1>1, IInvGood, FreeGood DEF free, IInv
<1>4. ASSUME NEW q \in DOMAIN owned, q # p
      PROVE  hdr'[q - HDR].size = hdr[q - HDR].size
  <2>1. q - HDR # c /\ q - HDR \in DOMAIN hdr /\ hdr[q - HDR].isAllocated
    BY <1>1, <1>4, OwnedHeader
  <2>2. QED BY <2>1, <1>3 DEF SameElsewhere
<1>5. Held' = Abs!Drop(Held, p)
  BY <1>2, <1>4, HeldStep DEF Abs!Drop
<1>6. p \in DOMAIN Held
  BY HeldStep
<1>7. Abs!GiveBack(p)
  BY <1>2, <1>5 DEF Abs!GiveBack, Abs!NoCall, Abs!NULL, NoCall, NULL
<1>8. QED BY <1>6, <1>7 DEF Abs!ANext

LEMMA RefNext == IInv /\ Walked /\ IInv' /\ [Next]_vars => [Abs!ANext]_(Abs!avars)
<1> SUFFICES ASSUME IInv, Walked, IInv', [Next]_vars PROVE [Abs!ANext]_(Abs!avars)
  OBVIOUS
<1> USE DEF Abs!avars
<1>1. ASSUME NEW n \in Sizes, malloc(n) PROVE Abs!ANext
  <2>1. UNCHANGED Held
    BY <1>1 DEF malloc, Held
  <2>2. Abs!AskNew(n)
    BY <1>1, <2>1 DEF malloc, Idle, Abs!AskNew, Abs!NoCall, Abs!NULL, NoCall, NULL
  <2>3. QED BY <2>2 DEF Abs!ANext
<1>2. ASSUME NEW p \in DOMAIN owned, NEW n \in Sizes, realloc(p, n) PROVE Abs!ANext
  <2>1. UNCHANGED Held
    BY <1>2 DEF realloc, Held
  <2>2. Abs!AskMove(p, n)
    BY <1>2, <2>1 DEF realloc, Idle, Abs!AskMove, Abs!NoCall, Abs!NULL, NoCall, NULL
  <2>3. p \in DOMAIN Held
    BY HeldStep
  <2>4. QED BY <2>2, <2>3 DEF Abs!ANext
<1>3. CASE find_free_space
  BY <1>3 DEF find_free_space, Held
<1>4. CASE ReturnNull
  <2>1. UNCHANGED Held
    BY <1>4 DEF ReturnNull, Held
  <2>2. Abs!Refuse
    BY <1>4, <2>1 DEF ReturnNull, Abs!Refuse, Abs!NoCall, Abs!NULL, NoCall, NULL
  <2>3. QED BY <2>2 DEF Abs!ANext
<1>5. CASE ReturnNew
  BY <1>5, RefNew
<1>6. CASE ReturnMoved
  BY <1>6, RefMoved
<1>7. ASSUME NEW p \in DOMAIN owned, free(p) PROVE Abs!ANext
  BY <1>7, RefFree
<1>8. CASE UNCHANGED vars
  BY <1>8 DEF vars, Held
<1>9. QED BY <1>1, <1>2, <1>3, <1>4, <1>5, <1>6, <1>7, <1>8 DEF Next

\* For every heap and every sequence of calls, heap.c keeps what Allocator
\* promises: each range given out lies in the heap, touches no range the program
\* holds, is large enough, and stays as it is until it is given back.
THEOREM HeapImplementsAllocator == Spec => ImplementsAllocator
<1>1. Init => Abs!AInit
  BY RefInit
<1>2. (IInv /\ Walked) /\ (IInv /\ Walked)' /\ [Next]_vars => [Abs!ANext]_(Abs!avars)
  BY RefNext
<1>3. QED BY <1>1, <1>2, WalkedAlways, PTL DEF Spec, ImplementsAllocator, Abs!ASpec

----------------------------------------------------------------------------
(***************************************************************************)
(* That searches end: what CallsReturn rests on.                           *)
(***************************************************************************)

\* What WalkAdvances says of one step.
WalkStep ==
  call # NoCall /\ call' # NoCall => call' = call /\ curr < curr' /\ curr' + HDR <= HeapEnd

LEMMA AdvanceStep == IInv /\ [Next]_vars => [WalkStep]_vars
<1> SUFFICES ASSUME IInv, Next, call # NoCall, call' # NoCall
             PROVE  call' = call /\ curr < curr' /\ curr' + HDR <= HeapEnd
  BY DEF WalkStep
<1>1. find_free_space
  BY DEF Next, malloc, realloc, free, Idle, ReturnNull, ReturnNew, ReturnMoved
<1>2. /\ call' = call /\ curr \in DOMAIN hdr
      /\ hdr[curr].next # NULL /\ curr' = hdr[curr].next
  BY <1>1 DEF find_free_space, NextNode, IInv, Tiling
<1>3. curr < curr' /\ curr' \in DOMAIN hdr
  BY <1>2, IInvGood, Block
<1>4. ASSUME NEW b \in DOMAIN hdr PROVE b + HDR <= HeapEnd
  <2>1. /\ b \in Nat /\ hdr[b].size \in Nat
        /\ End(hdr, b) = b + HDR + hdr[b].size /\ End(hdr, b) <= HeapEnd
    BY IInvGood, Block
  <2>2. HDR \in Nat /\ HeapEnd \in Nat
    BY HeapAssumption
  <2>3. b + HDR + hdr[b].size <= HeapEnd
    BY <2>1
  <2>4. QED BY <2>1, <2>2, <2>3
<1>5. curr' + HDR <= HeapEnd
  BY <1>3, <1>4
<1>6. QED BY <1>2, <1>3, <1>5

\* For every heap and whatever was split, merged and freed before, a search of
\* find_free_space goes from header to later header and stays in the heap, so that
\* no call takes more turns than headers fit into it.
THEOREM SearchesAdvance == Spec => WalkAdvances
<1>1. IInv /\ [Next]_vars => [WalkStep]_vars
  BY AdvanceStep
<1>2. QED BY <1>1, Inductive, PTL DEF Spec, WalkAdvances, WalkStep
=============================================================================
