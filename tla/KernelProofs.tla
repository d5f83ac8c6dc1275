---------------------------- MODULE KernelProofs ----------------------------
(***************************************************************************)
(* For every file, memory, size of .data and .bss, timer and set of system *)
(* calls: the start-up, the loader and the system calls of Kernel keep     *)
(* what their properties say.                                              *)
(***************************************************************************)
EXTENDS Kernel, TLAPS

(***************************************************************************)
(* The inductive invariant of the start-up.                                *)
(***************************************************************************)
Places == {"copy", "copying", "zero", "ask", "await", "started"}
InMemcpy == at \in {"copy", "copying"}
Period == TimeHalf * TimeHalf

StartShape ==
  /\ at \in Places /\ done \in 0 .. 11
  /\ ready \subseteq asked /\ asked \subseteq Blocks
  /\ warm \in BOOLEAN /\ masked \in BOOLEAN /\ tick \in BOOLEAN
  /\ sram \in [0 .. (DataSize + BssSize - 1) -> {"old", "image", "zero"}]
  /\ dma \in [job : {"old", "data"}, left : Nat]
  /\ dma.left <= IF dma.job = "old" THEN OldLeft ELSE Whole(DataSize)

\* What has been waited for has answered; before the first block is asked for, a
\* cold board has none and a warm one all.
PowerOK ==
  /\ warm => ready = Blocks
  /\ InMemcpy \/ at = "zero" => done = 0 /\ (~warm => asked = {})
  /\ at = "await" => done < 11 /\ Order[done + 1] \in asked
  /\ at = "started" => done = 11
  /\ \A k \in 1 .. done : Order[k] \in ready
  /\ done >= 6 => tick
  /\ early \subseteq {"DMA"}

\* The transfer of a warm board: what has been moved of it is there; and no
\* transfer is left when memcpy has returned.
DataOK ==
  /\ at = "copy" => dma.job = "old"
  /\ ~warm \/ ~InMemcpy => dma.left = 0
  /\ warm /\ at # "copy" =>
       /\ dma.job = "data"
       /\ \A a \in 0 .. (Whole(DataSize) - dma.left - 1) : sram[a] = "image"
  /\ ~InMemcpy /\ at # "zero" =>
       \A a \in DataSize .. (DataSize + Whole(BssSize) - 1) : sram[a] = "zero"

\* The timer is as many ticks behind the first time read as were counted, and the
\* last time read is one it had since.
NapOK ==
  /\ clock \in [now : 0 .. (Period - 1), latch : 0 .. (TimeHalf - 1)]
  /\ nap \in [phase : {"awake", "low", "high"}, low : 0 .. (TimeHalf - 1),
              old : -1 .. (Period - 1), ticks : Nat]
  /\ nap.phase = "awake" => nap = Awake
  /\ nap.phase = "high" /\ nap.old = -1 => clock.now = (readTime + nap.ticks) % Period
  /\ nap.old # -1 => clock.now = (nap.old + nap.ticks) % Period
  /\ nap.phase = "high" /\ nap.old # -1 =>
       \E k \in 0 .. nap.ticks : readTime = (nap.old + k) % Period

StartOK == StartShape /\ PowerOK /\ DataOK /\ NapOK

(***************************************************************************)
(* The inductive invariant of the system calls.                            *)
(***************************************************************************)
Symbols == {Unknown} \cup UNION {{t[k] : k \in DOMAIN t} : t \in Texts}

Registers(r) ==
  r = [r0 |-> r.r0, r1 |-> r.r1, r2 |-> r.r2, r3 |-> r.r3,
       r12 |-> r.r12, lr |-> r.lr, pc |-> r.pc, xpsr |-> r.xpsr]

\* The stack is the frame of the call and the handler's return address, and the
\* output that is due is in the FIFO or with the handler.
SvcOK ==
  /\ mode \in {"thread", "svc", "default"}
  /\ call \in [phase : {"idle", "entry", "puts"}, rest : Seq(Symbols), result : Nat \cup {-2}]
  /\ fifo \in Seq(Symbols) /\ Len(fifo) <= UART_FIFO
  /\ Registers(before)
  /\ mode = "thread" => call.phase = "idle" /\ regs = before
  /\ mode = "svc" => call.phase # "idle"
  /\ call.phase = "idle" => stack = <<>> /\ call.rest = <<>>
  /\ call.phase = "entry" =>
       /\ stack = Frame(before)
       /\ before.pc = Behind(before.pc.behind) /\ before.pc.behind \in Numbers
       /\ before.r1.text \in Texts /\ before.r2.number \in 0 .. Len(before.r1.text)
  /\ call.phase = "puts" => stack = Append(Frame(before), EXC_RETURN)
  /\ OutputRight

(***************************************************************************)
(* The inductive invariant of the loader.                                  *)
(***************************************************************************)
BootShape ==
  /\ pc \in {"SDInit", "stopped", "fat32_init", "fat32_open", "malloc", "fat32_read", "check",
             "load", "wild", "running", "SDShutdown", "halted"}
  /\ file \in Files /\ ram \in Rams
  /\ DOMAIN mem = DOMAIN ram /\ mem = [a \in DOMAIN mem |-> mem[a]]
  /\ mounted \in BOOLEAN /\ clean \in BOOLEAN
  /\ size \in {0, Len(file)}
  /\ pc \in {"fat32_read", "check", "load"} => size <= HeapRoom
  /\ pc \in {"SDInit", "fat32_init", "fat32_open", "malloc", "fat32_read", "check"} =>
       i = 0 /\ \A a \in DOMAIN mem : Cell(mem[a])
  /\ pc = "load" => ehdr \in ElfHeaders /\ i \in 0 .. ehdr.phnum

InBuffer == \A k \in DOMAIN file : mem[Buffer + k - 1] = file[k]
Elsewhere == \A a \in DOMAIN mem \ Used : mem[a] = ram[a]

\* The first n program headers are done.
Placed(n) ==
  LET Done == {k \in Segments : k <= file[1].phoff + n}
  IN  \A a \in DOMAIN mem \ Used :
        IF \E k \in Done : Covers(file[k], a)
          THEN \E k \in Done : Covers(file[k], a) /\ mem[a] = CellOf(file[k], a)
          ELSE mem[a] = ram[a]

\* While every call works: the file is in the buffer, and the segments of the
\* program headers behind i are in place.
LoadOK ==
  /\ pc \in {"SDInit", "fat32_init", "fat32_open", "malloc"} => mem = ram
  /\ clean /\ pc \in {"malloc", "fat32_read", "check", "load"} => size = Len(file)
  /\ clean /\ pc \in {"fat32_read", "check"} => Elsewhere
  /\ clean /\ pc = "check" => InBuffer
  /\ clean /\ pc = "load" /\ Sound => ehdr = file[1] /\ InBuffer /\ Placed(i)
  /\ LoadsImage

BootOK == BootShape /\ LoadOK

\* The parts, and what they know of each other.
Inv ==
  /\ StartOK /\ SvcOK /\ BootOK
  /\ pc # "SDInit" => at = "started"
  /\ mode = "svc" => pc = "running" /\ tick /\ ~masked

----------------------------------------------------------------------------
(***************************************************************************)
(* Arithmetic.                                                             *)
(***************************************************************************)
LEMMA DivMod == ASSUME NEW x \in Nat, NEW s \in Nat \ {0}
                PROVE  /\ x \div s \in Nat /\ x % s \in 0 .. (s - 1)
                       /\ (x \div s) * s \in Nat
                       /\ x = (x \div s) * s + (x % s)
  OBVIOUS

LEMMA MulMono == ASSUME NEW x \in Nat, NEW y \in Nat, NEW s \in Nat, x <= y
                 PROVE  x * s \in Nat /\ y * s \in Nat /\ x * s <= y * s
  OBVIOUS

LEMMA ModSmall == ASSUME NEW x \in Nat, NEW m \in Nat \ {0}, x < m PROVE x % m = x
  OBVIOUS

LEMMA ModOver == ASSUME NEW m \in Nat \ {0}, NEW x \in m .. (2 * m - 1) PROVE x % m = x - m
<1>1. x = 1 * m + (x - m) /\ x - m \in 0 .. (m - 1)
  OBVIOUS
<1>2. QED BY <1>1, SMTT(30)

LEMMA ModUnder == ASSUME NEW m \in Nat \ {0}, NEW x \in -m .. -1 PROVE x % m = x + m
  OBVIOUS

LEMMA Divided == ASSUME NEW x \in Nat, NEW s \in Nat \ {0}, NEW y \in 0 .. (s - 1)
                 PROVE  /\ x * s + y \in Nat
                        /\ (x * s + y) \div s = x /\ (x * s + y) % s = y
  OBVIOUS

\* A counter that wraps, one further.
LEMMA OneOn == ASSUME NEW m \in Nat \ {0}, NEW x \in Nat
               PROVE  ((x % m) + 1) % m = (x + 1) % m
<1> DEFINE q == x \div m
           r == x % m
<1>1. q \in Nat /\ r \in 0 .. (m - 1) /\ q * m \in Nat /\ x = q * m + r
  BY DivMod
<1> SUFFICES (r + 1) % m = (x + 1) % m
  OBVIOUS
<1> HIDE DEF q, r
<1>2. CASE r + 1 < m
  <2>1. r + 1 \in 0 .. (m - 1) /\ x + 1 = q * m + (r + 1)
    BY <1>1, <1>2
  <2>2. (q * m + (r + 1)) % m = r + 1
    BY <1>1, <2>1, Divided
  <2>3. QED BY <2>1, <2>2, ModSmall
<1>3. CASE r + 1 = m
  <2>1. q + 1 \in Nat /\ x + 1 = (q + 1) * m + 0
    BY <1>1, <1>3
  <2>2. ((q + 1) * m + 0) % m = 0 /\ (1 * m + 0) % m = 0
    BY <2>1, Divided
  <2>3. QED BY <1>3, <2>1, <2>2
<1>4. QED BY <1>1, <1>2, <1>3

\* The distance that two readings of such a counter show is not more than it is.
LEMMA Elapsed == ASSUME NEW m \in Nat \ {0}, NEW o \in 0 .. (m - 1), NEW k \in Nat
                 PROVE  (((o + k) % m) - o) % m <= k
<1>1. CASE k >= m
  <2>1. (o + k) % m \in 0 .. (m - 1)
    BY DivMod
  <2>2. ((o + k) % m) - o \in Int
    BY <2>1
  <2>3. \A x \in Int : x % m \in Int /\ x % m < m
    OBVIOUS
  <2>4. QED BY <1>1, <2>2, <2>3
<1>2. CASE k < m /\ o + k < m
  BY <1>2, ModSmall
<1>3. CASE k < m /\ o + k >= m
  <2>1. (o + k) % m = o + k - m
    BY <1>3, ModOver, SMTT(30)
  <2>2. ((o + k) % m) - o = k - m /\ k - m \in -m .. -1
    BY <1>3, <2>1
  <2>3. (k - m) % m = k
    BY <2>2, ModUnder
  <2>4. QED BY <2>2, <2>3
<1>4. QED BY <1>1, <1>2, <1>3

----------------------------------------------------------------------------
(***************************************************************************)
(* The start-up.                                                           *)
(***************************************************************************)
LEMMA Sizes ==
  /\ DataSize \in Nat /\ BssSize \in Nat /\ OldLeft \in Nat /\ TimeHalf \in Nat \ {0}
  /\ Whole(DataSize) \in Nat /\ Whole(DataSize) <= DataSize
  /\ Whole(BssSize) \in Nat /\ Whole(BssSize) <= BssSize
<1>1. DataSize \in Nat /\ BssSize \in Nat /\ WORDSIZE \in Nat \ {0} /\ OldLeft \in Nat
      /\ TimeHalf \in Nat \ {0}
  BY StartAssumption
<1>2. \A n \in Nat : Whole(n) \in Nat /\ Whole(n) <= n
  BY <1>1, DivMod DEF Whole
<1>3. QED BY <1>1, <1>2

\* The period of the timer, and a time read in two halves.
LEMMA Halves ==
  /\ Period \in Nat \ {0} /\ Pause \in Nat \ {0} /\ Pause < Period
  /\ \A t \in 0 .. (Period - 1) :
       /\ t \div TimeHalf \in 0 .. (TimeHalf - 1) /\ t % TimeHalf \in 0 .. (TimeHalf - 1)
       /\ (t \div TimeHalf) * TimeHalf + (t % TimeHalf) = t
  /\ \A x, y \in 0 .. (TimeHalf - 1) : x * TimeHalf + y \in 0 .. (Period - 1)
<1>1. TimeHalf \in Nat \ {0}
  BY Sizes
<1>2. Period \in Nat \ {0} /\ Pause \in Nat \ {0} /\ Pause < Period
  BY StartAssumption DEF Period
<1>3. ASSUME NEW t \in 0 .. (Period - 1)
      PROVE  /\ t \div TimeHalf \in 0 .. (TimeHalf - 1) /\ t % TimeHalf \in 0 .. (TimeHalf - 1)
             /\ (t \div TimeHalf) * TimeHalf + (t % TimeHalf) = t
  <2> DEFINE q == t \div TimeHalf
  <2>1. /\ q \in Nat /\ t % TimeHalf \in 0 .. (TimeHalf - 1)
        /\ q * TimeHalf \in Nat /\ t = q * TimeHalf + (t % TimeHalf)
    <3>1. t \in Nat
      BY <1>2
    <3>2. QED BY <3>1, <1>1, DivMod
  <2> HIDE DEF q
  <2>2. q * TimeHalf < TimeHalf * TimeHalf
    BY <2>1, <1>2 DEF Period
  <2>3. CASE q >= TimeHalf
    BY <2>1, <2>2, <2>3, <1>1, MulMono
  <2>4. QED BY <2>1, <2>3, <1>1 DEF q
<1>4. ASSUME NEW x \in 0 .. (TimeHalf - 1), NEW y \in 0 .. (TimeHalf - 1)
      PROVE  x * TimeHalf + y \in 0 .. (Period - 1)
  <2>1. (x + 1) * TimeHalf <= TimeHalf * TimeHalf /\ x * TimeHalf \in Nat
    BY <1>1, MulMono
  <2>2. (x + 1) * TimeHalf = x * TimeHalf + TimeHalf
    BY <1>1
  <2>3. QED BY <1>1, <2>1, <2>2 DEF Period
<1>5. QED BY <1>2, <1>3, <1>4

LEMMA OrderIs ==
  /\ Len(Order) = 11 /\ DOMAIN Order = 1 .. 11
  /\ Order[1] = "XOSC" /\ Order[2] = "PLL" /\ Order[3] = "LOCK" /\ Order[4] = "REF"
  /\ Order[5] = "SYS" /\ Order[6] = "TIMER" /\ Order[7] = "IO" /\ Order[8] = "PADS"
  /\ Order[9] = "UART" /\ Order[10] = "SPI" /\ Order[11] = "DMA"
  BY DEF Order

LEMMA BlocksAre == /\ "DMA" \in Blocks /\ "TIMER" \in Blocks
                   /\ \A k \in 1 .. 11 : Order[k] \in Blocks
  BY OrderIs DEF Blocks

\* What a block needs is in front of it.
LEMMA NeedsAre ==
  ASSUME NEW d \in 0 .. 10
  PROVE  Needs(Order[d + 1]) \subseteq {Order[k] : k \in 1 .. d}
<1>1. CASE d + 1 = 3
  <2>1. Order[d + 1] = "LOCK" /\ Needs("LOCK") = {"XOSC", "PLL"}
    BY <1>1, OrderIs DEF Needs
  <2>2. 1 \in 1 .. d /\ 2 \in 1 .. d
    BY <1>1
  <2>3. QED BY <2>1, <2>2, OrderIs
<1>2. CASE d + 1 = 4
  <2>1. Order[d + 1] = "REF" /\ Needs("REF") = {"XOSC"}
    BY <1>2, OrderIs DEF Needs
  <2>2. 1 \in 1 .. d
    BY <1>2
  <2>3. QED BY <2>1, <2>2, OrderIs
<1>3. CASE d + 1 = 5
  <2>1. Order[d + 1] = "SYS" /\ Needs("SYS") = {"LOCK"}
    BY <1>3, OrderIs DEF Needs
  <2>2. 3 \in 1 .. d
    BY <1>3
  <2>3. QED BY <2>1, <2>2, OrderIs
<1>4. CASE d + 1 = 6
  <2>1. Order[d + 1] = "TIMER" /\ Needs("TIMER") = {"REF"}
    BY <1>4, OrderIs DEF Needs
  <2>2. 4 \in 1 .. d
    BY <1>4
  <2>3. QED BY <2>1, <2>2, OrderIs
<1>5. CASE d + 1 \in {1, 2, 7, 8, 9, 10, 11}
  <2>1. Order[d + 1] \in {"XOSC", "PLL", "IO", "PADS", "UART", "SPI", "DMA"}
    BY <1>5, OrderIs
  <2>2. Needs(Order[d + 1]) = {}
    BY <2>1 DEF Needs
  <2>3. QED BY <2>2
<1>6. QED BY <1>1, <1>2, <1>3, <1>4, <1>5

StartAction ==
  \/ dma_transfer_start \/ dma_transfer_await \/ CopyDone \/ ReadLow \/ ReadHigh
  \/ ZeroBss \/ Ask \/ Await \/ InitDevices \/ Respond \/ MoveByte \/ TimerTick

LEMMA StartInitOK == StartInit => StartOK
<1> SUFFICES ASSUME StartInit PROVE StartOK
  OBVIOUS
<1> USE DEF StartInit
<1>1. StartShape
  <2>1. dma \in [job : {"old", "data"}, left : Nat] /\ dma.job = "old" /\ dma.left <= OldLeft
    BY Sizes
  <2>2. ready \subseteq asked /\ asked \subseteq Blocks
    OBVIOUS
  <2>3. sram \in [0 .. (DataSize + BssSize - 1) -> {"old", "image", "zero"}]
    OBVIOUS
  <2>4. at \in Places /\ done \in 0 .. 11
    BY DEF Places
  <2>5. warm \in BOOLEAN /\ masked \in BOOLEAN /\ tick \in BOOLEAN
    BY Zenon
  <2>6. QED BY <2>1, <2>2, <2>3, <2>4, <2>5, Zenon DEF StartShape
<1>2. PowerOK
  BY DEF PowerOK, InMemcpy
<1>3. DataOK
  <2>1. dma.job = "old" /\ (~warm => dma.left = 0)
    OBVIOUS
  <2>2. QED BY <2>1 DEF DataOK, InMemcpy
<1>4. NapOK
  <2>1. 0 \in 0 .. (Period - 1) /\ 0 \in 0 .. (TimeHalf - 1) /\ -1 \in -1 .. (Period - 1)
    BY Halves, Sizes
  <2>2. nap = Awake /\ nap.phase = "awake" /\ nap.old = -1
    BY DEF Awake
  <2>3. QED BY <2>1, <2>2 DEF NapOK, Awake
<1>5. QED BY <1>1, <1>2, <1>3, <1>4 DEF StartOK

LEMMA ShapeKept == ASSUME StartOK, StartAction PROVE StartShape'
<1> USE DEF StartShape, StartOK, Places
<1>1. CASE dma_transfer_start
  <2>1. dma' \in [job : {"old", "data"}, left : Nat]
        /\ dma'.left <= IF dma'.job = "old" THEN OldLeft ELSE Whole(DataSize)
    BY <1>1, Sizes DEF dma_transfer_start, dma_channel_configure
  <2>2. QED BY <1>1, <2>1 DEF dma_transfer_start
<1>2. CASE dma_transfer_await
  BY <1>2 DEF dma_transfer_await
<1>3. CASE CopyDone
  BY <1>3 DEF CopyDone
<1>4. CASE ReadLow
  BY <1>4 DEF ReadLow
<1>5. CASE ReadHigh
  BY <1>5 DEF ReadHigh
<1>6. CASE ZeroBss
  <2>1. sram' \in [0 .. (DataSize + BssSize - 1) -> {"old", "image", "zero"}]
    BY <1>6 DEF ZeroBss
  <2>2. QED BY <1>6, <2>1 DEF ZeroBss
<1>7. CASE Ask
  <2>1. done + 1 \in 1 .. 11 /\ asked' = asked \cup {Order[done + 1]}
    BY <1>7, OrderIs DEF Ask
  <2>2. Order[done + 1] \in Blocks
    BY <2>1, BlocksAre
  <2>3. QED BY <1>7, <2>1, <2>2 DEF Ask
<1>8. CASE Await
  <2>1. done' \in 0 .. 11
    BY <1>8 DEF Await, PowerOK
  <2>2. tick' \in BOOLEAN
    BY <1>8 DEF Await
  <2>3. QED BY <1>8, <2>1, <2>2 DEF Await
<1>9. CASE InitDevices
  BY <1>9 DEF InitDevices
<1>10. CASE Respond
  BY <1>10 DEF Respond
<1>11. CASE MoveByte
  <2>1. /\ dma' \in [job : {"old", "data"}, left : Nat]
        /\ dma'.job = dma.job /\ dma'.left < dma.left
    BY <1>11 DEF MoveByte
  <2>2. dma'.left <= IF dma'.job = "old" THEN OldLeft ELSE Whole(DataSize)
    BY <2>1, Sizes
  <2>3. sram' \in [0 .. (DataSize + BssSize - 1) -> {"old", "image", "zero"}]
    BY <1>11 DEF MoveByte
  <2>4. QED BY <1>11, <2>1, <2>2, <2>3 DEF MoveByte
<1>12. CASE TimerTick
  BY <1>12 DEF TimerTick
<1>13. QED BY <1>1, <1>2, <1>3, <1>4, <1>5, <1>6, <1>7, <1>8, <1>9, <1>10, <1>11, <1>12
           DEF StartAction

LEMMA PowerKept == ASSUME StartOK, StartAction PROVE PowerOK'
<1> USE DEF PowerOK, StartShape, StartOK, InMemcpy, Places
<1>1. CASE dma_transfer_start
  BY <1>1 DEF dma_transfer_start, Use
<1>2. CASE dma_transfer_await
  <2>1. "DMA" \in ready /\ "TIMER" \in ready
    BY <1>2, BlocksAre DEF dma_transfer_await, dma_channel_busy
  <2>2. QED BY <1>2, <2>1 DEF dma_transfer_await, Use
<1>3. CASE CopyDone
  BY <1>3 DEF CopyDone
<1>4. CASE ReadLow
  BY <1>4 DEF ReadLow
<1>5. CASE ReadHigh
  BY <1>5 DEF ReadHigh
<1>6. CASE ZeroBss
  BY <1>6 DEF ZeroBss
<1>7. CASE Ask
  <2>1. done \in 0 .. 10
    BY <1>7, OrderIs DEF Ask
  <2>2. Needs(Order[done + 1]) \subseteq ready
    <3>1. Needs(Order[done + 1]) \subseteq {Order[k] : k \in 1 .. done}
      BY <2>1, NeedsAre
    <3>2. {Order[k] : k \in 1 .. done} \subseteq ready
      OBVIOUS
    <3>3. QED BY <3>1, <3>2
  <2>3. early' = early
    BY <1>7, <2>2 DEF Ask, Use
  <2>4. warm => ready' = Blocks
    BY <1>7 DEF Ask
  <2>5. QED BY <1>7, <2>1, <2>3, <2>4 DEF Ask
<1>8. CASE Await
  <2>1. done \in 0 .. 10 /\ done' = done + 1 /\ Order[done + 1] \in ready /\ ready' = ready
    BY <1>8, OrderIs DEF Await, Answered
  <2>2. \A k \in 1 .. done' : Order[k] \in ready'
    <3> TAKE k \in 1 .. done'
    <3>1. CASE k \in 1 .. done
      BY <3>1, <2>1
    <3>2. CASE k = done + 1
      BY <3>2, <2>1
    <3>3. QED BY <2>1, <3>1, <3>2
  <2>3. done' >= 6 => tick'
    <3>1. CASE done = 5
      <4>1. Order[done + 1] = "TIMER"
        BY <3>1, OrderIs
      <4>2. QED BY <4>1, <1>8 DEF Await
    <3>2. CASE done # 5
      BY <3>2, <2>1, <1>8 DEF Await
    <3>3. QED BY <3>1, <3>2
  <2>4. QED BY <1>8, <2>1, <2>2, <2>3 DEF Await
<1>9. CASE InitDevices
  <2>1. done = 11
    BY <1>9, OrderIs DEF InitDevices
  <2>2. \A k \in 1 .. 11 : Order[k] \in ready
    BY <2>1
  <2>3. uart_init \cup spi_init \subseteq ready
    BY <2>2, OrderIs DEF uart_init, spi_init
  <2>4. QED BY <1>9, <2>1, <2>3 DEF InitDevices, Use
<1>10. CASE Respond
  <2>1. PICK b \in asked \ ready : ready' = ready \cup {b}
    BY <1>10 DEF Respond
  <2>2. warm => ready' = Blocks
    BY <2>1
  <2>3. QED BY <1>10, <2>1, <2>2 DEF Respond
<1>11. CASE MoveByte
  BY <1>11 DEF MoveByte
<1>12. CASE TimerTick
  BY <1>12 DEF TimerTick
<1>13. QED BY <1>1, <1>2, <1>3, <1>4, <1>5, <1>6, <1>7, <1>8, <1>9, <1>10, <1>11, <1>12
           DEF StartAction

LEMMA DataKept == ASSUME StartOK, StartAction PROVE DataOK'
<1> USE DEF DataOK, StartShape, StartOK, InMemcpy, Places
<1>1. CASE dma_transfer_start
  <2>1. CASE warm
    <3>1. "DMA" \in ready
      BY <2>1, BlocksAre DEF PowerOK
    <3>2. dma.left = 0
      BY <3>1, <1>1 DEF dma_transfer_start, dma_channel_busy
    <3>3. dma' = [job |-> "data", left |-> Whole(DataSize)]
      BY <3>1, <3>2, <1>1 DEF dma_transfer_start, dma_channel_configure
    <3>4. 0 .. (Whole(DataSize) - dma'.left - 1) = {}
      BY <3>3, Sizes
    <3>5. QED BY <1>1, <2>1, <3>3, <3>4 DEF dma_transfer_start
  <2>2. CASE ~warm
    <3>1. "DMA" \notin ready
      BY <2>2, <1>1 DEF PowerOK, dma_transfer_start
    <3>2. dma' = dma
      BY <3>1, <1>1 DEF dma_transfer_start, dma_channel_configure
    <3>3. QED BY <1>1, <2>2, <3>2 DEF dma_transfer_start
  <2>3. QED BY <2>1, <2>2
<1>2. CASE dma_transfer_await
  BY <1>2 DEF dma_transfer_await
<1>3. CASE CopyDone
  <2>1. dma.left = 0
    <3>1. CASE warm
      BY <3>1, <1>3, BlocksAre DEF CopyDone, dma_channel_busy, PowerOK
    <3>2. QED BY <3>1
  <2>2. QED BY <1>3, <2>1 DEF CopyDone
<1>4. CASE ReadLow
  BY <1>4 DEF ReadLow
<1>5. CASE ReadHigh
  BY <1>5 DEF ReadHigh
<1>6. CASE ZeroBss
  <2>1. dma.left = 0 /\ dma' = dma /\ warm' = warm /\ at' = "ask" /\ at = "zero"
    BY <1>6 DEF ZeroBss
  <2>2. \A a \in 0 .. (Whole(DataSize) - 1) : sram'[a] = sram[a]
    BY <1>6, Sizes DEF ZeroBss
  <2>3. \A a \in DataSize .. (DataSize + Whole(BssSize) - 1) : sram'[a] = "zero"
    BY <1>6, Sizes DEF ZeroBss
  <2>4. \A a \in 0 .. (Whole(DataSize) - dma'.left - 1) : a \in 0 .. (Whole(DataSize) - 1)
                                                          /\ a \in 0 .. (Whole(DataSize) - dma.left - 1)
    BY <2>1, Sizes
  <2>5. QED BY <2>1, <2>2, <2>3, <2>4
<1>7. CASE Ask
  BY <1>7 DEF Ask
<1>8. CASE Await
  BY <1>8 DEF Await
<1>9. CASE InitDevices
  BY <1>9 DEF InitDevices
<1>10. CASE Respond
  BY <1>10 DEF Respond
<1>11. CASE MoveByte
  <2>1. /\ dma.left \in Nat /\ dma.left > 0 /\ dma'.job = dma.job /\ dma'.left = dma.left - 1
        /\ at' = at /\ warm' = warm
    BY <1>11 DEF MoveByte
  <2>2. warm /\ InMemcpy
    BY <2>1
  <2>3. CASE at = "copying"
    <3> DEFINE w == Whole(DataSize)
    <3>1. w \in Nat /\ w <= DataSize /\ dma.job = "data" /\ dma.left <= w
      BY <2>2, <2>3, Sizes
    <3>2. sram' = [sram EXCEPT ![w - dma.left] = "image"]
      BY <3>1, <1>11 DEF MoveByte
    <3>3. \A a \in 0 .. (w - dma.left - 1) : sram[a] = "image"
      BY <2>2, <2>3
    <3> HIDE DEF w
    <3>4. w - dma.left \in DOMAIN sram
      BY <3>1, <2>1, Sizes
    <3>5. \A a \in 0 .. (w - dma'.left - 1) :
             a = w - dma.left \/ a \in 0 .. (w - dma.left - 1)
      BY <2>1, <3>1
    <3>6. \A a \in 0 .. (w - dma'.left - 1) : sram'[a] = "image"
      <4> TAKE a \in 0 .. (w - dma'.left - 1)
      <4>1. CASE a = w - dma.left
        BY <4>1, <3>2, <3>4
      <4>2. CASE a \in 0 .. (w - dma.left - 1)
        <5>1. a # w - dma.left /\ a \in DOMAIN sram
          BY <4>2, <3>1, <2>1, Sizes
        <5>2. QED BY <4>2, <5>1, <3>2, <3>3
      <4>3. QED BY <4>1, <4>2, <3>5
    <3>7. QED BY <2>1, <2>2, <2>3, <3>1, <3>6 DEF w
  <2>4. CASE at = "copy"
    BY <2>1, <2>2, <2>4
  <2>5. QED BY <2>2, <2>3, <2>4
<1>12. CASE TimerTick
  BY <1>12 DEF TimerTick
<1>13. QED BY <1>1, <1>2, <1>3, <1>4, <1>5, <1>6, <1>7, <1>8, <1>9, <1>10, <1>11, <1>12
           DEF StartAction

LEMMA NapTypes ==
  ASSUME NapOK
  PROVE  /\ clock.now \in 0 .. (Period - 1) /\ clock.latch \in 0 .. (TimeHalf - 1)
         /\ nap.low \in 0 .. (TimeHalf - 1) /\ nap.old \in -1 .. (Period - 1)
         /\ nap.ticks \in Nat /\ readTime \in 0 .. (Period - 1)
         /\ nap.phase \in {"awake", "low", "high"}
<1>1. /\ clock.now \in 0 .. (Period - 1) /\ clock.latch \in 0 .. (TimeHalf - 1)
      /\ nap.low \in 0 .. (TimeHalf - 1) /\ nap.old \in -1 .. (Period - 1)
      /\ nap.ticks \in Nat /\ nap.phase \in {"awake", "low", "high"}
  BY DEF NapOK
<1>2. readTime \in 0 .. (Period - 1)
  BY <1>1, Halves DEF readTime, timeHR
<1>3. QED BY <1>1, <1>2

\* usleep returns only after its time.
LEMMA NapLong ==
  ASSUME NapOK, nap.phase = "high", nap.old # -1,
         ~((readTime - nap.old) % Period < Pause)
  PROVE  nap.ticks >= Pause
<1>1. PICK k \in 0 .. nap.ticks : readTime = (nap.old + k) % Period
  BY DEF NapOK
<1>2. nap.old \in 0 .. (Period - 1) /\ k \in Nat /\ nap.ticks \in Nat /\ readTime \in Int
  BY NapTypes
<1>3. (readTime - nap.old) % Period <= k
  BY <1>1, <1>2, Elapsed, Halves
<1>4. (readTime - nap.old) % Period \in Int /\ Pause \in Int
  <2>1. \A x \in Int : x % Period \in Int
    BY Halves
  <2>2. QED BY <1>2, <2>1, Halves, SMTT(30)
<1>5. QED BY <1>2, <1>3, <1>4

LEMMA NapSame == ASSUME NapOK, UNCHANGED <<nap, clock>> PROVE NapOK'
  BY DEF NapOK, readTime, timeHR

\* NapOK from its parts, for a sleep in progress.
LEMMA NapStep ==
  ASSUME NEW phase \in {"low", "high"}, NEW low \in 0 .. (TimeHalf - 1),
         NEW old \in -1 .. (Period - 1), NEW ticks \in Nat,
         NEW now \in 0 .. (Period - 1), NEW latch \in 0 .. (TimeHalf - 1),
         nap' = [phase |-> phase, low |-> low, old |-> old, ticks |-> ticks],
         clock' = [now |-> now, latch |-> latch],
         phase = "high" /\ old = -1 => now = (latch * TimeHalf + low + ticks) % Period,
         old # -1 => now = (old + ticks) % Period,
         phase = "high" /\ old # -1 =>
           \E k \in 0 .. ticks : latch * TimeHalf + low = (old + k) % Period
  PROVE  NapOK'
<1>1. /\ nap'.phase = phase /\ nap'.low = low /\ nap'.old = old /\ nap'.ticks = ticks
      /\ clock'.now = now /\ clock'.latch = latch
  OBVIOUS
<1>2. readTime' = latch * TimeHalf + low
  BY <1>1 DEF readTime, timeHR
<1>3. /\ clock' \in [now : 0 .. (Period - 1), latch : 0 .. (TimeHalf - 1)]
      /\ nap' \in [phase : {"awake", "low", "high"}, low : 0 .. (TimeHalf - 1),
                   old : -1 .. (Period - 1), ticks : Nat]
  OBVIOUS
<1>4. QED BY <1>1, <1>2, <1>3 DEF NapOK, Period

LEMMA NapKept == ASSUME StartOK, StartAction PROVE NapOK'
<1>1. NapOK
  BY DEF StartOK
<1> DEFINE now == clock.now
           low == nap.low
           latch == clock.latch
           old == nap.old
           ticks == nap.ticks
<1>2. /\ now \in 0 .. (Period - 1) /\ latch \in 0 .. (TimeHalf - 1)
      /\ low \in 0 .. (TimeHalf - 1) /\ old \in -1 .. (Period - 1) /\ ticks \in Nat
      /\ readTime \in 0 .. (Period - 1) /\ nap.phase \in {"awake", "low", "high"}
  BY <1>1, NapTypes
<1>3. /\ clock = [now |-> now, latch |-> latch]
      /\ nap = [phase |-> nap.phase, low |-> low, old |-> old, ticks |-> ticks]
  BY <1>1 DEF NapOK
<1>4. nap # Awake => nap.phase \in {"low", "high"}
  BY <1>1, <1>2 DEF NapOK
<1>5. /\ nap.phase = "high" /\ old = -1 => now = (readTime + ticks) % Period
      /\ old # -1 => now = (old + ticks) % Period
      /\ nap.phase = "high" /\ old # -1 => \E k \in 0 .. ticks : readTime = (old + k) % Period
      /\ readTime = latch * TimeHalf + low
  BY <1>1 DEF NapOK, readTime, timeHR
<1> HIDE DEF now, low, latch, old, ticks
<1>6. CASE dma_transfer_await
  <2>1. PICK t \in 0 .. (TimeHalf * TimeHalf - 1) : clock' = [clock EXCEPT !.now = t]
    BY <1>6 DEF dma_transfer_await
  <2>2. t \in 0 .. (Period - 1) /\ clock' = [now |-> t, latch |-> latch]
    BY <2>1, <1>3 DEF Period
  <2>3. nap' = [phase |-> "low", low |-> 0, old |-> -1, ticks |-> 0]
    BY <1>6 DEF dma_transfer_await, Awake
  <2>4. 0 \in 0 .. (TimeHalf - 1) /\ -1 \in -1 .. (Period - 1) /\ 0 \in Nat
    BY Halves, Sizes
  <2>5. QED BY <2>2, <2>3, <2>4, <1>2, NapStep
<1>7. CASE ReadLow
  <2> DEFINE l == now % TimeHalf
             h == now \div TimeHalf
             n == IF old = -1 THEN 0 ELSE ticks
  <2>1. l \in 0 .. (TimeHalf - 1) /\ h \in 0 .. (TimeHalf - 1) /\ h * TimeHalf + l = now
    BY <1>2, Halves
  <2>2. clock' = [now |-> now, latch |-> h]
    BY <1>7, <1>3 DEF ReadLow, now
  <2>3. nap' = [phase |-> "high", low |-> l, old |-> old, ticks |-> n]
    <3>1. nap' = [nap EXCEPT !.phase = "high", !.low = l, !.ticks = n]
      BY <1>7 DEF ReadLow, now, old, ticks
    <3> HIDE DEF l, n
    <3> DEFINE x == [nap EXCEPT !.phase = "high"]
               y == [x EXCEPT !.low = l]
    <3>2. x = [phase |-> "high", low |-> low, old |-> old, ticks |-> ticks]
      BY <1>3
    <3>3. nap' = [y EXCEPT !.ticks = n]
      BY <3>1
    <3> HIDE DEF x
    <3>4. y = [phase |-> "high", low |-> l, old |-> old, ticks |-> ticks]
      BY <3>2
    <3> HIDE DEF y
    <3>5. QED BY <3>3, <3>4
  <2>4. n \in Nat /\ (old # -1 => n = ticks) /\ (old = -1 => n = 0)
    BY <1>2
  <2> HIDE DEF l, h, n
  <2>5. old = -1 => now = (h * TimeHalf + l + n) % Period
    <3>1. SUFFICES ASSUME old = -1 PROVE now = (h * TimeHalf + l + n) % Period
      OBVIOUS
    <3>2. h * TimeHalf + l + n = now
      BY <2>1, <2>4, <3>1, <1>2
    <3>3. now \in Nat /\ now < Period /\ Period \in Nat \ {0}
      BY <1>2, Halves
    <3>4. now % Period = now
      BY <3>3, ModSmall
    <3>5. QED BY <3>2, <3>4
  <2>6. old # -1 => \E k \in 0 .. n : h * TimeHalf + l = (old + k) % Period
    <3>1. SUFFICES ASSUME old # -1 PROVE \E k \in 0 .. n : h * TimeHalf + l = (old + k) % Period
      OBVIOUS
    <3>2. n \in 0 .. n /\ h * TimeHalf + l = (old + n) % Period
      BY <2>1, <2>4, <3>1, <1>5
    <3>3. QED BY <3>2
  <2>7. old # -1 => now = (old + n) % Period
    BY <2>4, <1>5
  <2>8. QED BY <2>1, <2>2, <2>3, <2>4, <2>5, <2>6, <2>7, <1>2, NapStep
<1>8. CASE ReadHigh
  <2>1. nap.phase = "high"
    BY <1>8 DEF ReadHigh
  <2>2. CASE old = -1
    <3>1. nap' = [nap EXCEPT !.phase = "low", !.old = readTime]
      BY <1>8, <2>2 DEF ReadHigh, old
    <3>2. nap' = [phase |-> "low", low |-> low, old |-> readTime, ticks |-> ticks]
      <4> DEFINE x == [nap EXCEPT !.phase = "low"]
      <4>1. x = [phase |-> "low", low |-> low, old |-> old, ticks |-> ticks]
        BY <1>3
      <4>2. nap' = [x EXCEPT !.old = readTime]
        BY <3>1
      <4> HIDE DEF x
      <4>3. QED BY <4>1, <4>2
    <3>3. nap' # Awake
      BY <3>2 DEF Awake
    <3>4. clock' = [now |-> now, latch |-> latch]
      BY <1>8, <3>3, <1>3 DEF ReadHigh
    <3>5. now = (readTime + ticks) % Period /\ readTime \in -1 .. (Period - 1)
      BY <1>2, <1>5, <2>1, <2>2
    <3>6. QED BY <3>2, <3>4, <3>5, <1>2, NapStep
  <2>3. CASE old # -1 /\ (readTime - nap.old) % (TimeHalf * TimeHalf) < Pause
    <3>1. nap' = [nap EXCEPT !.phase = "low"]
      BY <1>8, <2>3 DEF ReadHigh, old
    <3>2. nap' = [phase |-> "low", low |-> low, old |-> old, ticks |-> ticks]
      BY <3>1, <1>3
    <3>3. nap' # Awake
      BY <3>2 DEF Awake
    <3>4. clock' = [now |-> now, latch |-> latch]
      BY <1>8, <3>3, <1>3 DEF ReadHigh
    <3>5. QED BY <3>2, <3>4, <1>2, <1>5, <2>3, NapStep
  <2>4. CASE old # -1 /\ ~((readTime - nap.old) % (TimeHalf * TimeHalf) < Pause)
    <3>1. nap' = Awake
      BY <1>8, <2>4 DEF ReadHigh, old
    <3>2. clock' = [now |-> 0, latch |-> 0]
      BY <1>8, <3>1 DEF ReadHigh
    <3>3. 0 \in 0 .. (TimeHalf - 1) /\ -1 \in -1 .. (Period - 1) /\ 0 \in 0 .. (Period - 1)
      BY Halves, Sizes
    <3>4. nap'.phase = "awake" /\ nap'.old = -1
      BY <3>1 DEF Awake
    <3>5. QED BY <3>1, <3>2, <3>3, <3>4 DEF NapOK, Awake
  <2>5. QED BY <2>2, <2>3, <2>4
<1>9. CASE TimerTick
  <2> DEFINE n == (now + 1) % Period
  <2>1. nap.phase \in {"low", "high"}
    BY <1>4, <1>9 DEF TimerTick
  <2>2. nap' = [phase |-> nap.phase, low |-> low, old |-> old, ticks |-> ticks + 1]
    BY <1>3, <1>9 DEF TimerTick
  <2>3. clock' = [now |-> n, latch |-> latch]
    BY <1>3, <1>9 DEF TimerTick, Period
  <2>4. n \in 0 .. (Period - 1) /\ ticks + 1 \in Nat
    <3>1. now + 1 \in Nat
      BY <1>2, Halves
    <3>2. Period \in Nat \ {0}
      BY Halves
    <3>3. (now + 1) % Period \in 0 .. (Period - 1)
      BY <3>1, <3>2, DivMod
    <3>4. QED BY <3>3, <1>2
  <2>5. old # -1 => n = (old + (ticks + 1)) % Period
    <3>1. SUFFICES ASSUME old # -1 PROVE n = (old + (ticks + 1)) % Period
      OBVIOUS
    <3>2. old + ticks \in Nat /\ now = (old + ticks) % Period /\ Period \in Nat \ {0}
          /\ old + (ticks + 1) = (old + ticks) + 1
      BY <1>2, <1>5, <3>1, Halves
    <3>3. (((old + ticks) % Period) + 1) % Period = ((old + ticks) + 1) % Period
      BY <3>2, OneOn
    <3>4. QED BY <3>2, <3>3
  <2>6. nap.phase = "high" /\ old = -1 => n = (latch * TimeHalf + low + (ticks + 1)) % Period
    <3>1. SUFFICES ASSUME nap.phase = "high", old = -1
                   PROVE  n = (latch * TimeHalf + low + (ticks + 1)) % Period
      OBVIOUS
    <3> DEFINE r == readTime
    <3>2. r \in 0 .. (Period - 1) /\ Period \in Nat \ {0}
      BY <1>2, Halves
    <3> HIDE DEF r
    <3>3. r + ticks \in Nat /\ r + (ticks + 1) = (r + ticks) + 1
      BY <3>2, <1>2
    <3>4. /\ readTime + ticks \in Nat /\ now = (readTime + ticks) % Period
          /\ Period \in Nat \ {0} /\ readTime = latch * TimeHalf + low
          /\ readTime + (ticks + 1) = (readTime + ticks) + 1
      BY <1>5, <3>1, <3>2, <3>3, Zenon DEF r
    <3>5. (((readTime + ticks) % Period) + 1) % Period = ((readTime + ticks) + 1) % Period
      BY <3>4, OneOn
    <3>6. QED BY <3>4, <3>5
  <2>7. nap.phase = "high" /\ old # -1 =>
          \E k \in 0 .. (ticks + 1) : latch * TimeHalf + low = (old + k) % Period
    BY <1>2, <1>5
  <2> HIDE DEF n
  <2>8. QED BY <2>1, <2>2, <2>3, <2>4, <2>5, <2>6, <2>7, <1>2, NapStep
<1>10. CASE \/ dma_transfer_start \/ CopyDone \/ ZeroBss \/ Ask \/ Await \/ InitDevices
            \/ Respond \/ MoveByte
  BY <1>1, <1>10, NapSame
     DEF dma_transfer_start, CopyDone, ZeroBss, Ask, Await, InitDevices, Respond, MoveByte
<1>11. QED BY <1>6, <1>7, <1>8, <1>9, <1>10 DEF StartAction

LEMMA StartKept == ASSUME StartOK, StartStep \/ Hardware PROVE StartOK'
<1>1. StartAction
  BY DEF StartStep, Hardware, StartAction
<1>2. QED BY <1>1, ShapeKept, PowerKept, DataKept, NapKept DEF StartOK

----------------------------------------------------------------------------
(***************************************************************************)
(* The system calls.                                                       *)
(***************************************************************************)
LEMMA EmptyEnd == ASSUME NEW S, NEW s \in Seq(S) PROVE s \o <<>> = s
  OBVIOUS

\* A byte that moves from the front of t to the end of s.
LEMMA MoveOne ==
  ASSUME NEW S, NEW s \in Seq(S), NEW t \in Seq(S), t # <<>>
  PROVE  /\ Append(s, Head(t)) \in Seq(S) /\ Tail(t) \in Seq(S)
         /\ Len(Append(s, Head(t))) = Len(s) + 1
         /\ Append(s, Head(t)) \o Tail(t) = s \o t
  OBVIOUS

LEMMA FirstGone ==
  ASSUME NEW S, NEW s \in Seq(S), NEW t \in Seq(S), s # <<>>
  PROVE  /\ Tail(s) \in Seq(S) /\ Len(Tail(s)) = Len(s) - 1
         /\ Tail(s \o t) = Tail(s) \o t
  OBVIOUS

LEMMA PushPop ==
  ASSUME NEW S, NEW s \in Seq(S), NEW x \in S
  PROVE  /\ Len(Append(s, x)) = Len(s) + 1 /\ Front(Append(s, x)) = s
         /\ SubSeq(s, 1, 0) = <<>>
<1>1. /\ Append(s, x) \in Seq(S) /\ Len(Append(s, x)) = Len(s) + 1 /\ Len(s) \in Nat
      /\ \A k \in 1 .. Len(s) : Append(s, x)[k] = s[k]
  OBVIOUS
<1>2. Front(Append(s, x)) = SubSeq(Append(s, x), 1, Len(s))
  BY <1>1 DEF Front
<1>3. SubSeq(Append(s, x), 1, Len(s)) = s
  BY <1>1
<1>4. SubSeq(s, 1, 0) = <<>>
  OBVIOUS
<1>5. QED BY <1>1, <1>2, <1>3, <1>4

\* Texts are made of symbols, and so is their beginning.
LEMMA TextSymbols ==
  ASSUME NEW t \in Texts, NEW c \in 0 .. Len(t)
  PROVE  SubSeq(t, 1, c) \in Seq(Symbols) /\ Len(t) \in Nat
<1>1. t \in Seq({t[k] : k \in DOMAIN t})
  BY SvcAssumption
<1>2. \A k \in 1 .. Len(t) : t[k] \in Symbols
  BY <1>1 DEF Symbols
<1>3. Len(t) \in Nat /\ t \in Seq(Symbols)
  BY <1>1, <1>2
<1>4. QED BY <1>3

LEMMA AskedSymbols ==
  ASSUME NEW n, NEW t \in Texts, NEW c \in 0 .. Len(t)
  PROVE  Asked(n, t, c) \in Seq(Symbols)
<1>1. Unknown \in Symbols
  BY DEF Symbols
<1>2. QED BY <1>1, TextSymbols DEF Asked

\* The frame, and the frame under the handler's return address.
LEMMA FrameWords ==
  ASSUME NEW r
  PROVE  LET f == Frame(r)
             s == Append(f, EXC_RETURN)
         IN  /\ Len(f) = 8 /\ Len(s) = 9 /\ Popped(s) = f
             /\ SubSeq(f, 1, Len(f) - 8) = <<>>
             /\ Unstacked(f) = [r0 |-> r.r0, r1 |-> r.r1, r2 |-> r.r2, r3 |-> r.r3,
                                r12 |-> r.r12, lr |-> r.lr, pc |-> r.pc, xpsr |-> r.xpsr]
             /\ Stacked(f, 1) = r.r1 /\ Stacked(f, 2) = r.r2 /\ Stacked(f, 6) = r.pc
<1> DEFINE f == Frame(r)
           s == Append(f, EXC_RETURN)
<1>1. /\ Len(f) = 8
      /\ f[1] = r.xpsr /\ f[2] = r.pc /\ f[3] = r.lr /\ f[4] = r.r12
      /\ f[5] = r.r3 /\ f[6] = r.r2 /\ f[7] = r.r1 /\ f[8] = r.r0
  BY DEF Frame
<1> DEFINE W == {r.xpsr, r.pc, r.lr, r.r12, r.r3, r.r2, r.r1, r.r0, EXC_RETURN}
<1>2. f \in Seq(W) /\ EXC_RETURN \in W
  BY DEF Frame
<1> HIDE DEF f, W
<1>3. Len(s) = 9 /\ Popped(s) = f /\ SubSeq(f, 1, Len(f) - 8) = <<>>
  <2>1. Len(s) = Len(f) + 1 /\ Front(s) = f /\ SubSeq(f, 1, 0) = <<>>
    BY <1>2, PushPop
  <2>2. QED BY <2>1, <1>1 DEF Popped
<1>4. /\ Stacked(f, 0) = r.r0 /\ Stacked(f, 1) = r.r1 /\ Stacked(f, 2) = r.r2
      /\ Stacked(f, 3) = r.r3 /\ Stacked(f, 4) = r.r12 /\ Stacked(f, 5) = r.lr
      /\ Stacked(f, 6) = r.pc /\ Stacked(f, 7) = r.xpsr
  BY <1>1 DEF Stacked
<1>5. QED BY <1>1, <1>3, <1>4 DEF f, Unstacked

LEMMA SvcInitOK == SvcInit => SvcOK
<1> SUFFICES ASSUME SvcInit PROVE SvcOK
  OBVIOUS
<1>1. Registers(before) /\ before = regs
  BY DEF SvcInit, Registers
<1>2. /\ call.phase = "idle" /\ call.rest = <<>> /\ fifo = <<>> /\ due = <<>> /\ stack = <<>>
      /\ mode = "thread" /\ call \in [phase : {"idle", "entry", "puts"}, rest : Seq(Symbols),
                                      result : Nat \cup {-2}]
  BY DEF SvcInit, Idle
<1>3. OutputRight
  BY <1>2 DEF OutputRight
<1>4. fifo \in Seq(Symbols) /\ Len(fifo) <= UART_FIFO
  BY <1>2, SvcAssumption
<1>5. QED BY <1>1, <1>2, <1>3, <1>4 DEF SvcOK

\* The fields of the handler's record.
LEMMA CallFields ==
  ASSUME SvcOK
  PROVE  /\ call.phase \in {"idle", "entry", "puts"} /\ call.rest \in Seq(Symbols)
         /\ call.result \in Nat \cup {-2}
         /\ call = [phase |-> call.phase, rest |-> call.rest, result |-> call.result]
  BY DEF SvcOK

LEMMA SvcCalled ==
  ASSUME SvcOK, NEW n \in Numbers, NEW t \in Texts, NEW c \in 0 .. Len(t), svc(n, t, c)
  PROVE  SvcOK'
<1>1. regs = before /\ Registers(regs) /\ call.phase = "idle" /\ stack = <<>> /\ call.rest = <<>>
  BY DEF SvcOK, svc
<1> DEFINE b == [r0 |-> Saved("fd"), r1 |-> [text |-> t], r2 |-> Number(c), r3 |-> regs.r3,
                 r12 |-> regs.r12, lr |-> regs.lr, pc |-> Behind(n), xpsr |-> regs.xpsr]
<1>2. before' = b
  <2> DEFINE x == [regs EXCEPT !.r0 = Saved("fd")]
             y == [x EXCEPT !.r1 = [text |-> t]]
             z == [y EXCEPT !.r2 = Number(c)]
  <2>1. before' = [z EXCEPT !.pc = Behind(n)]
    BY DEF svc
  <2>2. x = [r0 |-> Saved("fd"), r1 |-> regs.r1, r2 |-> regs.r2, r3 |-> regs.r3,
             r12 |-> regs.r12, lr |-> regs.lr, pc |-> regs.pc, xpsr |-> regs.xpsr]
    BY <1>1 DEF Registers
  <2> HIDE DEF x
  <2>3. y = [r0 |-> Saved("fd"), r1 |-> [text |-> t], r2 |-> regs.r2, r3 |-> regs.r3,
             r12 |-> regs.r12, lr |-> regs.lr, pc |-> regs.pc, xpsr |-> regs.xpsr]
    BY <2>2
  <2> HIDE DEF y
  <2>4. z = [r0 |-> Saved("fd"), r1 |-> [text |-> t], r2 |-> Number(c), r3 |-> regs.r3,
             r12 |-> regs.r12, lr |-> regs.lr, pc |-> regs.pc, xpsr |-> regs.xpsr]
    BY <2>3
  <2> HIDE DEF z
  <2>5. QED BY <2>1, <2>4
<1>3. /\ Registers(before') /\ before'.pc = Behind(n) /\ before'.pc.behind = n
      /\ before'.r1.text = t /\ before'.r2.number = c
  BY <1>2 DEF Registers, Behind, Number
<1>4. call' = [phase |-> "entry", rest |-> <<>>, result |-> 0] /\ call'.phase = "entry"
  BY DEF svc, Idle
<1>5. call' \in [phase : {"idle", "entry", "puts"}, rest : Seq(Symbols), result : Nat \cup {-2}]
  BY <1>4
<1>6. stack' = Frame(before')
  <2>1. stack' = <<>> \o Frame(before')
    BY <1>1 DEF svc
  <2>2. QED BY <2>1 DEF Frame
<1>7. OutputRight'
  <2>1. due = fifo
    BY <1>1, EmptyEnd DEF SvcOK, OutputRight
  <2>2. due' = fifo \o Asked(n, t, c) /\ fifo' = fifo
    BY <2>1 DEF svc
  <2>3. QED BY <2>2, <1>3, <1>4 DEF OutputRight
<1>8. mode' = "svc" /\ fifo' = fifo
  BY DEF svc
<1>9. QED BY <1>3, <1>4, <1>5, <1>6, <1>7, <1>8 DEF SvcOK

LEMMA SvcHandled == ASSUME SvcOK, SvcStep PROVE SvcOK'
<1>1. mode = "svc" /\ call.phase # "idle"
  BY DEF SvcStep, SvcOK
<1>2. CASE do_syscall
  <2> DEFINE t == before.r1.text
             c == before.r2.number
             n == before.pc.behind
  <2>1. call.phase = "entry" /\ stack = Frame(before) /\ t \in Texts /\ c \in 0 .. Len(t)
    BY <1>2 DEF do_syscall, SvcOK
  <2>2. SvcNumber(stack) = n /\ Stacked(stack, 1).text = t /\ Stacked(stack, 2).number = c
    BY <2>1, FrameWords DEF SvcNumber
  <2>3. due = fifo \o Asked(n, t, c)
    BY <2>1 DEF SvcOK, OutputRight
  <2>4. /\ call' = IF n = SYS_WRITE THEN sys_write(t, c)
                     ELSE [phase |-> "puts", rest |-> <<Unknown>>, result |-> -2]
        /\ stack' = Append(Frame(before), EXC_RETURN) /\ UNCHANGED <<mode, regs, fifo, due, before>>
    BY <1>2, <2>1, <2>2 DEF do_syscall
  <2> HIDE DEF t, c, n
  <2>5. call'.phase = "puts" /\ call'.rest = Asked(n, t, c) /\ call'.result \in Nat \cup {-2}
        /\ call' = [phase |-> "puts", rest |-> call'.rest, result |-> call'.result]
    BY <2>1, <2>4, TextSymbols DEF sys_write, Asked
  <2>6. call' \in [phase : {"idle", "entry", "puts"}, rest : Seq(Symbols),
                   result : Nat \cup {-2}]
    BY <2>1, <2>5, AskedSymbols
  <2>7. OutputRight'
    BY <2>3, <2>4, <2>5 DEF OutputRight
  <2>8. QED BY <1>1, <2>4, <2>5, <2>6, <2>7 DEF SvcOK, Frame
<1>3. CASE uartTx
  <2>1. /\ call.phase = "puts" /\ call.rest # <<>> /\ fifo' = Append(fifo, Head(call.rest))
        /\ call' = [call EXCEPT !.rest = Tail(call.rest)] /\ Len(fifo) < UART_FIFO
        /\ UNCHANGED <<mode, regs, stack, due, before>>
    BY <1>3 DEF uartTx, TxRoom
  <2>2. /\ fifo' \in Seq(Symbols) /\ Tail(call.rest) \in Seq(Symbols)
        /\ Len(fifo') = Len(fifo) + 1 /\ fifo' \o Tail(call.rest) = fifo \o call.rest
    BY <2>1, CallFields, MoveOne, SMTT(30) DEF SvcOK
  <2>3. call' = [phase |-> "puts", rest |-> Tail(call.rest), result |-> call.result]
    BY <2>1, CallFields
  <2>4. /\ call'.phase = "puts" /\ call'.rest = Tail(call.rest)
        /\ call' \in [phase : {"idle", "entry", "puts"}, rest : Seq(Symbols),
                      result : Nat \cup {-2}]
    BY <2>2, <2>3, CallFields
  <2>5. OutputRight'
    BY <2>1, <2>2, <2>4 DEF SvcOK, OutputRight
  <2>6. Len(fifo') <= UART_FIFO
    BY <2>1, <2>2, SvcAssumption DEF SvcOK
  <2>7. QED BY <1>1, <2>1, <2>2, <2>4, <2>5, <2>6 DEF SvcOK, Frame
<1>4. CASE StoreFaults
  <2>1. mode' = "default" /\ UNCHANGED <<regs, stack, call, fifo, due, before>>
    BY <1>4 DEF StoreFaults, defaultHandler
  <2>2. QED BY <2>1 DEF SvcOK, OutputRight, Frame, Asked, Registers
<1>5. CASE ReturnFromException
  <2>1. /\ call.phase = "puts" /\ call.rest = <<>> /\ mode' = "thread"
        /\ regs' = Unstacked(Popped(stack))
        /\ stack' = SubSeq(Popped(stack), 1, Len(Popped(stack)) - 8)
        /\ call' = [Idle EXCEPT !.result = call.result]
        /\ UNCHANGED <<fifo, due, before>>
    BY <1>5 DEF ReturnFromException
  <2>2. stack = Append(Frame(before), EXC_RETURN)
    BY <2>1 DEF SvcOK
  <2>3. Popped(stack) = Frame(before) /\ stack' = <<>> /\ regs' = before
    BY <2>1, <2>2, FrameWords DEF SvcOK, Registers
  <2>4. /\ call'.phase = "idle" /\ call'.rest = <<>>
        /\ call' \in [phase : {"idle", "entry", "puts"}, rest : Seq(Symbols),
                      result : Nat \cup {-2}]
    BY <2>1, CallFields DEF Idle
  <2>5. OutputRight'
    BY <2>1, <2>4 DEF SvcOK, OutputRight
  <2>6. QED BY <2>1, <2>3, <2>4, <2>5 DEF SvcOK, Registers
<1>6. QED BY <1>2, <1>3, <1>4, <1>5 DEF SvcStep

LEMMA SvcSent == ASSUME SvcOK, Transmit PROVE SvcOK'
<1>1. /\ fifo # <<>> /\ fifo' = Tail(fifo) /\ due' = Tail(due)
      /\ UNCHANGED <<mode, regs, stack, call, before>>
  BY DEF Transmit
<1> DEFINE out == IF call.phase = "entry"
                    THEN Asked(before.pc.behind, before.r1.text, before.r2.number) ELSE call.rest
<1>2. out \in Seq(Symbols)
  BY CallFields, AskedSymbols DEF SvcOK
<1>3. due = fifo \o out
  BY DEF SvcOK, OutputRight
<1>4. (due' = fifo' \o out) => OutputRight'
  BY <1>1 DEF OutputRight, Asked
<1> HIDE DEF out
<1>5. fifo' \in Seq(Symbols) /\ Len(fifo') = Len(fifo) - 1 /\ Tail(fifo \o out) = Tail(fifo) \o out
  BY <1>1, <1>2, FirstGone DEF SvcOK
<1>6. OutputRight'
  BY <1>1, <1>3, <1>4, <1>5
<1>7. Len(fifo') <= UART_FIFO
  BY <1>5, SvcAssumption DEF SvcOK
<1>8. QED BY <1>1, <1>5, <1>6, <1>7 DEF SvcOK, Frame, Registers

LEMMA SvcFault ==
  ASSUME SvcOK, defaultHandler, UNCHANGED <<regs, stack, call, fifo, due, before>>
  PROVE  SvcOK'
  BY DEF SvcOK, defaultHandler, OutputRight, Frame, Asked, Registers

LEMMA SvcSame == ASSUME SvcOK, UNCHANGED svcVars PROVE SvcOK'
  BY DEF SvcOK, svcVars, OutputRight, Frame, Asked, Registers

----------------------------------------------------------------------------
(***************************************************************************)
(* The loader.                                                             *)
(***************************************************************************)
LEMMA BootInitOK == BootInit => BootOK
<1> SUFFICES ASSUME BootInit PROVE BootOK
  OBVIOUS
<1> USE DEF BootInit
<1>1. /\ DOMAIN ram \subseteq Nat /\ ram = [a \in DOMAIN ram |-> ram[a]]
      /\ \A a \in DOMAIN ram : Cell(ram[a])
  BY BootAssumption
<1>2. pc = "SDInit" /\ mounted \in BOOLEAN /\ clean \in BOOLEAN
  BY Zenon
<1>3. BootShape
  BY <1>1, <1>2 DEF BootShape
<1>4. LoadOK
  BY <1>2 DEF LoadOK, LoadsImage
<1>5. QED BY <1>3, <1>4 DEF BootOK

\* Files are sequences of cells, and the heap's memory exists.
LEMMA FileCells ==
  ASSUME BootShape
  PROVE  /\ Len(file) \in Nat /\ DOMAIN file = 1 .. Len(file)
         /\ \A k \in DOMAIN file : Cell(file[k])
         /\ size \in Nat /\ size <= Len(file)
<1>1. file \in Seq({file[k] : k \in DOMAIN file}) /\ \A k \in DOMAIN file : Cell(file[k])
  BY BootAssumption DEF BootShape
<1>2. Len(file) \in Nat /\ DOMAIN file = 1 .. Len(file)
  BY <1>1
<1>3. QED BY <1>1, <1>2 DEF BootShape

LEMMA RamCells ==
  ASSUME BootShape
  PROVE  /\ Buffer \in Nat /\ HeapRoom \in Nat
         /\ DOMAIN mem \subseteq Nat /\ 0 .. (Buffer + HeapRoom) \subseteq DOMAIN mem
  BY BootAssumption DEF BootShape

\* Where the loop is, in a file that is sound.
LEMMA SoundFile ==
  ASSUME BootShape, Sound
  PROVE  /\ file # <<>> /\ 1 \in DOMAIN file /\ Executable(file[1]) /\ file[1] \in ElfHeaders
         /\ file[1].phoff \in Nat /\ file[1].phnum \in Nat
         /\ \A k \in (file[1].phoff + 1) .. (file[1].phoff + file[1].phnum) :
              k \in DOMAIN file /\ file[k].kind = "phdr"
         /\ \A k \in Segments : /\ k \in (file[1].phoff + 1) .. (file[1].phoff + file[1].phnum)
                                /\ file[k] \in ProgramHeaders
<1>1. 1 \in DOMAIN file
  <2>1. file # <<>> /\ Len(file) \in Nat /\ DOMAIN file = 1 .. Len(file)
        /\ file \in Seq({file[k] : k \in DOMAIN file})
    BY FileCells, BootAssumption DEF Sound, BootShape
  <2>2. QED BY <2>1
<1>2. Executable(file[1]) /\ file[1] \in ElfHeaders
  BY <1>1, FileCells DEF Sound, Executable, Cell
<1>3. file[1].phoff \in Nat /\ file[1].phnum \in Nat
  BY <1>2 DEF ElfHeaders
<1>4. {k \in DOMAIN file : file[k].kind = "phdr"}
        = (file[1].phoff + 1) .. (file[1].phoff + file[1].phnum)
  BY DEF Sound
<1>5. \A k \in Segments : k \in DOMAIN file /\ file[k].kind = "phdr" /\ file[k] \in ProgramHeaders
  BY FileCells DEF Segments, Cell
<1>6. QED BY <1>1, <1>2, <1>3, <1>4, <1>5 DEF Sound

\* memcpy of a source that it does not write.
LEMMA CopyApart ==
  ASSUME NEW m, NEW to \in Nat, NEW from \in Nat, NEW n \in Nat,
         \A k \in 0 .. (n - 1) : from + k \notin to .. (to + n - 1)
  PROVE  /\ DOMAIN memcpy(m, to, from, n) = DOMAIN m
         /\ \A a \in DOMAIN m : memcpy(m, to, from, n)[a]
              = IF a \in to .. (to + n - 1) THEN m[from + (a - to)] ELSE m[a]
<1> DEFINE Is(f) == f = [k \in 0 .. (n - 1) |-> IF from + k \in to .. (to + k - 1)
                                                  THEN f[from + k - to] ELSE m[from + k]]
           g == [k \in 0 .. (n - 1) |-> m[from + k]]
           new == CHOOSE f : Is(f)
<1>1. \A k \in 0 .. (n - 1) : from + k \notin to .. (to + k - 1)
  OBVIOUS
<1>2. Is(g)
  BY <1>1
<1>3. Is(new)
  BY <1>2
<1>4. \A k \in 0 .. (n - 1) : new[k] = m[from + k]
  BY <1>1, <1>3
<1>5. memcpy(m, to, from, n)
        = [a \in DOMAIN m |-> IF a \in to .. (to + n - 1) THEN new[a - to] ELSE m[a]]
  BY DEF memcpy
<1> HIDE DEF new
<1>6. \A a \in to .. (to + n - 1) : a - to \in 0 .. (n - 1)
  OBVIOUS
<1>7. QED BY <1>4, <1>5, <1>6

LEMMA LoadedShape ==
  ASSUME NEW m, NEW p
  PROVE  DOMAIN Loaded(m, p) = DOMAIN m /\ Loaded(m, p) = [a \in DOMAIN m |-> Loaded(m, p)[a]]
<1>1. \A to, from, n : /\ DOMAIN memcpy(m, to, from, n) = DOMAIN m
                       /\ memcpy(m, to, from, n) = [a \in DOMAIN m |-> memcpy(m, to, from, n)[a]]
  BY DEF memcpy
<1>2. \A x, to, n : /\ DOMAIN memset(x, to, n) = DOMAIN x
                    /\ memset(x, to, n) = [a \in DOMAIN x |-> memset(x, to, n)[a]]
  BY DEF memset
<1>3. QED BY <1>1, <1>2 DEF Loaded

LEMMA BootShapeKept == ASSUME BootShape, BootStep PROVE BootShape'
<1> USE DEF BootShape
<1>1. CASE StartCard
  BY <1>1 DEF StartCard
<1>2. CASE Mount
  BY <1>2 DEF Mount
<1>3. CASE OpenFile
  BY <1>3 DEF OpenFile
<1>4. CASE Allocate
  <2>1. /\ pc = "malloc" /\ UNCHANGED <<file, ram, mounted, size, ehdr, i>> /\ clean' \in BOOLEAN
        /\ pc' \in {"fat32_read", "running"} /\ (pc' = "fat32_read" => size <= HeapRoom)
    BY <1>4 DEF Allocate, Granted, Return
  <2>2. /\ DOMAIN mem' = DOMAIN mem /\ mem' = [a \in DOMAIN mem' |-> mem'[a]]
        /\ \A a \in DOMAIN mem : Cell(mem'[a])
    <3>1. Cell(HeapCell)
      BY DEF Cell, HeapCell
    <3>2. CASE mem' = mem
      BY <2>1, <3>2
    <3>3. CASE mem' = [mem EXCEPT ![Buffer + size] = HeapCell]
      BY <2>1, <3>1, <3>3
    <3>4. QED BY <1>4, <3>2, <3>3 DEF Allocate
  <2>3. QED BY <2>1, <2>2
<1>5. CASE ReadFile
  <2>1. PICK n \in 0 .. size :
          /\ mem' = [a \in DOMAIN mem |-> IF a \in Buffer .. (Buffer + n - 1)
                                            THEN file[a - Buffer + 1] ELSE mem[a]]
          /\ clean' = (clean /\ n = size)
    BY <1>5 DEF ReadFile
  <2>2. /\ pc = "fat32_read" /\ pc' = "check" /\ clean' \in BOOLEAN
        /\ UNCHANGED <<file, ram, mounted, size, ehdr, i, entry>>
    BY <1>5, <2>1 DEF ReadFile
  <2>3. \A a \in Buffer .. (Buffer + n - 1) : a - Buffer + 1 \in DOMAIN file
    BY FileCells, RamCells
  <2>4. /\ DOMAIN mem' = DOMAIN mem /\ mem' = [a \in DOMAIN mem' |-> mem'[a]]
        /\ \A a \in DOMAIN mem : Cell(mem'[a])
    BY <2>1, <2>2, <2>3, FileCells
  <2>5. QED BY <2>2, <2>4
<1>6. CASE CheckHeader
  <2>1. CASE Executable(mem[Buffer])
    <3>1. pc = "check" /\ Buffer \in DOMAIN mem /\ i = 0
      BY <1>6, RamCells DEF CheckHeader
    <3>2. mem[Buffer] \in ElfHeaders
      BY <2>1, <3>1 DEF Executable, Cell
    <3>3. mem[Buffer].phnum \in Nat
      BY <3>2 DEF ElfHeaders
    <3>4. /\ pc' = "load" /\ ehdr' = mem[Buffer]
          /\ UNCHANGED <<file, ram, mem, mounted, size, i, clean>>
      BY <1>6, <2>1 DEF CheckHeader
    <3>5. QED BY <3>1, <3>2, <3>3, <3>4
  <2>2. CASE ~Executable(mem[Buffer])
    BY <1>6, <2>2 DEF CheckHeader, Return
  <2>3. QED BY <2>1, <2>2
<1>7. CASE LoadSegment
  <2>1. /\ pc = "load" /\ pc' \in {"load", "wild"} /\ ehdr \in ElfHeaders /\ i \in 0 .. ehdr.phnum
        /\ i < ehdr.phnum /\ i' \in {i, i + 1}
        /\ UNCHANGED <<file, ram, mounted, size, ehdr, entry, clean>>
    BY <1>7 DEF LoadSegment, NextHeader
  <2>2. ehdr.phnum \in Nat
    BY <2>1 DEF ElfHeaders
  <2>3. i' \in 0 .. ehdr'.phnum
    BY <2>1, <2>2
  <2>4. DOMAIN mem' = DOMAIN mem /\ mem' = [a \in DOMAIN mem' |-> mem'[a]]
    BY <1>7, LoadedShape DEF LoadSegment
  <2>5. QED BY <2>1, <2>3, <2>4
<1>8. CASE FinishLoad
  BY <1>8 DEF FinishLoad, Return
<1>9. QED BY <1>1, <1>2, <1>3, <1>4, <1>5, <1>6, <1>7, <1>8 DEF BootStep

\* One segment of a sound file, loaded from the buffer.
LEMMA SegmentLoaded ==
  ASSUME BootShape, Sound, InBuffer, NEW k0 \in Segments
  PROVE  \A a \in DOMAIN mem :
           Loaded(mem, file[k0])[a] = IF Covers(file[k0], a) THEN CellOf(file[k0], a) ELSE mem[a]
<1> DEFINE p == file[k0]
           v == p.vaddr
           f == p.offset
           o == Buffer + f
           n == p.filesz
           m == p.memsz
           copied == memcpy(mem, v, o, n)
<1>1. /\ v \in Nat /\ f \in Nat /\ o \in Nat /\ n \in Nat /\ m \in Nat /\ Buffer \in Nat
      /\ Len(file) \in Nat
  <2>1. p \in ProgramHeaders
    BY SoundFile
  <2>2. QED BY <2>1, FileCells, RamCells, SMTT(30) DEF ProgramHeaders
<1>2. DOMAIN mem \subseteq Nat /\ DOMAIN file = 1 .. Len(file)
  BY FileCells, RamCells
<1>3. f + n <= Len(file) /\ n <= m
  BY DEF Sound
<1>4. o + n <= Buffer + Len(file) /\ o >= Buffer /\ o = Buffer + f
  BY <1>1, <1>3, SMTT(30)
<1>5. \A a \in Used : ~Covers(p, a)
  BY DEF Sound
<1>6. \A a : Covers(p, a) <=> a \in v .. (v + m - 1)
  BY DEF Covers
<1>7. \A a : CellOf(p, a) = IF a < v + n THEN file[f + (a - v) + 1] ELSE Zero
  BY DEF CellOf
<1>8. Loaded(mem, p) = IF m > n THEN memset(copied, v + n, m - n) ELSE copied
  BY DEF Loaded, BssStart
<1> HIDE DEF p, v, f, o, n, m
<1>9. \A k \in 0 .. (n - 1) : o + k \notin v .. (v + n - 1)
  <2> TAKE k \in 0 .. (n - 1)
  <2>1. o + k \in Used
    BY <1>1, <1>4 DEF Used
  <2>2. o + k \notin v .. (v + m - 1)
    BY <2>1, <1>5, <1>6
  <2>3. QED BY <2>2, <1>1, <1>3
<1>10. /\ DOMAIN copied = DOMAIN mem
       /\ \A a \in DOMAIN mem :
            copied[a] = IF a \in v .. (v + n - 1) THEN mem[o + (a - v)] ELSE mem[a]
  <2>1. v \in Nat /\ o \in Nat /\ n \in Nat
    BY <1>1
  <2>2. QED BY <2>1, <1>9, CopyApart
<1> HIDE DEF copied
<1>11. \A a \in v .. (v + n - 1) : mem[o + (a - v)] = CellOf(p, a)
  <2> TAKE a \in v .. (v + n - 1)
  <2> DEFINE k == f + (a - v) + 1
  <2>1. k \in 1 .. Len(file) /\ Buffer + k - 1 = o + (a - v) /\ a < v + n
    BY <1>1, <1>3, <1>4
  <2>2. mem[Buffer + k - 1] = file[k]
    BY <2>1, <1>2 DEF InBuffer
  <2>3. QED BY <2>1, <2>2, <1>7
<1>12. ASSUME NEW a \in DOMAIN mem
       PROVE  Loaded(mem, p)[a] = IF Covers(p, a) THEN CellOf(p, a) ELSE mem[a]
  <2>1. a \in Nat
    BY <1>2
  <2>2. CASE m > n
    <3>1. v + n + (m - n) = v + m
      BY <1>1
    <3>2. Loaded(mem, p)[a] = IF a \in (v + n) .. (v + m - 1) THEN Zero ELSE copied[a]
      <4>1. a \in DOMAIN copied
        BY <1>10
      <4>2. memset(copied, v + n, m - n)[a]
              = IF a \in (v + n) .. (v + n + (m - n) - 1) THEN Zero ELSE copied[a]
        BY <4>1 DEF memset
      <4>3. (v + n) .. (v + n + (m - n) - 1) = (v + n) .. (v + m - 1)
        <5>1. v + n + (m - n) - 1 = v + m - 1
          BY <1>1
        <5>2. QED BY <5>1
      <4>4. Loaded(mem, p) = memset(copied, v + n, m - n)
        BY <2>2, <1>8
      <4>5. QED BY <4>2, <4>3, <4>4
    <3>3. CASE a \in v .. (v + n - 1)
      <4>1. a \notin (v + n) .. (v + m - 1) /\ a \in v .. (v + m - 1)
        BY <3>3, <1>1, <1>3
      <4>2. QED BY <3>2, <3>3, <4>1, <1>6, <1>10, <1>11
    <3>4. CASE a \in (v + n) .. (v + m - 1)
      <4>1. a \in v .. (v + m - 1) /\ ~(a < v + n)
        BY <3>4, <1>1
      <4>2. QED BY <3>2, <3>4, <4>1, <1>6, <1>7
    <3>5. CASE a \notin v .. (v + m - 1)
      <4>1. a \notin (v + n) .. (v + m - 1) /\ a \notin v .. (v + n - 1)
        BY <3>5, <1>1, <1>3
      <4>2. QED BY <3>2, <3>5, <4>1, <1>6, <1>10
    <3>6. QED BY <3>3, <3>4, <3>5, <2>1, <1>1
  <2>3. CASE ~(m > n)
    <3>1. m = n /\ Loaded(mem, p) = copied
      BY <2>3, <1>1, <1>3, <1>8
    <3>2. QED BY <3>1, <1>6, <1>10, <1>11
  <2>4. QED BY <2>2, <2>3
<1>13. QED BY <1>12 DEF p

LEMMA SameFile ==
  ASSUME UNCHANGED <<file, ram>>
  PROVE  /\ Sound' = Sound /\ Used' = Used /\ Segments' = Segments
         /\ \A p, a : CellOf(p, a)' = CellOf(p, a)
<1>1. Used' = Used /\ Segments' = Segments
  BY DEF Used, Segments
<1>2. Sound' = Sound
  BY <1>1 DEF Sound
<1>3. QED BY <1>1, <1>2 DEF CellOf

\* The loop's next program header is the file's.
LEMMA HeaderRead ==
  ASSUME BootShape, Sound, InBuffer, pc = "load", ehdr = file[1], i < ehdr.phnum,
         Len(file) <= HeapRoom
  PROVE  /\ file[1].phoff + i + 1 \in DOMAIN file
         /\ ThisHeader = file[file[1].phoff + i + 1] /\ ThisHeader.kind = "phdr"
         /\ file[1].phoff \in Nat /\ i \in Nat
<1>1. file[1].phoff \in Nat /\ file[1].phnum \in Nat /\ i \in 0 .. file[1].phnum
  BY SoundFile DEF BootShape
<1>2. file[1].phoff + i + 1 \in (file[1].phoff + 1) .. (file[1].phoff + file[1].phnum)
  BY <1>1
<1>3. file[1].phoff + i + 1 \in DOMAIN file /\ file[file[1].phoff + i + 1].kind = "phdr"
  BY <1>2, SoundFile
<1>4. Buffer + (file[1].phoff + i + 1) - 1 = Buffer + file[1].phoff + i
  BY <1>1, RamCells
<1>5. (file[1].phoff + i) % UINT16 = file[1].phoff + i
  <2>1. Len(file) \in Nat /\ DOMAIN file = 1 .. Len(file)
    BY FileCells, SoundFile
  <2>2. file[1].phoff + i \in Nat /\ file[1].phoff + i < UINT16 /\ UINT16 \in Nat
    BY <1>1, <1>3, <2>1, BootAssumption
  <2>3. QED BY <2>2
<1>6. QED BY <1>1, <1>3, <1>4, <1>5 DEF InBuffer, ThisHeader

\* A header that is not PT_LOAD, and one that is.
LEMMA SkippedOne ==
  ASSUME BootShape, Sound, NEW n \in Nat, Placed(n),
         ~file[file[1].phoff + n + 1].load
  PROVE  Placed(n + 1)
<1>1. file[1].phoff \in Nat /\ Segments \subseteq Nat
  BY SoundFile
<1>2. \A k \in Segments : k # file[1].phoff + n + 1
  BY DEF Segments
<1>3. {k \in Segments : k <= file[1].phoff + (n + 1)} = {k \in Segments : k <= file[1].phoff + n}
  <2> DEFINE x == file[1].phoff
  <2>1. x \in Nat /\ \A k \in Segments : k \in Nat /\ k # x + n + 1
    BY <1>1, <1>2
  <2> HIDE DEF x
  <2>2. \A k \in Segments : k <= x + (n + 1) <=> k <= x + n
    BY <2>1
  <2>3. QED BY <2>2 DEF x
<1>4. QED BY <1>3 DEF Placed

LEMMA OneMore ==
  ASSUME BootShape, Sound, InBuffer, Len(file) <= HeapRoom, NEW n \in Nat, Placed(n),
         file[1].phoff + n + 1 \in Segments,
         UNCHANGED <<file, ram>>, mem' = Loaded(mem, file[file[1].phoff + n + 1])
  PROVE  InBuffer' /\ Placed(n + 1)'
<1> DEFINE k0 == file[1].phoff + n + 1
           Early == {k \in Segments : k <= file[1].phoff + n}
           Late == {k \in Segments : k <= file[1].phoff + (n + 1)}
<1>1. k0 \in Segments /\ mem' = Loaded(mem, file[k0])
  OBVIOUS
<1>2. \A a \in DOMAIN mem :
        mem'[a] = IF Covers(file[k0], a) THEN CellOf(file[k0], a) ELSE mem[a]
  BY <1>1, SegmentLoaded
<1>3. DOMAIN mem' = DOMAIN mem
  BY <1>1, LoadedShape
<1>4. Late = Early \cup {k0} /\ k0 \notin Early
  <2> DEFINE x == file[1].phoff
  <2>1. x \in Nat /\ (\A k \in Segments : k \in Nat) /\ k0 = x + n + 1
    BY SoundFile
  <2> HIDE DEF x, k0
  <2>2. \A k \in Segments : k <= x + (n + 1) <=> k <= x + n \/ k = k0
    BY <2>1
  <2>3. ~(k0 <= x + n)
    BY <2>1
  <2>4. QED BY <2>2, <2>3, <1>1 DEF x
<1>5. /\ \A a \in DOMAIN mem \ Used :
           IF \E k \in Early : Covers(file[k], a)
             THEN \E k \in Early : Covers(file[k], a) /\ mem[a] = CellOf(file[k], a)
             ELSE mem[a] = ram[a]
  BY DEF Placed
<1>6. /\ \A a \in Used : ~Covers(file[k0], a)
      /\ \A j \in Segments \ {k0}, a \in DOMAIN ram : ~(Covers(file[j], a) /\ Covers(file[k0], a))
  BY <1>1 DEF Sound
<1>7. Used' = Used /\ Segments' = Segments /\ \A p, a : CellOf(p, a)' = CellOf(p, a)
  BY SameFile
<1> HIDE DEF k0
<1>8. InBuffer'
  <2> SUFFICES ASSUME NEW k \in DOMAIN file PROVE mem'[Buffer + k - 1] = file[k]
    BY DEF InBuffer
  <2>1. Buffer + k - 1 \in Used /\ Buffer + k - 1 \in 0 .. (Buffer + HeapRoom)
    BY FileCells, RamCells DEF Used
  <2>2. Buffer + k - 1 \in DOMAIN mem
    BY <2>1, RamCells
  <2>3. QED BY <2>1, <2>2, <1>2, <1>6 DEF InBuffer
<1>9. ASSUME NEW a \in DOMAIN mem \ Used
      PROVE  IF \E k \in Late : Covers(file[k], a)
               THEN \E k \in Late : Covers(file[k], a) /\ mem'[a] = CellOf(file[k], a)
               ELSE mem'[a] = ram[a]
  <2>1. CASE Covers(file[k0], a)
    BY <2>1, <1>2, <1>4
  <2>2. CASE ~Covers(file[k0], a)
    <3>1. mem'[a] = mem[a]
      BY <2>2, <1>2
    <3>2. (\E k \in Late : Covers(file[k], a)) <=> (\E k \in Early : Covers(file[k], a))
      BY <2>2, <1>4
    <3>3. QED BY <3>1, <3>2, <1>4, <1>5
  <2>3. QED BY <2>1, <2>2
<1>10. Placed(n + 1)'
  <2>1. \A p, a : Covers(p, a)' = Covers(p, a)
    BY DEF Covers
  <2>2. QED BY <1>3, <1>7, <1>9, <2>1 DEF Placed, CellOf
<1>11. QED BY <1>8, <1>10

LEMMA LoadKept == ASSUME BootShape, LoadOK, BootStep PROVE LoadOK'
<1> USE DEF LoadOK
<1>1. CASE StartCard
  BY <1>1 DEF StartCard, LoadsImage
<1>2. CASE Mount
  BY <1>2 DEF Mount, LoadsImage
<1>3. CASE OpenFile
  BY <1>3 DEF OpenFile, LoadsImage
<1>4. CASE Allocate
  <2>1. pc = "malloc" /\ mem = ram /\ UNCHANGED <<file, ram, size>>
    BY <1>4 DEF Allocate
  <2>2. CASE Granted
    <3>1. pc' = "fat32_read" /\ clean' = clean
          /\ mem' = IF size < HeapRoom THEN [mem EXCEPT ![Buffer + size] = HeapCell] ELSE mem
      BY <1>4, <2>2 DEF Allocate
    <3>2. clean => Elsewhere'
      <4> SUFFICES ASSUME clean, NEW a \in DOMAIN mem', a \notin Used PROVE mem'[a] = ram[a]
        BY <2>1, SameFile DEF Elsewhere
      <4>1. size = Len(file)
        BY <2>1
      <4>2. Buffer + size \in Used
        BY <4>1, FileCells, RamCells DEF Used
      <4>3. QED BY <4>2, <2>1, <3>1
    <3>3. QED BY <2>1, <3>1, <3>2 DEF LoadsImage
  <2>3. CASE ~Granted
    <3>1. pc' = "running" /\ clean' = FALSE
      BY <1>4, <2>3 DEF Allocate, Return
    <3>2. QED BY <3>1 DEF LoadsImage
  <2>4. QED BY <2>2, <2>3
<1>5. CASE ReadFile
  <2>1. PICK n \in 0 .. size :
          /\ mem' = [a \in DOMAIN mem |-> IF a \in Buffer .. (Buffer + n - 1)
                                            THEN file[a - Buffer + 1] ELSE mem[a]]
          /\ clean' = (clean /\ n = size)
    BY <1>5 DEF ReadFile
  <2>2. pc = "fat32_read" /\ pc' = "check" /\ UNCHANGED <<file, ram, size>>
    BY <1>5 DEF ReadFile
  <2>3. ASSUME clean' PROVE size = Len(file) /\ Elsewhere' /\ InBuffer'
    <3>1. clean /\ n = size /\ size = Len(file) /\ Elsewhere /\ size <= HeapRoom
      BY <2>1, <2>2, <2>3 DEF BootShape
    <3>2. Buffer \in Nat /\ n \in Nat /\ DOMAIN file = 1 .. n /\ n <= HeapRoom /\ HeapRoom \in Nat
      BY <3>1, FileCells, RamCells
    <3>3. Elsewhere'
      <4> SUFFICES ASSUME NEW a \in DOMAIN mem', a \notin Used PROVE mem'[a] = ram[a]
        BY <2>2, SameFile DEF Elsewhere
      <4>1. a \in DOMAIN mem /\ mem[a] = ram[a]
        BY <2>1, <3>1 DEF Elsewhere
      <4>2. a \notin Buffer .. (Buffer + n - 1)
        <5>1. Used = Buffer .. (Buffer + n)
          BY <3>1 DEF Used
        <5>2. QED BY <5>1, <3>2
      <4>3. QED BY <4>1, <4>2, <2>1
    <3>4. InBuffer'
      <4> SUFFICES ASSUME NEW k \in 1 .. n PROVE mem'[Buffer + k - 1] = file[k]
        BY <2>2, <3>2 DEF InBuffer
      <4> DEFINE a == Buffer + k - 1
      <4>1. a \in 0 .. (Buffer + HeapRoom) /\ a \in Buffer .. (Buffer + n - 1) /\ a - Buffer + 1 = k
        BY <3>2
      <4>2. a \in DOMAIN mem
        BY <4>1, RamCells
      <4> HIDE DEF a
      <4>3. mem'[a] = file[k]
        BY <2>1, <4>1, <4>2
      <4>4. QED BY <4>3 DEF a
    <3>5. QED BY <3>1, <3>3, <3>4
  <2>4. QED BY <2>2, <2>3 DEF LoadsImage
<1>6. CASE CheckHeader
  <2>1. pc = "check" /\ UNCHANGED <<file, ram, mem, size, i, clean>>
    BY <1>6 DEF CheckHeader
  <2>2. clean /\ Sound => mem[Buffer] = file[1] /\ Executable(file[1])
    <3>1. SUFFICES ASSUME clean, Sound PROVE mem[Buffer] = file[1] /\ Executable(file[1])
      OBVIOUS
    <3>2. 1 \in DOMAIN file /\ Executable(file[1]) /\ Buffer + 1 - 1 = Buffer
      BY <3>1, SoundFile, RamCells
    <3>3. mem[Buffer + 1 - 1] = file[1]
      BY <2>1, <3>1, <3>2 DEF InBuffer
    <3>4. QED BY <3>2, <3>3
  <2>3. CASE Executable(mem[Buffer])
    <3>1. pc' = "load" /\ ehdr' = mem[Buffer]
      BY <1>6, <2>3 DEF CheckHeader
    <3>2. i' = 0 /\ Sound' = Sound /\ InBuffer' = InBuffer
      BY <2>1, SameFile DEF BootShape, InBuffer
    <3>3. clean /\ Sound => Placed(0)'
      <4> SUFFICES ASSUME clean, Sound PROVE Placed(0)'
        OBVIOUS
      <4>1. Placed(0)
        <5> DEFINE x == file[1].phoff
        <5>1. x \in Nat /\ \A k \in Segments : k \in Nat /\ k >= x + 1
          BY SoundFile
        <5> HIDE DEF x
        <5>2. \A k \in Segments : ~(k <= x + 0)
          BY <5>1
        <5>3. {k \in Segments : k <= file[1].phoff + 0} = {}
          BY <5>2 DEF x
        <5>4. Elsewhere
          BY <2>1
        <5>5. QED BY <5>3, <5>4 DEF Placed, Elsewhere
      <4>2. QED BY <4>1, <2>1 DEF Placed, Segments, Used, CellOf, Covers
    <3>4. QED BY <2>1, <2>2, <3>1, <3>2, <3>3 DEF LoadsImage
  <2>4. CASE ~Executable(mem[Buffer])
    <3>1. pc' = "running" /\ ~(clean /\ Sound)
      BY <1>6, <2>2, <2>4 DEF CheckHeader, Return
    <3>2. Sound' = Sound
      BY <2>1, SameFile
    <3>3. QED BY <2>1, <3>1, <3>2 DEF LoadsImage
  <2>5. QED BY <2>3, <2>4
<1>7. CASE LoadSegment
  <2>1. /\ pc = "load" /\ i < ehdr.phnum /\ pc' \in {"load", "wild"}
        /\ UNCHANGED <<file, ram, size, ehdr, clean>>
    BY <1>7 DEF LoadSegment
  <2>2. SUFFICES ASSUME clean, Sound PROVE InBuffer' /\ (pc' = "load" => Placed(i)')
    <3>1. Sound' = Sound
      BY <2>1, SameFile
    <3>2. QED BY <2>1, <2>2, <3>1 DEF LoadsImage
  <2>3. ehdr = file[1] /\ InBuffer /\ Placed(i) /\ size = Len(file) /\ size <= HeapRoom
    BY <2>1, <2>2 DEF BootShape
  <2> DEFINE k0 == file[1].phoff + i + 1
  <2>4. k0 \in DOMAIN file /\ ThisHeader = file[k0] /\ file[k0].kind = "phdr" /\ i \in Nat
    BY <2>1, <2>2, <2>3, HeaderRead
  <2>5. CASE file[k0].load
    <3>1. mem' = Loaded(mem, file[k0]) /\ i' = i + 1
      BY <1>7, <2>4, <2>5 DEF LoadSegment, NextHeader
    <3>2. k0 \in Segments
      BY <2>4, <2>5 DEF Segments
    <3>3. PICK n \in Nat : n = i
      BY <2>4
    <3>4. InBuffer' /\ Placed(n + 1)'
      BY <2>1, <2>2, <2>3, <3>1, <3>2, <3>3, OneMore
    <3>5. QED BY <3>1, <3>3, <3>4 DEF Placed
  <2>6. CASE ~file[k0].load
    <3>1. mem' = mem /\ i' = i + 1
      BY <1>7, <2>4, <2>6 DEF LoadSegment, NextHeader
    <3>2. Placed(i + 1)
      BY <2>2, <2>3, <2>4, <2>6, SkippedOne
    <3>3. InBuffer' /\ Placed(i)'
      BY <2>1, <2>3, <3>1, <3>2 DEF InBuffer, Placed, Segments, Used, CellOf, Covers
    <3>4. QED BY <3>3
  <2>7. QED BY <2>5, <2>6
<1>8. CASE FinishLoad
  <2>1. /\ pc = "load" /\ pc' = "running" /\ entry' = ehdr.entry /\ i >= ehdr.phnum
        /\ UNCHANGED <<file, ram, mem, clean>>
    BY <1>8 DEF FinishLoad, Return
  <2>2. ASSUME clean, Sound
        PROVE  /\ entry' = file[1].entry
               /\ \A a \in DOMAIN mem \ Used :
                    IF \E k \in Segments : Covers(file[k], a)
                      THEN \E k \in Segments : Covers(file[k], a) /\ mem[a] = CellOf(file[k], a)
                      ELSE mem[a] = ram[a]
    <3>1. ehdr = file[1] /\ Placed(i)
      BY <2>1, <2>2
    <3> DEFINE x == file[1].phoff
               y == file[1].phnum
    <3>2. x \in Nat /\ y \in Nat /\ i \in 0 .. y /\ \A k \in Segments : k \in (x + 1) .. (x + y)
      BY <2>1, <2>2, <3>1, SoundFile DEF BootShape
    <3>3. i = y
      BY <2>1, <3>1, <3>2
    <3> HIDE DEF x, y
    <3>4. \A k \in Segments : k <= x + i
      BY <3>2, <3>3
    <3>5. {k \in Segments : k <= file[1].phoff + i} = Segments
      BY <3>4 DEF x
    <3>6. QED BY <2>1, <3>1, <3>5 DEF Placed
  <2>3. Sound' = Sound /\ Used' = Used /\ Segments' = Segments
        /\ \A p, a : CellOf(p, a)' = CellOf(p, a)
    BY <2>1, SameFile
  <2>4. LoadsImage'
    BY <2>1, <2>2, <2>3 DEF LoadsImage, Covers, CellOf
  <2>5. QED BY <2>1, <2>4
<1>9. QED BY <1>1, <1>2, <1>3, <1>4, <1>5, <1>6, <1>7, <1>8 DEF BootStep

LEMMA BootLeft == ASSUME BootOK, ProgramReturns \/ Shutdown PROVE BootOK'
  BY DEF BootOK, BootShape, LoadOK, LoadsImage, ProgramReturns, Shutdown

LEMMA BootSame == ASSUME BootOK, UNCHANGED bootVars PROVE BootOK'
<1>1. UNCHANGED <<file, ram, mem, mounted, clean, size, pc, i, ehdr, entry>>
  BY DEF bootVars
<1>2. Sound' = Sound
  BY <1>1, SameFile
<1>3. LoadsImage'
  BY <1>1, <1>2 DEF BootOK, LoadOK, LoadsImage, Used, Segments, Covers, CellOf
<1>4. BootShape'
  BY <1>1 DEF BootOK, BootShape
<1>5. InBuffer' = InBuffer /\ Elsewhere' = Elsewhere /\ Placed(i)' = Placed(i)
  BY <1>1 DEF InBuffer, Elsewhere, Placed, Used, Segments, Covers, CellOf
<1>6. LoadOK'
  BY <1>1, <1>2, <1>3, <1>5 DEF BootOK, LoadOK
<1>7. QED BY <1>4, <1>6 DEF BootOK

LEMMA StartSame == ASSUME StartOK, UNCHANGED startVars PROVE StartOK'
<1>1. UNCHANGED <<at, done, asked, ready, warm, masked, tick, sram, dma, clock, nap, early>>
  BY DEF startVars
<1>2. StartShape' /\ PowerOK' /\ DataOK'
  BY <1>1 DEF StartOK, StartShape, PowerOK, DataOK, InMemcpy
<1>3. NapOK'
  BY <1>1, NapSame DEF StartOK
<1>4. QED BY <1>2, <1>3 DEF StartOK

----------------------------------------------------------------------------
(***************************************************************************)
(* The board.                                                              *)
(***************************************************************************)
LEMMA InitInv == Init => Inv
<1> SUFFICES ASSUME Init PROVE Inv
  OBVIOUS
<1>1. StartOK /\ SvcOK /\ BootOK
  BY StartInitOK, SvcInitOK, BootInitOK DEF Init
<1>2. pc = "SDInit" /\ mode = "thread"
  BY DEF Init, BootInit, SvcInit
<1>3. QED BY <1>1, <1>2 DEF Inv

LEMMA Ticking == ASSUME StartOK, at = "started" PROVE tick
  BY DEF StartOK, StartShape, PowerOK

LEMMA NextInv == ASSUME Inv, Next PROVE Inv'
<1> USE DEF Inv
<1>1. CASE Starting
  <2>1. mode = "thread" /\ StartStep /\ UNCHANGED bootVars /\ UNCHANGED svcVars
    BY <1>1 DEF Starting, Thread
  <2>2. StartOK' /\ SvcOK' /\ BootOK'
    BY <2>1, StartKept, SvcSame, BootSame
  <2>3. pc' = pc /\ mode' = "thread" /\ (at = "started" => at' = "started")
    BY <2>1 DEF bootVars, svcVars, StartStep, dma_transfer_start, dma_transfer_await, CopyDone,
                ReadLow, ReadHigh, ZeroBss, Ask, Await, InitDevices
  <2>4. QED BY <2>2, <2>3
<1>2. CASE Booting
  <2>1. mode = "thread" /\ at = "started" /\ BootStep /\ UNCHANGED startVars /\ UNCHANGED svcVars
    BY <1>2 DEF Booting, Thread
  <2>2. StartOK' /\ SvcOK' /\ BootOK'
    BY <2>1, StartSame, SvcSame, BootShapeKept, LoadKept DEF BootOK
  <2>3. at' = "started" /\ mode' = "thread"
    BY <2>1 DEF startVars, svcVars
  <2>4. QED BY <2>2, <2>3
<1>3. CASE Handling
  <2>1. SvcStep /\ UNCHANGED bootVars /\ UNCHANGED startVars
    BY <1>3 DEF Handling
  <2>2. StartOK' /\ SvcOK' /\ BootOK'
    BY <2>1, StartSame, SvcHandled, BootSame
  <2>3. mode = "svc" /\ pc' = pc /\ at' = at /\ tick' = tick /\ masked' = masked
    BY <2>1 DEF bootVars, startVars, SvcStep
  <2>4. QED BY <2>2, <2>3
<1>4. CASE Call
  <2>1. InProgram /\ UNCHANGED bootVars /\ UNCHANGED startVars
    BY <1>4 DEF Call
  <2>2. at = "started" /\ tick /\ pc = "running"
    BY <2>1, Ticking DEF InProgram
  <2>3. pc' = pc /\ at' = at /\ tick' = tick /\ masked' = masked
    BY <2>1 DEF bootVars, startVars
  <2>4. StartOK' /\ BootOK'
    BY <2>1, StartSame, BootSame
  <2>5. PICK n \in Numbers, text \in Texts : \E count \in 0 .. Len(text) :
          \/ ~masked /\ svc(n, text, count)
          \/ masked /\ defaultHandler /\ UNCHANGED <<regs, stack, call, fifo, due, before>>
    BY <1>4 DEF Call
  <2>6. PICK count \in 0 .. Len(text) :
          \/ ~masked /\ svc(n, text, count)
          \/ masked /\ defaultHandler /\ UNCHANGED <<regs, stack, call, fifo, due, before>>
    BY <2>5
  <2>7. CASE ~masked /\ svc(n, text, count)
    <3>1. SvcOK'
      BY <2>7, SvcCalled
    <3>2. QED BY <2>2, <2>3, <2>4, <2>7, <3>1
  <2>8. CASE masked /\ defaultHandler /\ UNCHANGED <<regs, stack, call, fifo, due, before>>
    <3>1. SvcOK' /\ mode' = "default"
      BY <2>8, SvcFault DEF defaultHandler
    <3>2. QED BY <2>2, <2>3, <2>4, <3>1
  <2>9. QED BY <2>6, <2>7, <2>8
<1>5. CASE LeaveProgram \/ ShutDown
  <2>1. /\ mode = "thread" /\ (ProgramReturns \/ Shutdown)
        /\ UNCHANGED startVars /\ UNCHANGED svcVars
    BY <1>5 DEF LeaveProgram, ShutDown, InProgram, Thread
  <2>2. StartOK' /\ SvcOK' /\ BootOK'
    BY <2>1, StartSame, SvcSame, BootLeft
  <2>3. at' = at /\ mode' = "thread" /\ pc # "SDInit"
    BY <2>1 DEF startVars, svcVars, ProgramReturns, Shutdown
  <2>4. QED BY <2>2, <2>3
<1>6. CASE SysTick
  <2>1. /\ defaultHandler /\ UNCHANGED <<regs, stack, call, fifo, due, before>>
        /\ UNCHANGED bootVars /\ UNCHANGED startVars
    BY <1>6 DEF SysTick
  <2>2. StartOK' /\ SvcOK' /\ BootOK'
    BY <2>1, StartSame, SvcFault, BootSame
  <2>3. at' = at /\ pc' = pc /\ mode' = "default"
    BY <2>1 DEF startVars, bootVars, defaultHandler
  <2>4. QED BY <2>2, <2>3
<1>7. CASE Devices
  <2>1. CASE Hardware /\ UNCHANGED bootVars /\ UNCHANGED svcVars
    <3>1. StartOK' /\ SvcOK' /\ BootOK'
      BY <2>1, StartKept, SvcSame, BootSame
    <3>2. pc' = pc /\ mode' = mode /\ at' = at /\ tick' = tick /\ masked' = masked
      BY <2>1 DEF bootVars, svcVars, Hardware, Respond, MoveByte, TimerTick
    <3>3. QED BY <3>1, <3>2
  <2>2. CASE Transmit /\ UNCHANGED bootVars /\ UNCHANGED startVars
    <3>1. StartOK' /\ SvcOK' /\ BootOK'
      BY <2>2, StartSame, SvcSent, BootSame
    <3>2. pc' = pc /\ mode' = mode /\ at' = at /\ tick' = tick /\ masked' = masked
      BY <2>2 DEF bootVars, startVars, Transmit
    <3>3. QED BY <3>1, <3>2
  <2>3. QED BY <1>7, <2>1, <2>2 DEF Devices
<1>8. QED BY <1>1, <1>2, <1>3, <1>4, <1>5, <1>6, <1>7 DEF Next, CPU

LEMMA SameInv == ASSUME Inv, UNCHANGED vars PROVE Inv'
<1>1. UNCHANGED bootVars /\ UNCHANGED startVars /\ UNCHANGED svcVars
  BY DEF vars
<1>2. StartOK' /\ SvcOK' /\ BootOK'
  BY <1>1, StartSame, SvcSame, BootSame DEF Inv
<1>3. pc' = pc /\ mode' = mode /\ at' = at /\ tick' = tick /\ masked' = masked
  BY <1>1 DEF bootVars, startVars, svcVars
<1>4. QED BY <1>2, <1>3 DEF Inv

\* The parts of the board keep their invariants.
THEOREM InvAlways == Spec => []Inv
<1>1. Inv /\ [Next]_vars => Inv'
  BY NextInv, SameInv
<1>2. QED BY InitInv, <1>1, PTL DEF Spec

(***************************************************************************)
(* What the invariant says of the properties that the run checks.          *)
(***************************************************************************)
LEMMA InvTypes == ASSUME Inv PROVE TypeOK
<1>1. BootTypeOK
  <2>1. BootShape
    BY DEF Inv, BootOK
  <2>2. pc \in {"fat32_read", "check", "load"} => size \in 0 .. HeapRoom
    BY <2>1, FileCells, RamCells DEF BootShape
  <2>3. QED BY <2>1, <2>2 DEF BootTypeOK, BootShape
<1>2. StartTypeOK
  <2>1. StartShape /\ NapOK
    BY DEF Inv, StartOK
  <2>2. dma.left \in 0 .. (IF dma.job = "old" THEN OldLeft ELSE Whole(DataSize))
    BY <2>1, Sizes DEF StartShape
  <2>3. clock.now \in 0 .. (TimeHalf * TimeHalf - 1)
        /\ nap.low + clock.latch * TimeHalf \in 0 .. (TimeHalf * TimeHalf - 1)
    <3>1. /\ clock.now \in 0 .. (Period - 1)
          /\ clock.latch * TimeHalf + nap.low \in 0 .. (Period - 1)
          /\ clock.latch \in Nat /\ nap.low \in Nat /\ clock.latch * TimeHalf \in Nat
      BY <2>1, NapTypes, Sizes DEF readTime, timeHR
    <3>2. QED BY <3>1 DEF Period
  <2>4. DOMAIN sram = 0 .. (DataSize + BssSize - 1) /\ done \in 0 .. Len(Order)
    BY <2>1, OrderIs DEF StartShape
  <2>5. at \in {"copy", "copying", "zero", "ask", "await", "started"}
        /\ ready \subseteq asked /\ asked \subseteq Blocks /\ {warm, masked, tick} \subseteq BOOLEAN
    BY <2>1 DEF StartShape, Places
  <2>6. QED BY <2>2, <2>3, <2>4, <2>5 DEF StartTypeOK
<1>3. SvcTypeOK
  <2>1. SvcOK
    BY DEF Inv
  <2>2. call.phase \in {"idle", "entry", "puts"} /\ call.result \in Nat \cup {-2}
    BY <2>1, CallFields
  <2>3. /\ call.phase = "idle" => Len(stack) = 0
        /\ call.phase = "entry" => Len(stack) = 8
        /\ call.phase = "puts" => Len(stack) = 9
    BY <2>1, FrameWords DEF SvcOK
  <2>4. Len(fifo) \in 0 .. UART_FIFO
    BY <2>1, SvcAssumption DEF SvcOK
  <2>5. QED BY <2>1, <2>2, <2>3, <2>4 DEF SvcTypeOK, SvcOK
<1>4. QED BY <1>1, <1>2, <1>3 DEF Inv, TypeOK

LEMMA InvData == ASSUME Inv PROVE DataReady
<1>1. StartShape /\ DataOK
  BY DEF Inv, StartOK
<1>2. ~InMemcpy => dma.left = 0
  BY <1>1 DEF DataOK
<1>3. ~InMemcpy /\ warm => \A a \in 0 .. (Whole(DataSize) - 1) : sram[a] = "image"
  <2> SUFFICES ASSUME ~InMemcpy, warm PROVE \A a \in 0 .. (Whole(DataSize) - 1) : sram[a] = "image"
    OBVIOUS
  <2>1. at # "copy" /\ dma.left = 0 /\ Whole(DataSize) - dma.left - 1 = Whole(DataSize) - 1
    BY <1>2, Sizes DEF InMemcpy
  <2>2. QED BY <1>1, <2>1 DEF DataOK
<1>4. QED BY <1>1, <1>3 DEF DataReady, DataOK, InMemcpy

LEMMA InvBalanced == ASSUME Inv PROVE CallBalanced
<1> SUFFICES ASSUME mode = "thread" PROVE stack = <<>> /\ [regs EXCEPT !.r0 = before.r0] = before
  BY DEF CallBalanced
<1>1. stack = <<>> /\ regs = before /\ Registers(before)
  BY DEF Inv, SvcOK
<1>2. [before EXCEPT !.r0 = before.r0] = before
  BY <1>1 DEF Registers
<1>3. QED BY <1>1, <1>2

(***************************************************************************)
(* For every value of the constants, and whatever interleaves:             *)
(***************************************************************************)

\* The CPU, its devices, the loader and the handler of the system calls stay
\* within their types (resetHandler to do_syscall).
THEOREM TypeCorrect == Spec => []TypeOK
  BY InvAlways, InvTypes, PTL

\* memcpy and memset of resetHandler leave .bss zero and, on a board whose DMA was
\* out of reset, .data in place, up to whole words.
THEOREM SectionsReady == Spec => []DataReady
  BY InvAlways, InvData, PTL

\* SystemInit, resetSubsys and the drivers' set-up use no block of the chip before
\* it has answered, but for the DMA of resetHandler's memcpy.
THEOREM BlocksReady == Spec => []NothingEarly
<1>1. Inv => NothingEarly
  BY DEF Inv, StartOK, PowerOK, NothingEarly
<1>2. QED BY InvAlways, <1>1, PTL

\* loadELF puts every sound executable in place whenever the calls it makes work.
THEOREM ImagesLoaded == Spec => []LoadsImage
<1>1. Inv => LoadsImage
  BY DEF Inv, BootOK, LoadOK
<1>2. QED BY InvAlways, <1>1, PTL

\* do_syscall and uartTx send exactly the bytes the program asked for, in order.
THEOREM OutputKept == Spec => []OutputRight
<1>1. Inv => OutputRight
  BY DEF Inv, SvcOK
<1>2. QED BY InvAlways, <1>1, PTL

\* svCallHandler gives the program its stack and its registers back.
THEOREM CallsBalanced == Spec => []CallBalanced
  BY InvAlways, InvBalanced, PTL

\* usleep sees at least as many ticks as it was asked to wait, for a timer of any
\* width that is read in two halves.
THEOREM SleepsLong == Spec => SleepsEnough
<1> DEFINE Long == nap # Awake /\ nap' = Awake => nap.ticks >= Pause
<1>1. ASSUME Inv, [Next]_vars PROVE [Long]_startVars
  <2> SUFFICES ASSUME startVars' # startVars, nap # Awake, nap' = Awake PROVE nap.ticks >= Pause
    OBVIOUS
  <2>1. StartStep \/ Hardware
    BY <1>1 DEF vars, Next, CPU, Starting, Booting, Handling, Call, LeaveProgram, ShutDown,
                SysTick, Devices
  <2>2. NapOK /\ nap.phase # "awake"
    BY <1>1 DEF Inv, StartOK, NapOK
  <2>3. nap'.phase = "awake" /\ nap'.phase # nap.phase
    BY <2>2 DEF Awake
  <2>4. ReadHigh
    <3>1. nap' = nap \/ nap'.phase \in {"low", "high"} \/ nap'.phase = nap.phase \/ ReadHigh
      BY <2>1, <2>2 DEF StartStep, Hardware, dma_transfer_start, dma_transfer_await, CopyDone,
                   ReadLow, ZeroBss, Ask, Await, InitDevices, Respond, MoveByte, TimerTick,
                   NapOK, Awake
    <3>2. QED BY <2>3, <3>1
  <2>5. nap.phase = "high" /\ nap.old # -1
        /\ ~((readTime - nap.old) % (TimeHalf * TimeHalf) < Pause)
    BY <2>2, <2>3, <2>4 DEF ReadHigh, NapOK
  <2>6. QED BY <2>2, <2>5, NapLong DEF Period
<1>2. QED BY InvAlways, <1>1, PTL DEF Spec, SleepsEnough
=============================================================================
