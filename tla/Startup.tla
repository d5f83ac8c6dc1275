------------------------------- MODULE Startup -------------------------------
(***************************************************************************)
(* From the reset to the first call of the card driver: resetHandler,      *)
(* SystemInit, resetSubsys, uart_init and spi_init, with the memcpy they   *)
(* use (a DMA transfer that is polled with usleep).                        *)
(*                                                                         *)
(* Of the hardware: a block is in reset until it is asked for, and answers *)
(* some time later; until then it reads as 0 and ignores what is written.  *)
(* The DMA moves its bytes, and the timer ticks, beside the CPU.  After a  *)
(* reset of the core alone (warm) every block answers, and the DMA channel *)
(* may still be busy with what it was given before.                        *)
(***************************************************************************)
EXTENDS Integers, Sequences

CONSTANTS
  WORDSIZE,   \* sizeof(uint32_t)
  DataSize,   \* the bytes of .data
  BssSize,    \* the bytes of .bss, which follows it
  OldLeft,    \* bound: the bytes an earlier transfer may have left to move
  TimeHalf,   \* the values of one half of the timer
  Pause,      \* the argument of usleep in dma_transfer_await
  MaxTicks    \* bound: the ticks of the timer during one usleep

ASSUME StartAssumption ==
  /\ {DataSize, BssSize, OldLeft} \subseteq Nat
  /\ {WORDSIZE, TimeHalf, Pause} \subseteq Nat \ {0}
  /\ MaxTicks \in Nat /\ MaxTicks >= Pause /\ Pause < TimeHalf * TimeHalf

VARIABLES
  at,       \* where the CPU is: see StartTypeOK
  done,        \* the blocks of Order that are done
  asked,    \* the blocks that were taken out of reset or switched on
  ready,    \* those of them that have answered
  warm,     \* the reset was one of the core alone
  masked,   \* PRIMASK, as the boot ROM left it: no code of the kernel sets it
  tick,     \* SysTick runs with its exception enabled
  sram,     \* .data and .bss: what each byte holds
  dma,      \* channel 0: the job and the bytes left to move
  clock,    \* the timer, and its upper half as latched by a read of the lower
  nap,      \* usleep in progress
  early     \* history: the blocks that were used before they had answered

startVars == <<at, done, asked, ready, warm, masked, tick, sram, dma, clock, nap, early>>

\* The blocks in the order they are waited for: the oscillator, the PLL, its
\* lock, the two clock switches and the timer by SystemInit, the rest by
\* resetSubsys.
Order == <<"XOSC", "PLL", "LOCK", "REF", "SYS", "TIMER", "IO", "PADS", "UART", "SPI", "DMA">>
Blocks == {Order[j] : j \in DOMAIN Order}

\* What switching on a block relies on.
Needs(b) == CASE b = "LOCK" -> {"XOSC", "PLL"}
              [] b = "REF" -> {"XOSC"}
              [] b = "SYS" -> {"LOCK"}
              [] b = "TIMER" -> {"REF"}
              [] OTHER -> {}

Awake == [phase |-> "awake", low |-> 0, old |-> -1, ticks |-> 0]

StartInit ==
  /\ at = "copy" /\ done = 0
  /\ warm \in BOOLEAN /\ masked \in BOOLEAN /\ tick = FALSE
  /\ asked = (IF warm THEN Blocks ELSE {}) /\ ready = asked
  /\ sram = [a \in 0 .. (DataSize + BssSize - 1) |-> "old"]
  /\ dma \in [job : {"old"}, left : 0 .. (IF warm THEN OldLeft ELSE 0)]
  /\ clock = [now |-> 0, latch |-> 0] /\ nap = Awake
  /\ early = {}

Use(bs) == early' = early \cup (bs \ ready)

(***************************************************************************)
(* memcpy and usleep.                                                      *)
(***************************************************************************)
\* The size of a section as resetHandler computes it, in whole words.
Whole(n) == (n \div WORDSIZE) * WORDSIZE

\* Mutant: the busy bit is looked for in the wrong place.
dma_channel_busyNever == FALSE

dma_channel_busy == "DMA" \in ready /\ dma.left > 0

\* A channel in reset ignores its registers, and one that is busy its trigger.
dma_channel_configure(n) ==
  IF "DMA" \in ready /\ dma.left = 0 THEN [job |-> "data", left |-> n] ELSE dma

\* dma_transfer_start, once the channel is free.
dma_transfer_start ==
  /\ at = "copy" /\ nap = Awake /\ ~dma_channel_busy
  /\ at' = "copying" /\ Use({"DMA"})
  /\ dma' = dma_channel_configure(Whole(DataSize))
  /\ UNCHANGED <<done, asked, ready, warm, masked, tick, sram, clock, nap>>

\* dma_transfer_await finds the channel busy and sleeps.
dma_transfer_await ==
  /\ at \in {"copy", "copying"} /\ nap = Awake /\ dma_channel_busy
  /\ nap' = [Awake EXCEPT !.phase = "low"]
  /\ \E t \in 0 .. (TimeHalf * TimeHalf - 1) : clock' = [clock EXCEPT !.now = t]
  /\ Use({"TIMER", "DMA"})
  /\ UNCHANGED <<at, done, asked, ready, warm, masked, tick, sram, dma>>

\* memcpy returns.
CopyDone ==
  /\ at = "copying" /\ nap = Awake /\ ~dma_channel_busy
  /\ at' = "zero"
  /\ UNCHANGED <<done, asked, ready, warm, masked, tick, sram, dma, clock, nap, early>>

\* readTime reads LR, which latches the upper half, ...
ReadLow ==
  /\ nap.phase = "low"
  /\ clock' = [clock EXCEPT !.latch = clock.now \div TimeHalf]
  /\ nap' = [nap EXCEPT !.phase = "high", !.low = clock.now % TimeHalf,
                        !.ticks = IF nap.old = -1 THEN 0 ELSE @]
  /\ UNCHANGED <<at, done, asked, ready, warm, masked, tick, sram, dma, early>>

\* Mutant: the upper half is read as it runs, from HW.
timeHRRunning == clock.now \div TimeHalf

timeHR == clock.latch

readTime == timeHR * TimeHalf + nap.low

\* ... and then HR.  The first time read is timeOld; the difference is unsigned.
ReadHigh ==
  /\ nap.phase = "high"
  /\ nap' = CASE nap.old = -1 -> [nap EXCEPT !.phase = "low", !.old = readTime]
              [] nap.old # -1 /\ (readTime - nap.old) % (TimeHalf * TimeHalf) < Pause
                   -> [nap EXCEPT !.phase = "low"]
              [] OTHER -> Awake
  /\ clock' = IF nap' = Awake THEN [now |-> 0, latch |-> 0] ELSE clock
  /\ UNCHANGED <<at, done, asked, ready, warm, masked, tick, sram, dma, early>>

(***************************************************************************)
(* The rest of resetHandler up to the card.                                *)
(***************************************************************************)
\* memset of .bss.
ZeroBss ==
  /\ at = "zero" /\ at' = "ask"
  /\ sram' = [a \in DOMAIN sram |->
                IF a \in DataSize .. (DataSize + Whole(BssSize) - 1) THEN "zero" ELSE sram[a]]
  /\ UNCHANGED <<done, asked, ready, warm, masked, tick, dma, clock, nap, early>>

\* SystemInit and resetSubsys switch on the next block ...
Ask ==
  /\ at = "ask" /\ done < Len(Order)
  /\ at' = "await" /\ asked' = asked \cup {Order[done + 1]}
  /\ Use(Needs(Order[done + 1]))
  /\ UNCHANGED <<done, ready, warm, masked, tick, sram, dma, clock, nap>>

\* Mutant: what was switched on is not waited for.
AnsweredUnasked(b) == TRUE

Answered(b) == b \in ready

\* ... and poll its status.  SystemInit ends by starting SysTick.
Await ==
  /\ at = "await" /\ Answered(Order[done + 1])
  /\ at' = "ask" /\ done' = done + 1
  /\ tick' = (tick \/ Order[done + 1] = "TIMER")
  /\ UNCHANGED <<asked, ready, warm, masked, sram, dma, clock, nap, early>>

\* The blocks whose registers the drivers' set-up writes.
uart_init == {"UART", "IO", "SYS"}
spi_init == {"SPI", "IO", "PADS"}

\* uart_init, the greeting, spi_init.
InitDevices ==
  /\ at = "ask" /\ done = Len(Order)
  /\ at' = "started"
  /\ Use(uart_init \cup spi_init)
  /\ UNCHANGED <<done, asked, ready, warm, masked, tick, sram, dma, clock, nap>>

StartStep == \/ dma_transfer_start \/ dma_transfer_await \/ CopyDone
             \/ ReadLow \/ ReadHigh \/ ZeroBss \/ Ask \/ Await \/ InitDevices

(***************************************************************************)
(* The hardware.                                                           *)
(***************************************************************************)
\* A block that was asked for answers.
Respond ==
  /\ \E b \in asked \ ready : ready' = ready \cup {b}
  /\ UNCHANGED <<at, done, asked, warm, masked, tick, sram, dma, clock, nap, early>>

\* The DMA moves a byte; those of an earlier transfer go elsewhere.
MoveByte ==
  /\ "DMA" \in ready /\ dma.left > 0
  /\ dma' = [dma EXCEPT !.left = @ - 1]
  /\ sram' = IF dma.job = "data"
               THEN [sram EXCEPT ![Whole(DataSize) - dma.left] = "image"] ELSE sram
  /\ UNCHANGED <<at, done, asked, ready, warm, masked, tick, clock, nap, early>>

\* The timer counts a microsecond of a sleep.
TimerTick ==
  /\ "TIMER" \in ready /\ nap # Awake /\ nap.ticks < MaxTicks
  /\ clock' = [clock EXCEPT !.now = (@ + 1) % (TimeHalf * TimeHalf)]
  /\ nap' = [nap EXCEPT !.ticks = @ + 1]
  /\ UNCHANGED <<at, done, asked, ready, warm, masked, tick, sram, dma, early>>

Hardware == Respond \/ MoveByte \/ TimerTick

(***************************************************************************)
(* Properties.                                                             *)
(***************************************************************************)

\* Past memcpy and memset, .bss is zero, and .data is there if the DMA block was
\* out of reset, whatever the channel had been doing before and however the
\* transfer, the polling and the sleeps between the polls interleave: as far as
\* the two sections are whole words, which is what resetHandler counts in.
DataReady ==
  /\ at \notin {"copy", "copying"} /\ warm =>
       \A a \in 0 .. (Whole(DataSize) - 1) : sram[a] = "image"
  /\ at \notin {"copy", "copying", "zero"} =>
       \A a \in DataSize .. (DataSize + Whole(BssSize) - 1) : sram[a] = "zero"

\* resetHandler, SystemInit, resetSubsys and the drivers use no block of the chip
\* before it has answered, in whatever order the blocks come up; the exception is
\* the DMA of the first memcpy.
NothingEarly == early \subseteq {"DMA"}

\* usleep never returns before its time, although the timer is read in halves
\* and may carry, or wrap, between the reads: it sees at least Pause ticks after
\* its first look at the timer.
SleepsEnough == [][nap # Awake /\ nap' = Awake => nap.ticks >= Pause]_startVars

\* What the comment at startup_rp2040.c:118 says: "Copy .data section from FLASH
\* to SRAM", of the whole words of the section, which DataReady promises after a
\* warm start only.
DataCopied == at = "started" => \A a \in 0 .. (Whole(DataSize) - 1) : sram[a] = "image"

\* The places of the CPU, and a transfer no longer than what it is for.
StartTypeOK ==
  /\ at \in {"copy", "copying", "zero", "ask", "await", "started"}
  /\ done \in 0 .. Len(Order)
  /\ ready \subseteq asked /\ asked \subseteq Blocks
  /\ DOMAIN sram = 0 .. (DataSize + BssSize - 1)
  /\ dma.left \in 0 .. (IF dma.job = "old" THEN OldLeft ELSE Whole(DataSize))
  /\ {clock.now, nap.low + clock.latch * TimeHalf} \subseteq 0 .. (TimeHalf * TimeHalf - 1)
  /\ {warm, masked, tick} \subseteq BOOLEAN
=============================================================================
