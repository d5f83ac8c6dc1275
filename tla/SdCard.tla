------------------------------- MODULE SdCard -------------------------------
(***************************************************************************)
(* The SD card driver of src/lib/sd/SD.c over the SPI controller that      *)
(* src/driver/spi/spi.c drives.  Three parties act on their own: the       *)
(* driver, which puts bytes into the transmit FIFO and takes bytes from    *)
(* the receive FIFO; the controller, which clocks one byte out and one     *)
(* byte in (Shift) and drops what finds the receive FIFO full; the card.   *)
(* The driver never empties the receive FIFO, so the byte it reads was     *)
(* clocked in several transfers ago.                                       *)
(*                                                                         *)
(* spi_send_byte and spi_read_byte are one step each; what the driver does *)
(* between two of them belongs to the first.  A command's bytes are        *)
(* symbols, of which the last one (crc) makes the card act.                *)
(***************************************************************************)
EXTENDS Integers, Sequences

CONSTANTS
  FIFO,        \* depth of either FIFO, 8 on the RP2040
  CMD_ARGS,    \* command bytes in front of the crc, 5
  IDLE_BYTES,  \* dummy bytes before the first command, 10
  R1_TRIES,    \* read_r1_response's timeout, 0xFF
  TOKEN_TRIES, \* read_data_block's timeout, 0xFFFF
  OP_TRIES,    \* acmd41_timeout, 5000
  BUSY_TRIES,  \* bound of the two polling loops of a write
  BLOCK,       \* SD_BLOCK_SIZE, 512
  TAIL,        \* bytes of an R7 or OCR behind its R1, 4
  Blocks,      \* the card's contents: block address |-> its bytes
  Slices       \* the <<offset, length>> callers pass to sdReadPartialBlock

\* On the board the polling loops of a write are longer than the FIFOs together.
ASSUME SdAssumption ==
  /\ {FIFO, R1_TRIES, TOKEN_TRIES, OP_TRIES, BUSY_TRIES, BLOCK, TAIL, IDLE_BYTES}
       \subseteq Nat \ {0}
  /\ TAIL >= 2 /\ CMD_ARGS \in Nat /\ BUSY_TRIES > 2 * FIFO
  /\ \A a \in DOMAIN Blocks : Blocks[a] \in Seq(0 .. 255) /\ Len(Blocks[a]) = BLOCK
  /\ \A s \in Slices : s[1] \in Nat /\ s[2] \in Nat /\ s[1] + s[2] <= BLOCK

VARIABLES
  tx,    \* transmit FIFO, symbols
  rx,    \* receive FIFO, bytes
  card,  \* what the card has to say: a sequence of answers, each in one piece
  drv,   \* the driver's call in progress, or the last one
  upset  \* history: an answer came too late, or a byte of one was dropped

vars == <<tx, rx, card, drv, upset>>

FF == 255
TOKEN == 254

(***************************************************************************)
(* The driver, as a record: pc; whether it selects the card (the GPIO of   *)
(* CS); the bytes still to send and where to go then; the command and the  *)
(* public call it belongs to; loop counters; the caller's buffer.          *)
(***************************************************************************)
Dummy == [sym |-> "ff", cmd |-> "", a |-> 0]
Arg   == [sym |-> "arg", cmd |-> "", a |-> 0]
Crc(cmd, a) == [sym |-> "crc", cmd |-> cmd, a |-> a]
WriteEnd == [sym |-> "end", cmd |-> "", a |-> 0]

Repeat(b, n) == [i \in 1 .. n |-> b]

Fresh == [pc |-> "idle", cs |-> FALSE, call |-> "none", cmd |-> "", a |-> 0, slice |-> <<0, 0>>,
         out |-> <<>>, then |-> "", owe |-> FALSE, byte |-> FF,
         tries |-> 0, rounds |-> 0, i |-> 0, buf |-> <<>>, ok |-> FALSE]

\* d sends the bytes out and goes on at pc then.
Send(d, out, then) == [d EXCEPT !.pc = "send", !.out = out, !.then = then]

SDSendCommand(d, cmd) ==
  [Send(d, Repeat(Arg, CMD_ARGS) \o <<Crc(cmd, d.a), Dummy>>, "r1")
     EXCEPT !.cs = TRUE, !.cmd = cmd, !.tries = R1_TRIES, !.i = 0, !.buf = <<>>]

\* deassertCS, at once, with what may still be in the FIFOs; then a dummy clock.
Deassert(d, ok, then) == [Send(d, <<Dummy>>, then) EXCEPT !.cs = FALSE, !.ok = ok, !.tries = 0]

\* The call returns ok; only the level of CS outlives it.
Return(d, ok) == [Fresh EXCEPT !.cs = d.cs, !.ok = ok]

(***************************************************************************)
(* Where the driver goes when it has read b and sent the dummy after it.   *)
(***************************************************************************)

\* read_r1_response returned b.
GotR1(d, b) ==
  CASE d.cmd = "CMD17" ->
         IF b = 0 THEN [d EXCEPT !.pc = "token", !.tries = TOKEN_TRIES]
                  ELSE Deassert(d, FALSE, "idle")
    [] d.cmd = "CMD24" ->
         IF b = 0 THEN Send([d EXCEPT !.tries = BUSY_TRIES],
                            Repeat(Arg, 1 + BLOCK + 1) \o <<WriteEnd>>, "resp")
                  ELSE Deassert(d, FALSE, "idle")
    [] d.cmd = "CMD0" /\ d.call = "SDInit" ->
         IF b = 1 THEN SDSendCommand(d, "CMD8") ELSE Deassert(d, FALSE, "idle")
    [] d.cmd = "CMD0" /\ d.call = "SDShutdown" ->
         IF b = 1 THEN Deassert(d, TRUE, "idle") ELSE Return(d, FALSE)
    [] d.cmd = "CMD8" ->
         IF b = 1 THEN [d EXCEPT !.pc = "tail"] ELSE Deassert(d, FALSE, "idle")
    [] d.cmd = "CMD55" ->
         Deassert(d, FALSE, IF b = 1 THEN "ACMD41" ELSE "idle")
    [] d.cmd = "ACMD41" ->
         IF b = 0 THEN Deassert(d, FALSE, "CMD58")
         ELSE Deassert([d EXCEPT !.rounds = @ - 1], FALSE,
                       IF d.rounds > 1 THEN "CMD55" ELSE "idle")
    [] d.cmd = "CMD58" ->
         IF b = 0 THEN [d EXCEPT !.pc = "tail"] ELSE Deassert(d, FALSE, "idle")

\* r7_data[2] == 0x01 && r7_data[3] == 0xAA: voltage and pattern are echoed.
Echoed(r7) == r7[TAIL - 1] = 1 /\ r7[TAIL] = 170

\* ocr_data[0] & 0x40.
HighCapacity(ocr) == (ocr[1] \div 64) % 2 = 1

\* The R7 or OCR is complete.  SDInit succeeds with the card still selected.
GotTail(d) ==
  IF d.cmd = "CMD8"
    THEN Deassert(d, FALSE, IF Echoed(d.buf) THEN "CMD55" ELSE "idle")
    ELSE IF HighCapacity(d.buf) THEN Return(d, TRUE) ELSE Deassert(d, FALSE, "idle")

\* Mutant: the first byte of the slice is discarded.
WantedLate(d) == d.slice[1] < d.i /\ d.i < d.slice[1] + d.slice[2]

Wanted(d) == d.slice[1] <= d.i /\ d.i < d.slice[1] + d.slice[2]

\* Mutant: the data loop ends with the block and leaves the checksum unread.
BlockReadNoCrc(d) == d.i = BLOCK

BlockRead(d) == d.i = BLOCK + 2

\* Mutant: a loop does not count its tries.
RetryUncounted(d) == d

Retry(d) == [d EXCEPT !.tries = @ - 1]

\* One turn of the loop d is in.
Decide(d) ==
  LET b == d.byte
  IN  CASE d.pc = "r1" ->
             IF b = FF /\ d.tries > 1 THEN Retry(d) ELSE GotR1(d, b)
        [] d.pc = "token" ->
             IF b = FF /\ d.tries > 1 THEN Retry(d)
             ELSE IF d.tries = 1 \/ b # TOKEN THEN Deassert(d, FALSE, "idle")
             ELSE [d EXCEPT !.pc = "data", !.i = 0]
        [] d.pc = "data" ->
             LET e == [d EXCEPT !.i = @ + 1, !.buf = IF Wanted(d) THEN Append(@, b) ELSE @]
             IN  IF BlockRead(e) THEN Deassert(e, TRUE, "idle") ELSE e
        [] d.pc = "tail" ->
             LET e == [d EXCEPT !.i = @ + 1, !.buf = Append(@, b)]
             IN  IF e.i = TAIL THEN GotTail(e) ELSE e

\* A loop gave up: what the card answers now answers nobody.
GaveUp(d) == d.pc \in {"r1", "token"} /\ d.tries = 1 /\ (d.byte = FF \/ d.pc = "token")

(***************************************************************************)
(* Steps of the driver.                                                    *)
(***************************************************************************)
Call(d) ==
  /\ drv.pc = "idle"
  /\ drv' = d
  /\ UNCHANGED <<tx, rx, card, upset>>

SDInit == Call(Send([Fresh EXCEPT !.call = "SDInit", !.rounds = OP_TRIES],
                    Repeat(Dummy, IDLE_BYTES), "CMD0"))

SDShutdown == Call(SDSendCommand([Fresh EXCEPT !.call = "SDShutdown"], "CMD0"))

Read(a, s) == SDSendCommand([Fresh EXCEPT !.call = "read", !.a = a, !.slice = s], "CMD17")
sdReadBlock(a) == Call(Read(a, <<0, BLOCK>>))
sdReadPartialBlock(a, s) == Call(Read(a, s))

sdWriteBlock(a) == Call(SDSendCommand([Fresh EXCEPT !.call = "write", !.a = a], "CMD24"))

Reading == drv.pc \in {"r1", "token", "data", "tail"}

\* Where the driver is once the last byte of d.out is in the FIFO.
Arrive(d) ==
  IF d.then \in {"CMD0", "CMD8", "CMD55", "ACMD41", "CMD58"}
    THEN SDSendCommand(d, d.then)
    ELSE IF d.then = "idle" THEN Return(d, d.ok)
    ELSE [d EXCEPT !.pc = d.then]

\* Mutant: no wait for room in the transmit FIFO.
RoomUnchecked == TRUE

Room == Len(tx) < FIFO

\* Mutant: a byte read is not followed by a dummy byte that clocks in another.
ClockNot(t) == t

Clock(t) == Append(t, Dummy)

\* spi_send_byte: waits while the transmit FIFO is full.
spi_send_byte ==
  /\ Room
  /\ \/ /\ drv.pc = "send"
        /\ tx' = Append(tx, Head(drv.out))
        /\ LET d == [drv EXCEPT !.out = Tail(@)]
           IN  drv' = IF d.out = <<>> THEN Arrive(d) ELSE d
        /\ UNCHANGED upset
     \/ /\ drv.owe
        /\ tx' = Clock(tx)
        /\ drv' = [Decide(drv) EXCEPT !.owe = FALSE, !.byte = FF]
        /\ upset' = (upset \/ GaveUp(drv))
  /\ UNCHANGED <<rx, card>>

\* spi_read_byte: waits while the receive FIFO is empty.
spi_read_byte ==
  /\ Reading /\ ~drv.owe
  /\ rx # <<>>
  /\ drv' = [drv EXCEPT !.byte = Head(rx), !.owe = TRUE]
  /\ rx' = Tail(rx)
  /\ UNCHANGED <<tx, card, upset>>

\* The two loops at the end of sdWriteBlock read without sending anything.
PollWrite ==
  /\ drv.pc \in {"resp", "busy"}
  /\ rx # <<>>
  /\ LET b == Head(rx)
         d == [drv EXCEPT !.tries = @ - 1]
         next == IF drv.pc = "resp"
                   THEN IF b = FF /\ d.tries > 0 THEN d
                        ELSE IF b % 32 = 5 THEN [d EXCEPT !.pc = "busy", !.tries = BUSY_TRIES]
                        ELSE Deassert(d, FALSE, "idle")
                   ELSE IF b # 0 THEN Deassert(d, TRUE, "idle")
                        ELSE IF d.tries > 0 THEN d
                        ELSE Deassert(d, FALSE, "idle")
     IN  drv' = next
  /\ rx' = Tail(rx)
  /\ UNCHANGED <<tx, card, upset>>

Driver == spi_send_byte \/ spi_read_byte \/ PollWrite

(***************************************************************************)
(* The controller and the card.                                            *)
(***************************************************************************)

\* The end of an R7: of a card that works at the voltage, that does not, or whose
\* answer is damaged.
Echoes == {<<1, 170>>, <<0, 170>>, <<1, 1>>}

\* The answers to a command: an R1, and what follows it in one piece or later.
Answers(s) ==
  CASE s.cmd = "CMD0" -> {<< <<1>> >>, << <<4>> >>}
    [] s.cmd = "CMD8" -> {<< <<1>> \o Repeat(0, TAIL - 2) \o v >> : v \in Echoes}
                         \cup {<< <<5>> >>}
    [] s.cmd = "CMD55" -> {<< <<1>> >>, << <<5>> >>}
    [] s.cmd = "ACMD41" -> {<< <<0>> >>, << <<1>> >>}
    [] s.cmd = "CMD58" -> {<< <<0, v>> \o Repeat(0, TAIL - 1) >> : v \in {192, 128}}
                          \cup {<< <<5>> >>}
    [] s.cmd = "CMD17" -> {<< <<0>>, <<TOKEN>> \o Blocks[s.a] \o <<17, 34>> >>,
                           << <<0>>, <<8>> >>, << <<4>> >>}
    [] s.cmd = "CMD24" -> {<< <<0>> >>, << <<4>> >>}

Quiet == [q |-> <<>>, mid |-> FALSE]

\* The card after it has said the next byte of its first answer.
Said ==
  IF Len(Head(card.q)) = 1
    THEN [q |-> Tail(card.q), mid |-> FALSE]
    ELSE [q |-> <<Tail(Head(card.q))>> \o Tail(card.q), mid |-> TRUE]

\* What may come in while a byte goes out.  The card waits as long as it likes
\* before an answer, and not within one; deselected it says nothing and forgets.
Turns ==
  IF ~drv.cs THEN {[in |-> FF, said |-> FALSE, next |-> Quiet]}
  ELSE {t \in {[in |-> FF, said |-> FALSE, next |-> card]} : ~card.mid}
       \cup (IF card.q = <<>> THEN {}
             ELSE {[in |-> Head(Head(card.q)), said |-> TRUE, next |-> Said]})

\* The card c when symbol s has reached it.
Listen(s, c) ==
  IF ~drv.cs THEN {c}
  ELSE IF s.sym = "crc" THEN {[q |-> a, mid |-> FALSE] : a \in Answers(s)}
  ELSE IF s.sym = "end" THEN {[q |-> << <<5, 0>> >>, mid |-> TRUE]}
  ELSE {c}

\* The controller exchanges one byte.
Shift ==
  /\ tx # <<>>
  /\ tx' = Tail(tx)
  /\ \E t \in Turns :
       /\ rx' = IF Len(rx) < FIFO THEN Append(rx, t.in) ELSE rx
       /\ upset' = (upset \/ (t.said /\ Len(rx) = FIFO))
       /\ card' \in Listen(Head(tx), t.next)
  /\ UNCHANGED drv

Init ==
  /\ tx = <<>> /\ rx = <<>>
  /\ card = Quiet
  /\ drv = Fresh
  /\ upset = FALSE

Next ==
  \/ SDInit \/ SDShutdown
  \/ \E a \in DOMAIN Blocks : sdReadBlock(a) \/ sdWriteBlock(a)
  \/ \E a \in DOMAIN Blocks, s \in Slices : sdReadPartialBlock(a, s)
  \/ Driver
  \/ Shift

Spec == Init /\ [][Next]_vars
FairSpec == Spec /\ WF_vars(Driver) /\ WF_vars(Shift)

(***************************************************************************)
(* Properties.                                                             *)
(***************************************************************************)

\* The FIFOs keep to their depth and every field of the driver to its type.
TypeOK ==
  /\ Len(tx) \in 0 .. FIFO /\ Len(rx) \in 0 .. FIFO
  /\ drv.pc \in {"idle", "send", "r1", "token", "data", "tail", "resp", "busy"}
  /\ drv.owe => Reading
  /\ (drv.pc = "send") = (drv.out # <<>>)
  /\ drv.tries \in Nat /\ drv.rounds \in 0 .. OP_TRIES
  /\ upset \in BOOLEAN

\* No call but sdWriteBlock ever waits for a byte that nothing will clock in:
\* dropped bytes included, there is one in a FIFO for every read.
NeverStarves == Reading /\ ~drv.owe => tx # <<>> \/ rx # <<>>

\* When a command is about to reach the card, nothing that is still in the
\* receive FIFO, or that the card has yet to say, could be taken for its answer.
NoStaleAnswer ==
  ~upset /\ drv.pc = "send" /\ drv.then = "r1" /\ Len(drv.out) > 1 =>
    card.q = <<>> /\ \A i \in DOMAIN rx : rx[i] = FF

\* A read that is about to return true has put the bytes of the block it was asked for
\* into the buffer, however the three parties interleave, unless an answer was
\* late or the receive FIFO dropped a byte of one (which the driver ignores).
ReadRight ==
  drv.call = "read" /\ drv.ok /\ ~upset =>
    drv.buf = SubSeq(Blocks[drv.a], drv.slice[1] + 1, drv.slice[1] + drv.slice[2])

\* Every call but sdWriteBlock returns, with a card that never answers too.
CallsReturn == (drv.pc # "idle" /\ drv.call # "write") ~> drv.pc = "idle"

\* How far a call is from its end: the commands ahead, with the rounds of ACMD41;
\* the stage of the command; what is left to send, to try or to read there.
InitCommands == {"CMD0", "CMD8", "CMD55", "ACMD41", "CMD58"}
Current(d) == IF d.pc = "send" /\ d.then \in InitCommands THEN d.then ELSE d.cmd
Ahead(d) ==
  CASE Current(d) = "CMD0" -> 2 * OP_TRIES + 4
    [] Current(d) = "CMD8" -> 2 * OP_TRIES + 3
    [] Current(d) = "CMD55" -> 2 * d.rounds + 2
    [] Current(d) = "ACMD41" -> 2 * d.rounds + 1
    [] OTHER -> 0
Stage(d) ==
  CASE d.pc = "send" /\ d.then \in InitCommands -> 6
    [] d.pc = "send" /\ d.then = "r1" -> 5
    [] d.pc = "r1" -> 4
    [] d.pc = "token" \/ (d.pc = "send" /\ d.then = "resp") -> 3
    [] d.pc \in {"data", "tail", "resp"} -> 2
    [] d.pc = "busy" -> 1
    [] OTHER -> 0
Remaining(d) ==
  LET unread == IF d.owe THEN 0 ELSE 1
  IN  CASE d.pc = "send" -> Len(d.out)
        [] d.pc \in {"r1", "token"} -> 2 * d.tries + unread
        [] d.pc = "data" -> 2 * (BLOCK + 2 - d.i) + unread
        [] d.pc = "tail" -> 2 * (TAIL - d.i) + unread
        [] OTHER -> d.tries

\* e is nearer to the end of the call than d.
Nearer(e, d) ==
  /\ Remaining(e) \in Nat
  /\ \/ Ahead(e) < Ahead(d)
     \/ Ahead(e) = Ahead(d) /\ Stage(e) < Stage(d)
     \/ Ahead(e) = Ahead(d) /\ Stage(e) = Stage(d) /\ Remaining(e) < Remaining(d)

\* Every byte that the driver sends or reads brings its call nearer to its end,
\* whatever the card says or does not say: no loop goes round without being counted,
\* so that a call, sdWriteBlock too, can hang only where it waits for a FIFO.
CallsAdvance == [][Driver /\ drv'.pc # "idle" => Nearer(drv', drv)]_vars

\* What the comment at SD.c:244 says, "Timeout occurred": a write to a card
\* that stays busy, or says nothing, gives up.
WriteReturns == (drv.call = "write") ~> drv.pc = "idle"
=============================================================================
