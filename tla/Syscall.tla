------------------------------- MODULE Syscall -------------------------------
(***************************************************************************)
(* A program's system call: write of libc, svCallHandler and do_syscall of *)
(* src/kernel/syscall.c, and the polled UART output behind them.           *)
(*                                                                         *)
(* The stack is a sequence with its top last.  The hardware pushes a frame *)
(* of eight words when it takes the exception and pops it when the handler *)
(* branches to EXC_RETURN.  A word is a record; the address behind the     *)
(* instruction "svc n" is the word Behind(n), from which the handler reads *)
(* n back.  Nothing in the kernel sets CONTROL, so every frame is on the   *)
(* main stack.                                                             *)
(***************************************************************************)
EXTENDS Integers, Sequences, SequencesExt

CONSTANTS
  Numbers,     \* the numbers programs put into an svc
  Texts,       \* the texts they write
  UART_FIFO    \* the depth of the transmit FIFO

ASSUME SvcAssumption ==
  /\ UART_FIFO \in Nat \ {0} /\ Numbers \subseteq 0 .. 255
  /\ \A t \in Texts : t \in Seq({t[k] : k \in DOMAIN t})

VARIABLES
  mode,     \* what the CPU executes: "thread", "svc" or "default", its handlers
  regs,     \* the program's r0 to r3, r12, lr, pc and xpsr
  stack,    \* the main stack from the program's top of stack up
  call,     \* the handler's progress
  fifo,     \* the UART's transmit FIFO
  due,      \* history: the output asked for that has not left the UART
  before    \* history: the program's registers at its last svc

svcVars == <<mode, regs, stack, call, fifo, due, before>>

SYS_WRITE == 1
Number(n) == [number |-> n]
Behind(n) == [behind |-> n]
Saved(r) == [saved |-> r]
EXC_RETURN == [exc_return |-> "MSP"]

\* What do_syscall says of a number it does not know, as one symbol.
Unknown == "unknown"

Idle == [phase |-> "idle", rest |-> <<>>, result |-> 0]

SvcInit ==
  /\ mode = "thread"
  /\ regs = [r0 |-> Saved("r0"), r1 |-> Saved("r1"), r2 |-> Saved("r2"), r3 |-> Saved("r3"),
             r12 |-> Saved("r12"), lr |-> Saved("lr"), pc |-> Saved("pc"), xpsr |-> Saved("xpsr")]
  /\ before = regs
  /\ stack = <<>> /\ call = Idle /\ fifo = <<>> /\ due = <<>>

\* startup_rp2040.c: every exception but the reset and the SVC goes to a handler
\* that never returns.
\* Mutant: it does.
defaultHandlerReturns == mode' = "thread"

defaultHandler == mode' = "default"

Frame(r) == <<r.xpsr, r.pc, r.lr, r.r12, r.r3, r.r2, r.r1, r.r0>>

\* The output a call asks for.
Asked(n, text, count) == IF n = SYS_WRITE THEN SubSeq(text, 1, count) ELSE <<Unknown>>

\* write, or another call of the same shape: fd, the text and how much of it in
\* r0 to r2, then the svc.  The hardware stacks the frame.
svc(n, text, count) ==
  /\ mode = "thread" /\ mode' = "svc"
  /\ before' = [regs EXCEPT !.r0 = Saved("fd"), !.r1 = [text |-> text],
                            !.r2 = Number(count), !.pc = Behind(n)]
  /\ stack' = stack \o Frame(before')
  /\ call' = [Idle EXCEPT !.phase = "entry"]
  /\ due' = due \o Asked(n, text, count)
  /\ UNCHANGED <<regs, fifo>>

\* The word at offset w from the frame pointer, which was taken before lr was
\* pushed.
Stacked(s, w) == s[Len(s) - w]

\* The number in the instruction in front of the stacked pc.
SvcNumber(s) == Stacked(s, 6).behind

sys_write(text, count) ==
  [phase |-> "puts", rest |-> SubSeq(text, 1, count), result |-> count]

\* svCallHandler up to the call, and the dispatch of do_syscall.
do_syscall ==
  /\ call.phase = "entry"
  /\ call' = IF SvcNumber(stack) = SYS_WRITE
               THEN sys_write(Stacked(stack, 1).text, Stacked(stack, 2).number)
               ELSE [phase |-> "puts", rest |-> <<Unknown>>, result |-> -2]
  /\ stack' = Append(stack, EXC_RETURN)
  /\ UNCHANGED <<mode, regs, fifo, due, before>>

\* Mutant: the FIFO's full flag is not polled.
TxRoomUnchecked == TRUE

\* Mutant: it is polled the wrong way round.
TxRoomFull == Len(fifo) >= UART_FIFO

TxRoom == Len(fifo) < UART_FIFO

\* uartTx of the next byte of uart_puts or uartTxStr.  A full FIFO drops it.
uartTx ==
  /\ call.phase = "puts" /\ call.rest # <<>> /\ TxRoom
  /\ fifo' = IF Len(fifo) < UART_FIFO THEN Append(fifo, Head(call.rest)) ELSE fifo
  /\ call' = [call EXCEPT !.rest = Tail(@)]
  /\ UNCHANGED <<mode, regs, stack, due, before>>

\* The UART sends a byte.
Transmit ==
  /\ fifo # <<>> /\ fifo' = Tail(fifo) /\ due' = Tail(due)
  /\ UNCHANGED <<mode, regs, stack, call, before>>

\* The registers as the hardware takes them from the frame on top of s.
Unstacked(s) ==
  [r0 |-> Stacked(s, 0), r1 |-> Stacked(s, 1), r2 |-> Stacked(s, 2), r3 |-> Stacked(s, 3),
   r12 |-> Stacked(s, 4), lr |-> Stacked(s, 5), pc |-> Stacked(s, 6), xpsr |-> Stacked(s, 7)]

\* Mutant: the pushed EXC_RETURN is read and left on the stack.
PoppedNot(s) == s

Popped(s) == Front(s)

\* The result is stored at the address that is its own value: one that is not a
\* multiple of 4 faults; another is in the boot ROM or behind it, where a store
\* faults or has no effect.
StoreFaults ==
  /\ call.phase = "puts" /\ call.rest = <<>>
  /\ defaultHandler
  /\ UNCHANGED <<regs, stack, call, fifo, due, before>>

ReturnFromException ==
  /\ call.phase = "puts" /\ call.rest = <<>> /\ call.result % 4 = 0
  /\ LET s == Popped(stack)
     IN  regs' = Unstacked(s) /\ stack' = SubSeq(s, 1, Len(s) - 8)
  /\ mode' = "thread" /\ call' = [Idle EXCEPT !.result = call.result]
  /\ UNCHANGED <<fifo, due, before>>

SvcStep ==
  /\ mode = "svc"
  /\ do_syscall \/ uartTx \/ StoreFaults \/ ReturnFromException

(***************************************************************************)
(* Properties.                                                             *)
(***************************************************************************)

\* The UART and the handler hold, in order, exactly the output that the program
\* asked for and that has not left: no byte is lost at a full FIFO, repeated, or
\* taken from elsewhere because the frame was read at the wrong place.
OutputRight ==
  due = fifo \o (IF call.phase = "entry"
                   THEN Asked(before.pc.behind, before.r1.text, before.r2.number) ELSE call.rest)

\* When the program runs again its stack is where it was, it goes on behind its
\* svc, and every register but r0, the result, has the value it had.
CallBalanced ==
  mode = "thread" => stack = <<>> /\ [regs EXCEPT !.r0 = before.r0] = before

\* A system call returns to the program or ends in the handler of a fault.
CallsEnd == mode = "svc" ~> mode # "svc"

\* What write.c:18 says, "After SVC returns, R0 holds the syscall result", of the
\* calls whose result is the count.
ResultReturned ==
  mode = "thread" /\ before.pc = Behind(SYS_WRITE) => regs.r0 = Number(call.result)

\* The handler holds one frame and its own return address; a result is a count or
\* an error.
SvcTypeOK ==
  /\ mode \in {"thread", "svc", "default"}
  /\ Len(stack) = CASE call.phase = "idle" -> 0
                    [] call.phase = "entry" -> 8
                    [] OTHER -> 9
  /\ Len(fifo) \in 0 .. UART_FIFO
  /\ call.result \in Nat \cup {-2}
=============================================================================
