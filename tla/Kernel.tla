------------------------------- MODULE Kernel -------------------------------
(***************************************************************************)
(* The board from its reset on: Startup, then Boot, then the program with  *)
(* its system calls, and SysTick, which SystemInit enables and for which   *)
(* the vector table has only the default handler.                          *)
(***************************************************************************)
EXTENDS Boot, Startup, Syscall

vars == <<bootVars, startVars, svcVars>>

Init == BootInit /\ StartInit /\ SvcInit

Thread == mode = "thread"

\* A program that was loaded is running.
InProgram == Thread /\ pc = "running" /\ clean /\ ehdr # NoHeader

Starting == Thread /\ StartStep /\ UNCHANGED <<bootVars, svcVars>>
Booting == Thread /\ at = "started" /\ BootStep /\ UNCHANGED <<startVars, svcVars>>
Handling == SvcStep /\ UNCHANGED <<bootVars, startVars>>

\* An svc that the mask keeps out escalates to a HardFault.
Call ==
  /\ InProgram
  /\ \E n \in Numbers, text \in Texts : \E count \in 0 .. Len(text) :
       \/ ~masked /\ svc(n, text, count)
       \/ masked /\ defaultHandler /\ UNCHANGED <<regs, stack, call, fifo, due, before>>
  /\ UNCHANGED <<bootVars, startVars>>

LeaveProgram == InProgram /\ ProgramReturns /\ UNCHANGED <<startVars, svcVars>>
ShutDown == Thread /\ Shutdown /\ UNCHANGED <<startVars, svcVars>>

\* SysTick's exception, due every 10 ms, is taken between two steps of the thread:
\* the SVC's priority is higher, and a mask holds it back.
SysTick ==
  /\ Thread /\ tick /\ ~masked
  /\ defaultHandler
  /\ UNCHANGED <<regs, stack, call, fifo, due, before>>
  /\ UNCHANGED <<bootVars, startVars>>

Devices == \/ Hardware /\ UNCHANGED <<bootVars, svcVars>>
           \/ Transmit /\ UNCHANGED <<bootVars, startVars>>

CPU == Starting \/ Booting \/ Handling

Next == CPU \/ Call \/ LeaveProgram \/ ShutDown \/ SysTick \/ Devices

Spec == Init /\ [][Next]_vars

\* The CPU executes, blocks answer, bytes and ticks move on; a pending SysTick
\* waits for the end of a system call at most.
FairSpec ==
  /\ Spec
  /\ WF_vars(CPU)
  /\ WF_vars(Respond /\ UNCHANGED <<bootVars, svcVars>>)
  /\ WF_vars(MoveByte /\ UNCHANGED <<bootVars, svcVars>>)
  /\ WF_vars(TimerTick /\ UNCHANGED <<bootVars, svcVars>>)
  /\ WF_vars(Transmit /\ UNCHANGED <<bootVars, startVars>>)
  /\ SF_vars(SysTick)

(***************************************************************************)
(* Properties.                                                             *)
(***************************************************************************)

\* The types of the parts; a system call only of a program that was loaded, and
\* the card only once its controller is set up.
TypeOK ==
  /\ BootTypeOK /\ StartTypeOK /\ SvcTypeOK
  /\ pc # "SDInit" => at = "started"
  /\ mode = "svc" => pc = "running" /\ tick /\ ~masked

\* The kernel starts a program or stops, or an exception has ended it: whatever
\* fails on the way, whatever the file holds, and in whatever order the blocks of
\* the chip come up.  A load that reads garbage for a program header ("wild"), which
\* is not followed further, counts as an end.
BootEnds == <>(pc \in {"stopped", "running", "wild"} \/ mode = "default")

\* With interrupts on, the kernel and its program end in the default handler,
\* within a tick of SysTick and for good: SystemInit starts SysTick
\* (system_rp2040.c:61) and no handler is linked for it (startup_rp2040.c:27).
TickIsFinal == (tick /\ ~masked) ~> [](mode = "default")
=============================================================================
