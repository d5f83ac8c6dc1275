---------------------------- MODULE SdCardProofs ----------------------------
(***************************************************************************)
(* For every depth of the FIFOs, size of a block, length of a command and  *)
(* of the time-outs: a call of the SD card driver takes for its answer     *)
(* only what the card said to its command, and reads the block it asked    *)
(* for.                                                                    *)
(***************************************************************************)
EXTENDS SdCard, SequenceTheorems, TLAPS

(***************************************************************************)
(* The driver by itself: which command of which call it is at.             *)
(***************************************************************************)
Fields == {"pc", "cs", "call", "cmd", "a", "slice", "out", "then", "owe", "byte",
           "tries", "rounds", "i", "buf", "ok"}
Shaped(d) == DOMAIN d = Fields

Commands == InitCommands \cup {"CMD17", "CMD24"}

\* The command cmd belongs to the call.
Of(call, cmd) ==
  \/ call = "SDInit" /\ cmd \in InitCommands
  \/ call = "SDShutdown" /\ cmd = "CMD0"
  \/ call = "read" /\ cmd = "CMD17"
  \/ call = "write" /\ cmd = "CMD24"

Symbols ==
  {s \in [sym : {"ff", "arg", "crc", "end"}, cmd : Commands \cup {""}, a : {0} \cup DOMAIN Blocks] :
     s.sym = "crc" => s.cmd \in Commands /\ (s.cmd = "CMD17" => s.a \in DOMAIN Blocks)}

\* A command is under way, from its first byte to the R1.
Commanding(d) == d.pc = "r1" \/ (d.pc = "send" /\ d.then = "r1")
\* The bytes of a write are under way, or its response.
Writing(d) == d.pc \in {"resp", "busy"} \/ (d.pc = "send" /\ d.then = "resp")

Control(d) ==
  /\ Shaped(d)
  /\ d.pc \in {"idle", "send", "r1", "token", "data", "tail", "resp", "busy"}
  /\ d.cs \in BOOLEAN /\ d.owe \in BOOLEAN /\ d.ok \in BOOLEAN
  /\ d.tries \in Nat /\ d.rounds \in 0 .. OP_TRIES /\ d.a \in {0} \cup DOMAIN Blocks
  /\ d.out \in Seq(Symbols) /\ (d.pc = "send" <=> d.out # <<>>)
  /\ d.pc = "idle" => d.call = "none"
  /\ d.pc = "send" => d.then \in {"CMD0", "CMD55", "ACMD41", "CMD58", "r1", "resp", "idle"}
  /\ d.pc = "send" /\ d.then \in InitCommands => d.call = "SDInit"
  /\ d.pc \in {"r1", "token", "resp", "busy"} => d.tries > 0
  /\ Commanding(d) => d.cs /\ d.tries > 0 /\ Of(d.call, d.cmd)
  /\ Commanding(d) /\ Len(d.out) > 1 => d.out[Len(d.out) - 1].sym = "crc"
  /\ d.pc \in {"token", "data"} => d.cs /\ d.call = "read"
  /\ d.pc = "tail" => d.cs /\ d.call = "SDInit" /\ d.cmd \in {"CMD8", "CMD58"}
  /\ Writing(d) => d.cs /\ d.call = "write" /\ d.tries > 0
  /\ d.call = "SDInit" /\ ~(d.pc = "send" /\ d.then = "idle") => d.rounds > 0
  /\ d.call \in {"read", "write"} => d.a \in DOMAIN Blocks
  /\ d.call = "read" => d.slice \in Slices \cup {<<0, BLOCK>>}
  /\ d.call = "read" /\ d.ok => d.pc = "send" /\ d.then = "idle"

ControlOK ==
  /\ Control(drv) /\ (drv.owe => Reading)
  /\ tx \in Seq(Symbols) /\ Len(tx) <= FIFO
  /\ rx \in Seq(Int) /\ Len(rx) <= FIFO
  /\ upset \in BOOLEAN
  /\ NeverStarves

(***************************************************************************)
(* What the driver's steps leave in every field of its record.             *)
(***************************************************************************)
\* The fields of e outside S are those of d.
Same(e, d, S) == \A f \in Fields \ S : e[f] = d[f]

\* Send(d, out, then) changes pc, out and then.
LEMMA SendFields ==
  ASSUME NEW d, Shaped(d), NEW out, NEW then
  PROVE  /\ Shaped(Send(d, out, then)) /\ Same(Send(d, out, then), d, {"pc", "out", "then"})
         /\ Send(d, out, then).pc = "send" /\ Send(d, out, then).out = out
         /\ Send(d, out, then).then = then
BY DEF Send, Shaped, Fields, Same

\* The bytes of a command.
Bytes(cmd, a) == Repeat(Arg, CMD_ARGS) \o <<Crc(cmd, a), Dummy>>

\* SDSendCommand(d, cmd) starts a command from nothing.
Commanded(e, d, cmd) ==
  /\ Shaped(e)
  /\ e.pc = "send" /\ e.out = Bytes(cmd, d.a) /\ e.then = "r1" /\ e.cs = TRUE
  /\ e.cmd = cmd /\ e.tries = R1_TRIES /\ e.i = 0 /\ e.buf = <<>>
  /\ e.call = d.call /\ e.a = d.a /\ e.slice = d.slice /\ e.owe = d.owe /\ e.byte = d.byte
  /\ e.rounds = d.rounds /\ e.ok = d.ok

LEMMA CommandFields ==
  ASSUME NEW d, Shaped(d), NEW cmd
  PROVE  Commanded(SDSendCommand(d, cmd), d, cmd)
<1> DEFINE out == Bytes(cmd, d.a)
           e == SDSendCommand(d, cmd)
<1>1. e = [Send(d, out, "r1") EXCEPT !.cs = TRUE, !.cmd = cmd, !.tries = R1_TRIES, !.i = 0,
                                     !.buf = <<>>]
  BY DEF SDSendCommand, Bytes
<1> HIDE DEF out, e
<1>2. /\ Shaped(Send(d, out, "r1")) /\ Same(Send(d, out, "r1"), d, {"pc", "out", "then"})
      /\ Send(d, out, "r1").pc = "send" /\ Send(d, out, "r1").out = out
      /\ Send(d, out, "r1").then = "r1"
  BY SendFields
<1>3. /\ Shaped(e) /\ Same(e, d, {"pc", "out", "then", "cs", "cmd", "tries", "i", "buf"})
      /\ e.pc = "send" /\ e.out = out /\ e.then = "r1" /\ e.cs = TRUE
      /\ e.cmd = cmd /\ e.tries = R1_TRIES /\ e.i = 0 /\ e.buf = <<>>
  BY <1>1, <1>2 DEF Shaped, Fields, Same
<1>4. Commanded(e, d, cmd)  BY <1>3 DEF Commanded, Same, Fields, out
<1> QED  BY <1>4 DEF e

\* Deassert(d, ok, then) closes a command and sends one dummy byte.
Closed(e, d, ok, then) ==
  /\ Shaped(e)
  /\ e.pc = "send" /\ e.out = <<Dummy>> /\ e.then = then /\ e.cs = FALSE
  /\ e.ok = ok /\ e.tries = 0
  /\ e.call = d.call /\ e.a = d.a /\ e.slice = d.slice /\ e.owe = d.owe /\ e.byte = d.byte
  /\ e.rounds = d.rounds /\ e.cmd = d.cmd /\ e.i = d.i /\ e.buf = d.buf

LEMMA DeassertFields ==
  ASSUME NEW d, Shaped(d), NEW ok, NEW then
  PROVE  Closed(Deassert(d, ok, then), d, ok, then)
<1> DEFINE out == <<Dummy>>
           e == Deassert(d, ok, then)
<1>1. e = [Send(d, out, then) EXCEPT !.cs = FALSE, !.ok = ok, !.tries = 0]
  BY DEF Deassert
<1> HIDE DEF out, e
<1>2. /\ Shaped(Send(d, out, then)) /\ Same(Send(d, out, then), d, {"pc", "out", "then"})
      /\ Send(d, out, then).pc = "send" /\ Send(d, out, then).out = out
      /\ Send(d, out, then).then = then
  BY SendFields
<1>3. /\ Shaped(e) /\ Same(e, d, {"pc", "out", "then", "cs", "ok", "tries"})
      /\ e.pc = "send" /\ e.out = out /\ e.then = then /\ e.cs = FALSE
      /\ e.ok = ok /\ e.tries = 0
  BY <1>1, <1>2 DEF Shaped, Fields, Same
<1>4. Closed(e, d, ok, then)  BY <1>3 DEF Closed, Same, Fields, out
<1> QED  BY <1>4 DEF e

\* Return(d, ok) keeps the level of CS and nothing else.
Returned(e, d) ==
  /\ Shaped(e) /\ e.pc = "idle" /\ e.cs = d.cs /\ e.call = "none" /\ e.cmd = ""
  /\ e.a = 0 /\ e.slice = <<0, 0>> /\ e.out = <<>> /\ e.then = "" /\ e.owe = FALSE
  /\ e.byte = FF /\ e.tries = 0 /\ e.rounds = 0 /\ e.i = 0 /\ e.buf = <<>>

LEMMA ReturnFields ==
  ASSUME NEW d, NEW ok
  PROVE  Returned(Return(d, ok), d) /\ Return(d, ok).ok = ok
BY DEF Return, Fresh, Shaped, Fields, Returned

(***************************************************************************)
(* The driver by itself keeps to Control.                                  *)
(***************************************************************************)
LEMMA Joined ==
  ASSUME NEW S, NEW s \in Seq(S), NEW t \in Seq(S)
  PROVE  /\ s \o t \in Seq(S) /\ Len(s \o t) = Len(s) + Len(t)
         /\ \A j \in 1 .. (Len(s) + Len(t)) :
              (s \o t)[j] = IF j <= Len(s) THEN s[j] ELSE t[j - Len(s)]
OBVIOUS

LEMMA Shortened ==
  ASSUME NEW S, NEW s, s \in Seq(S), s # <<>>
  PROVE  /\ Head(s) \in S /\ Head(s) = s[1] /\ Tail(s) \in Seq(S) /\ Len(s) >= 1
         /\ Len(Tail(s)) = Len(s) - 1 /\ (Len(s) # 1 => Tail(s) # <<>>)
         /\ \A j \in 1 .. (Len(s) - 1) : Tail(s)[j] = s[j + 1]
<1>1. Len(s) \in Nat /\ Len(s) # 0  OBVIOUS
<1>2. Head(s) \in S /\ Head(s) = s[1] /\ Tail(s) \in Seq(S) /\ Len(Tail(s)) = Len(s) - 1
  BY <1>1
<1>3. \A j \in 1 .. (Len(s) - 1) : Tail(s)[j] = s[j + 1]
  BY <1>1
<1>4. Len(s) # 1 => Tail(s) # <<>>
  <2>1. Len(s) # 1 => Len(Tail(s)) # 0  BY <1>1, <1>2
  <2> QED  BY <2>1
<1> QED  BY <1>1, <1>2, <1>3, <1>4

LEMMA Widened ==
  ASSUME NEW s, s \in Seq(0 .. 255)
  PROVE  s \in Seq(Int)
<1>1. 0 .. 255 \subseteq Int  OBVIOUS
<1> QED  BY <1>1, SeqMonotonic

LEMMA BytesAre ==
  ASSUME NEW cmd \in Commands, NEW a \in {0} \cup DOMAIN Blocks, cmd = "CMD17" => a \in DOMAIN Blocks
  PROVE  /\ Bytes(cmd, a) \in Seq(Symbols) /\ Len(Bytes(cmd, a)) = CMD_ARGS + 2
         /\ \A j \in 1 .. CMD_ARGS : Bytes(cmd, a)[j] = Arg
         /\ Bytes(cmd, a)[CMD_ARGS + 1] = Crc(cmd, a) /\ Bytes(cmd, a)[CMD_ARGS + 2] = Dummy
<1>1. CMD_ARGS \in Nat  BY SdAssumption
<1>2. Arg \in Symbols /\ Dummy \in Symbols /\ Crc(cmd, a) \in Symbols
  BY DEF Arg, Dummy, Crc, Symbols, Commands, InitCommands
<1> DEFINE s == Repeat(Arg, CMD_ARGS)
           t == <<Crc(cmd, a), Dummy>>
<1>3. s \in Seq(Symbols) /\ Len(s) = CMD_ARGS /\ \A j \in 1 .. CMD_ARGS : s[j] = Arg
  BY <1>1, <1>2 DEF Repeat
<1>4. t \in Seq(Symbols) /\ Len(t) = 2 /\ t[1] = Crc(cmd, a) /\ t[2] = Dummy
  BY <1>2
<1> HIDE DEF s, t
<1>6. /\ s \o t \in Seq(Symbols) /\ Len(s \o t) = CMD_ARGS + 2
      /\ \A j \in 1 .. (CMD_ARGS + 2) :
           (s \o t)[j] = IF j <= CMD_ARGS THEN s[j] ELSE t[j - CMD_ARGS]
  <2>1. s \in Seq(Symbols) /\ t \in Seq(Symbols) /\ Len(s) = CMD_ARGS /\ Len(t) = 2
    BY <1>3, <1>4
  <2>2. /\ s \o t \in Seq(Symbols) /\ Len(s \o t) = Len(s) + Len(t)
        /\ \A j \in 1 .. (Len(s) + Len(t)) :
             (s \o t)[j] = IF j <= Len(s) THEN s[j] ELSE t[j - Len(s)]
    BY <2>1, Joined
  <2> QED  BY <2>1, <2>2
<1>7. CMD_ARGS + 1 - CMD_ARGS = 1 /\ CMD_ARGS + 2 - CMD_ARGS = 2  BY <1>1
<1>8. (s \o t)[CMD_ARGS + 1] = t[1] /\ (s \o t)[CMD_ARGS + 2] = t[2]
  BY <1>1, <1>6, <1>7, SMTT(30)
<1>9. \A j \in 1 .. CMD_ARGS : (s \o t)[j] = Arg
  BY <1>1, <1>3, <1>6
<1>5. /\ s \o t \in Seq(Symbols) /\ Len(s \o t) = CMD_ARGS + 2
      /\ \A j \in 1 .. CMD_ARGS : (s \o t)[j] = Arg
      /\ (s \o t)[CMD_ARGS + 1] = Crc(cmd, a) /\ (s \o t)[CMD_ARGS + 2] = Dummy
  BY <1>4, <1>6, <1>8, <1>9
<1> QED  BY <1>5 DEF s, t, Bytes

\* What a call knows of itself.
Basic(d) ==
  /\ Shaped(d) /\ d.owe \in BOOLEAN /\ d.rounds \in 0 .. OP_TRIES
  /\ d.a \in {0} \cup DOMAIN Blocks
  /\ d.call \in {"read", "write"} => d.a \in DOMAIN Blocks
  /\ d.call = "read" => d.slice \in Slices \cup {<<0, BLOCK>>}

LEMMA CommandControl ==
  ASSUME NEW d, Basic(d), d.ok \in BOOLEAN, NEW cmd, Of(d.call, cmd), d.call = "SDInit" => d.rounds > 0,
         ~(d.call = "read" /\ d.ok)
  PROVE  Control(SDSendCommand(d, cmd))
<1> DEFINE e == SDSendCommand(d, cmd)
<1>1. /\ cmd \in Commands /\ d.a \in {0} \cup DOMAIN Blocks /\ Shaped(d)
      /\ cmd = "CMD17" => d.a \in DOMAIN Blocks
  BY DEF Of, Commands, InitCommands, Basic
<1>2. Commanded(e, d, cmd)  BY <1>1, CommandFields
<1> HIDE DEF e
<1>3. CMD_ARGS \in Nat  BY SdAssumption
<1>4. /\ e.out \in Seq(Symbols) /\ Len(e.out) = CMD_ARGS + 2
      /\ e.out[CMD_ARGS + 1] = Crc(cmd, d.a)
  BY <1>1, <1>2, BytesAre, ZenonT(60) DEF Commanded
<1>5. e.out # <<>> /\ Len(e.out) - 1 = CMD_ARGS + 1
  BY <1>3, <1>4
<1>6. e.out[Len(e.out) - 1].sym = "crc"
  BY <1>4, <1>5 DEF Crc
<1>7. R1_TRIES \in Nat /\ R1_TRIES > 0  BY SdAssumption
<1>8. Control(e)
  BY <1>2, <1>4, <1>5, <1>6, <1>7 DEF Control, Basic, Commanded, Commanding, Writing, InitCommands
<1> QED  BY <1>8 DEF e

LEMMA DeassertControl ==
  ASSUME NEW d, Basic(d), NEW ok \in BOOLEAN,
         NEW then \in {"CMD0", "CMD55", "ACMD41", "CMD58", "idle"},
         then # "idle" => d.call = "SDInit" /\ d.rounds > 0
  PROVE  Control(Deassert(d, ok, then)) /\ Deassert(d, ok, then).pc = "send"
<1> DEFINE e == Deassert(d, ok, then)
<1>1. Shaped(d)  BY DEF Basic
<1>2. Closed(e, d, ok, then)  BY <1>1, DeassertFields
<1> HIDE DEF e
<1>3. Dummy \in Symbols  BY DEF Dummy, Symbols
<1>4. <<Dummy>> \in Seq(Symbols) /\ <<Dummy>> # <<>>
  BY <1>3
<1>5. e.cs \in BOOLEAN /\ e.owe \in BOOLEAN /\ e.ok \in BOOLEAN
  BY <1>2, Zenon DEF Basic, Closed
<1>6. Control(e) /\ e.pc = "send"
  BY <1>2, <1>4, <1>5 DEF Basic, Control, Closed, Commanding, Writing, InitCommands
<1> QED  BY <1>6 DEF e

LEMMA ReturnControl ==
  ASSUME NEW d, d.cs \in BOOLEAN, NEW e, Returned(e, d), e.ok \in BOOLEAN
  PROVE  Control(e)
<1>1. 0 \in 0 .. OP_TRIES /\ <<>> \in Seq(Symbols)  BY SdAssumption
<1>2. e.cs \in BOOLEAN /\ e.owe \in BOOLEAN
  BY Zenon DEF Returned
<1>3. /\ Shaped(e) /\ e.pc = "idle" /\ e.call = "none" /\ e.out = <<>>
      /\ e.a = 0 /\ e.tries = 0 /\ e.rounds = 0
  BY DEF Returned
<1>4. e.a \in {0} \cup DOMAIN Blocks /\ e.tries \in Nat
  BY <1>3
<1> QED
  BY <1>1, <1>2, <1>3, <1>4 DEF Control, Commanding, Writing, InitCommands

\* A change of the fields that Control says little of.
LEMMA StepControl ==
  ASSUME NEW d, Control(d), NEW e, Shaped(e), Same(e, d, {"byte", "owe", "i", "buf", "tries"}),
         e.owe \in BOOLEAN, e.tries \in Nat,
         d.pc \in {"r1", "token", "resp", "busy"} \/ Commanding(d) \/ Writing(d) => e.tries > 0
  PROVE  Control(e)
<1>1. /\ e.pc = d.pc /\ e.cs = d.cs /\ e.call = d.call /\ e.cmd = d.cmd /\ e.a = d.a
      /\ e.slice = d.slice /\ e.out = d.out /\ e.then = d.then /\ e.rounds = d.rounds /\ e.ok = d.ok
  BY DEF Same, Fields
<1> QED  BY <1>1 DEF Control, Commanding, Writing

LEMMA RetryControl ==
  ASSUME NEW d, Control(d), d.tries > 1
  PROVE  Control(Retry(d))
<1>1. /\ Shaped(Retry(d)) /\ Same(Retry(d), d, {"tries"}) /\ Retry(d).tries = d.tries - 1
  BY DEF Control, Retry, Shaped, Same, Fields
<1>2. d.tries \in Nat /\ d.owe \in BOOLEAN  BY DEF Control
<1>3. /\ Retry(d).tries \in Nat /\ Retry(d).tries > 0 /\ Retry(d).owe \in BOOLEAN
      /\ Same(Retry(d), d, {"byte", "owe", "i", "buf", "tries"})
  BY <1>1, <1>2 DEF Same, Fields
<1> QED  BY <1>1, <1>3, StepControl

(***************************************************************************)
(* What the driver does with an R1.                                        *)
(***************************************************************************)
\* Nothing comes behind the R1 b of the command cmd.
Plain(cmd, b) ==
  <<cmd, b>> \notin {<<"CMD17", 0>>, <<"CMD24", 0>>, <<"CMD8", 1>>, <<"CMD58", 0>>}

ToToken(d) == [d EXCEPT !.pc = "token", !.tries = TOKEN_TRIES]
ToTail(d) == [d EXCEPT !.pc = "tail"]
\* The bytes of a write: the token, the block and its checksum.
Payload == Repeat(Arg, 1 + BLOCK + 1) \o <<WriteEnd>>
ToWrite(d) == Send([d EXCEPT !.tries = BUSY_TRIES], Payload, "resp")
FewerRounds(d) == [d EXCEPT !.rounds = @ - 1]

\* The R1 b ends the command: d closes it, returns or starts the next one.
Ended(e, d, b) ==
  /\ Plain(d.cmd, b)
  /\ \/ d.call = "SDInit" /\ e = SDSendCommand(d, "CMD8")
     \/ e = Return(d, FALSE)
     \/ \E c \in {d, FewerRounds(d)}, ok \in BOOLEAN, then \in {"CMD55", "ACMD41", "CMD58", "idle"} :
          /\ e = Deassert(c, ok, then)
          /\ then # "idle" => d.call = "SDInit" /\ c.rounds > 0
          /\ c # d => d.call = "SDInit"
          /\ ok => d.call # "read"

LEMMA R1Outcome ==
  ASSUME NEW d, Control(d), d.pc = "r1", NEW b
  PROVE  \/ d.cmd = "CMD17" /\ b = 0 /\ GotR1(d, b) = ToToken(d)
         \/ d.cmd = "CMD24" /\ b = 0 /\ GotR1(d, b) = ToWrite(d)
         \/ ~Plain(d.cmd, b) /\ d.cmd \in {"CMD8", "CMD58"} /\ GotR1(d, b) = ToTail(d)
         \/ Ended(GotR1(d, b), d, b)
<1> DEFINE e == GotR1(d, b)
<1>1. Of(d.call, d.cmd) /\ (d.call = "SDInit" => d.rounds > 0) /\ Shaped(d)
  BY DEF Control, Commanding
<1>2. ASSUME NEW ok \in BOOLEAN, NEW then \in {"CMD55", "ACMD41", "CMD58", "idle"},
             e = Deassert(d, ok, then), Plain(d.cmd, b), then # "idle" => d.call = "SDInit",
             ok => d.call # "read"
      PROVE  Ended(e, d, b)
  BY <1>1, <1>2 DEF Ended
<1>3. CASE d.cmd = "CMD17"
  <2>1. CASE b = 0  BY <1>3, <2>1 DEF GotR1, ToToken
  <2>2. CASE b # 0
    BY <1>2, <1>3, <2>2 DEF GotR1, Plain
  <2> QED  BY <2>1, <2>2
<1>4. CASE d.cmd = "CMD24"
  <2>1. CASE b = 0  BY <1>4, <2>1 DEF GotR1, ToWrite, Payload
  <2>2. CASE b # 0
    BY <1>2, <1>4, <2>2 DEF GotR1, Plain
  <2> QED  BY <2>1, <2>2
<1>5. CASE d.cmd = "CMD0"
  <2>1. d.call \in {"SDInit", "SDShutdown"} /\ Plain(d.cmd, b)
    BY <1>1, <1>5 DEF Of, Plain
  <2>2. CASE d.call = "SDInit" /\ b = 1
    BY <2>1, <2>2, <1>5 DEF GotR1, Ended
  <2>3. CASE d.call = "SDInit" /\ b # 1
    BY <2>1, <2>3, <1>2, <1>5 DEF GotR1
  <2>4. CASE d.call = "SDShutdown" /\ b = 1
    BY <2>1, <2>4, <1>2, <1>5 DEF GotR1
  <2>5. CASE d.call = "SDShutdown" /\ b # 1
    BY <2>1, <2>5, <1>5 DEF GotR1, Ended
  <2> QED  BY <2>1, <2>2, <2>3, <2>4, <2>5
<1>6. CASE d.cmd = "CMD8"
  <2>1. CASE b = 1  BY <1>6, <2>1 DEF GotR1, Plain, ToTail
  <2>2. CASE b # 1
    BY <1>2, <1>6, <2>2 DEF GotR1, Plain
  <2> QED  BY <2>1, <2>2
<1>7. CASE d.cmd = "CMD58"
  <2>1. CASE b = 0  BY <1>7, <2>1 DEF GotR1, Plain, ToTail
  <2>2. CASE b # 0
    BY <1>2, <1>7, <2>2 DEF GotR1, Plain
  <2> QED  BY <2>1, <2>2
<1>8. CASE d.cmd = "CMD55"
  <2>1. d.call = "SDInit" /\ Plain(d.cmd, b)  BY <1>1, <1>8 DEF Of, Plain
  <2>2. CASE b = 1  BY <2>1, <2>2, <1>2, <1>8 DEF GotR1
  <2>3. CASE b # 1  BY <2>1, <2>3, <1>2, <1>8 DEF GotR1
  <2> QED  BY <2>2, <2>3
<1>9. CASE d.cmd = "ACMD41"
  <2>1. d.call = "SDInit" /\ Plain(d.cmd, b)  BY <1>1, <1>9 DEF Of, Plain
  <2>2. CASE b = 0  BY <2>1, <2>2, <1>2, <1>9 DEF GotR1
  <2>3. CASE b # 0
    <3>1. d.rounds \in Nat  BY SdAssumption DEF Control
    <3>2. FewerRounds(d).rounds = d.rounds - 1
      BY <1>1 DEF FewerRounds, Shaped, Fields
    <3>3. e = Deassert(FewerRounds(d), FALSE, IF d.rounds > 1 THEN "CMD55" ELSE "idle")
      BY <2>3, <1>9 DEF GotR1, FewerRounds
    <3>4. CASE d.rounds > 1
      <4>1. FewerRounds(d).rounds > 0  BY <3>1, <3>2, <3>4
      <4>2. e = Deassert(FewerRounds(d), FALSE, "CMD55")  BY <3>3, <3>4
      <4> QED  BY <2>1, <4>1, <4>2, Zenon DEF Ended
    <3>5. CASE ~(d.rounds > 1)
      BY <2>1, <3>1, <3>2, <3>3, <3>5 DEF Ended
    <3> QED  BY <3>4, <3>5
  <2> QED  BY <2>2, <2>3
<1> QED
  BY <1>1, <1>3, <1>4, <1>5, <1>6, <1>7, <1>8, <1>9 DEF Of, InitCommands

LEMMA ControlBasic ==
  ASSUME NEW d, Control(d)
  PROVE  Basic(d)
BY DEF Control, Basic

LEMMA EndedControl ==
  ASSUME NEW d, Control(d), d.pc = "r1", NEW b, NEW e, Ended(e, d, b)
  PROVE  Control(e) /\ e.pc \notin {"r1", "token", "data", "tail", "resp", "busy"}
<1>1. /\ Shaped(d) /\ (d.call = "SDInit" => d.rounds > 0) /\ d.rounds \in 0 .. OP_TRIES
      /\ d.cs \in BOOLEAN /\ ~(d.call = "read" /\ d.ok) /\ OP_TRIES \in Nat
  BY SdAssumption DEF Control
<1>2. CASE d.call = "SDInit" /\ e = SDSendCommand(d, "CMD8")
  <2>1. Control(e)
    BY <1>1, <1>2, CommandControl, ControlBasic DEF Of, InitCommands, Control
  <2>2. Commanded(SDSendCommand(d, "CMD8"), d, "CMD8")  BY <1>1, CommandFields
  <2> QED  BY <1>2, <2>1, <2>2 DEF Commanded
<1>3. CASE e = Return(d, FALSE)
  <2>1. Returned(e, d) /\ e.ok = FALSE  BY <1>3, ReturnFields
  <2>2. d.cs \in BOOLEAN /\ e.ok \in BOOLEAN  BY <1>1, <2>1
  <2>3. Returned(e, d)  BY <2>1
  <2>4. Control(e)  BY <2>2, <2>3, ReturnControl
  <2> QED  BY <2>3, <2>4 DEF Returned
<1>4. ASSUME NEW c \in {d, FewerRounds(d)}, NEW ok \in BOOLEAN,
             NEW then \in {"CMD55", "ACMD41", "CMD58", "idle"},
             e = Deassert(c, ok, then),
             then # "idle" => d.call = "SDInit" /\ c.rounds > 0, c # d => d.call = "SDInit"
      PROVE  Control(e) /\ e.pc = "send"
  <2>1. Basic(c) /\ c.call = d.call
    <3>1. CASE c = d  BY <3>1 DEF Basic, Control
    <3>2. CASE c # d
      <4>1. /\ Shaped(c) /\ c.call = d.call /\ c.a = d.a /\ c.slice = d.slice
            /\ c.owe = d.owe /\ c.rounds = d.rounds - 1
        BY <1>1, <3>2 DEF FewerRounds, Shaped, Fields
      <4>2. d.rounds - 1 \in 0 .. OP_TRIES  BY <1>1, <1>4, <3>2
      <4> QED  BY <4>1, <4>2 DEF Basic, Control
    <3> QED  BY <3>1, <3>2
  <2> QED  BY <2>1, <1>4, DeassertControl
<1> QED
  BY <1>2, <1>3, <1>4 DEF Ended

LEMMA PayloadIs ==
  /\ Payload \in Seq(Symbols) /\ Len(Payload) = BLOCK + 3
  /\ \A j \in 1 .. (BLOCK + 2) : Payload[j] = Arg
  /\ Payload[BLOCK + 3] = WriteEnd
<1>1. BLOCK \in Nat  BY SdAssumption
<1>2. Arg \in Symbols /\ WriteEnd \in Symbols  BY DEF Arg, WriteEnd, Symbols
<1> DEFINE s == Repeat(Arg, 1 + BLOCK + 1)
           t == <<WriteEnd>>
<1>3. s \in Seq(Symbols) /\ Len(s) = BLOCK + 2 /\ \A j \in 1 .. (BLOCK + 2) : s[j] = Arg
  BY <1>1, <1>2 DEF Repeat
<1>4. t \in Seq(Symbols) /\ Len(t) = 1 /\ t[1] = WriteEnd
  BY <1>2
<1> HIDE DEF s, t
<1>5. /\ s \o t \in Seq(Symbols) /\ Len(s \o t) = Len(s) + Len(t)
      /\ \A j \in 1 .. (Len(s) + Len(t)) :
           (s \o t)[j] = IF j <= Len(s) THEN s[j] ELSE t[j - Len(s)]
  BY <1>3, <1>4, Joined
<1>6. /\ s \o t \in Seq(Symbols) /\ Len(s \o t) = BLOCK + 3
      /\ \A j \in 1 .. (BLOCK + 3) : (s \o t)[j] = IF j <= BLOCK + 2 THEN s[j] ELSE t[j - (BLOCK + 2)]
  BY <1>1, <1>3, <1>4, <1>5
<1>7. BLOCK + 3 - (BLOCK + 2) = 1  BY <1>1
<1>8. (s \o t)[BLOCK + 3] = t[1]  BY <1>1, <1>6, <1>7
<1>9. \A j \in 1 .. (BLOCK + 2) : (s \o t)[j] = Arg  BY <1>1, <1>3, <1>6
<1>10. /\ s \o t \in Seq(Symbols) /\ Len(s \o t) = BLOCK + 3
       /\ \A j \in 1 .. (BLOCK + 2) : (s \o t)[j] = Arg
       /\ (s \o t)[BLOCK + 3] = WriteEnd
  BY <1>4, <1>6, <1>8, <1>9
<1> QED  BY <1>10 DEF Payload, s, t

\* The response of the write is next.
Wrote(e, d) ==
  /\ Shaped(e) /\ e.pc = "send" /\ e.out = Payload /\ e.then = "resp" /\ e.tries = BUSY_TRIES
  /\ Same(e, d, {"pc", "out", "then", "tries"})

LEMMA WriteFields ==
  ASSUME NEW d, Shaped(d)
  PROVE  Wrote(ToWrite(d), d)
<1> DEFINE c == [d EXCEPT !.tries = BUSY_TRIES]
           out == Payload
           e == Send(c, out, "resp")
<1>1. e = ToWrite(d)  BY DEF ToWrite
<1>2. Shaped(c) /\ c.tries = BUSY_TRIES /\ Same(c, d, {"tries"})
  BY DEF Shaped, Fields, Same
<1> HIDE DEF c, out
<1>3. /\ Shaped(e) /\ Same(e, c, {"pc", "out", "then"})
      /\ e.pc = "send" /\ e.out = out /\ e.then = "resp"
  BY <1>2, SendFields
<1> HIDE DEF e
<1>4. e.tries = BUSY_TRIES /\ Same(e, d, {"pc", "out", "then", "tries"})
  BY <1>2, <1>3 DEF Same, Fields
<1> QED  BY <1>1, <1>3, <1>4 DEF Wrote, out

LEMMA R1Control ==
  ASSUME NEW d, Control(d), d.pc = "r1", NEW b
  PROVE  Control(GotR1(d, b))
<1>1. Shaped(d) /\ Of(d.call, d.cmd) /\ d.cs  BY DEF Control, Commanding
<1>2. TOKEN_TRIES \in Nat \ {0} /\ BUSY_TRIES \in Nat \ {0}  BY SdAssumption
<1>3. ASSUME d.cmd = "CMD17"
      PROVE  Control(ToToken(d))
  <2> DEFINE e == ToToken(d)
  <2>1. Shaped(e) /\ e.pc = "token" /\ e.tries = TOKEN_TRIES /\ Same(e, d, {"pc", "tries"})
    BY <1>1 DEF ToToken, Shaped, Fields, Same
  <2> HIDE DEF e
  <2>2. /\ e.cs = d.cs /\ e.call = d.call /\ e.cmd = d.cmd /\ e.a = d.a /\ e.owe = d.owe
        /\ e.slice = d.slice /\ e.out = d.out /\ e.then = d.then /\ e.rounds = d.rounds /\ e.ok = d.ok
    BY <2>1 DEF Same, Fields
  <2>3. d.call = "read"  BY <1>1, <1>3 DEF Of, InitCommands
  <2>4. Control(e)  BY <1>1, <1>2, <2>1, <2>2, <2>3 DEF Control, Commanding, Writing
  <2> QED  BY <2>4 DEF e
<1>4. ASSUME d.cmd = "CMD24"
      PROVE  Control(ToWrite(d))
  <2> DEFINE e == ToWrite(d)
  <2>1. Wrote(e, d)  BY <1>1, WriteFields
  <2> HIDE DEF e
  <2>2. /\ e.cs = d.cs /\ e.call = d.call /\ e.cmd = d.cmd /\ e.a = d.a /\ e.owe = d.owe
        /\ e.slice = d.slice /\ e.rounds = d.rounds /\ e.ok = d.ok
        /\ Shaped(e) /\ e.pc = "send" /\ e.out = Payload /\ e.then = "resp" /\ e.tries = BUSY_TRIES
    BY <2>1 DEF Same, Fields, Wrote
  <2>3. d.call = "write"  BY <1>1, <1>4 DEF Of, InitCommands
  <2>4. Payload \in Seq(Symbols) /\ Payload # <<>>
    BY PayloadIs, SdAssumption
  <2>5. Control(e)
    BY <1>1, <1>2, <2>2, <2>3, <2>4 DEF Control, Commanding, Writing, InitCommands
  <2> QED  BY <2>5 DEF e
<1>5. ASSUME d.cmd \in {"CMD8", "CMD58"}
      PROVE  Control(ToTail(d))
  <2> DEFINE e == ToTail(d)
  <2>1. Shaped(e) /\ e.pc = "tail" /\ Same(e, d, {"pc"})
    BY <1>1 DEF ToTail, Shaped, Fields, Same
  <2> HIDE DEF e
  <2>2. /\ e.cs = d.cs /\ e.call = d.call /\ e.cmd = d.cmd /\ e.a = d.a /\ e.owe = d.owe
        /\ e.slice = d.slice /\ e.out = d.out /\ e.then = d.then /\ e.rounds = d.rounds /\ e.ok = d.ok
        /\ e.tries = d.tries
    BY <2>1 DEF Same, Fields
  <2>3. d.call = "SDInit"  BY <1>1, <1>5 DEF Of, InitCommands
  <2>4. Control(e)  BY <1>1, <1>5, <2>1, <2>2, <2>3 DEF Control, Commanding, Writing
  <2> QED  BY <2>4 DEF e
<1> QED
  BY <1>3, <1>4, <1>5, R1Outcome, EndedControl

\* One turn of a loop: the next place of the block or of the tail.
NextPlace(d, b) == [d EXCEPT !.i = @ + 1, !.buf = b]
ToData(d) == [d EXCEPT !.pc = "data", !.i = 0]

LEMMA PlaceFields ==
  ASSUME NEW d, Shaped(d), NEW b
  PROVE  /\ Shaped(NextPlace(d, b)) /\ Same(NextPlace(d, b), d, {"i", "buf"})
         /\ NextPlace(d, b).i = d.i + 1 /\ NextPlace(d, b).buf = b
BY DEF NextPlace, Shaped, Fields, Same

LEMMA PlaceControl ==
  ASSUME NEW d, Control(d), NEW b
  PROVE  Control(NextPlace(d, b)) /\ NextPlace(d, b).pc = d.pc
<1> DEFINE e == NextPlace(d, b)
<1>1. Shaped(e) /\ Same(e, d, {"i", "buf"})  BY PlaceFields DEF Control
<1> HIDE DEF e
<1>2. /\ Same(e, d, {"byte", "owe", "i", "buf", "tries"}) /\ e.tries = d.tries /\ e.owe = d.owe
      /\ e.pc = d.pc
  BY <1>1 DEF Same, Fields
<1>3. Control(e)
  <2>1. d.tries \in Nat /\ d.owe \in BOOLEAN
    BY DEF Control
  <2>2. d.pc \in {"r1", "token", "resp", "busy"} \/ Commanding(d) \/ Writing(d) => d.tries > 0
    BY DEF Control
  <2> QED  BY <1>1, <1>2, <2>1, <2>2, StepControl
<1> QED  BY <1>2, <1>3 DEF e

\* What the driver does with a byte it has read, over every field.
Looks == {"r1", "token", "data", "tail"}

LEMMA DecideControl ==
  ASSUME NEW d, Control(d), d.pc \in Looks
  PROVE  Control(Decide(d))
<1> DEFINE b == d.byte
<1>1. Shaped(d) /\ Basic(d) /\ d.tries \in Nat /\ d.owe \in BOOLEAN
  BY ControlBasic DEF Control
<1>2. CASE d.pc = "r1"
  <2>1. CASE b = FF /\ d.tries > 1
    BY <1>2, <2>1, RetryControl DEF Decide
  <2>2. CASE ~(b = FF /\ d.tries > 1)
    BY <1>2, <2>2, R1Control DEF Decide
  <2> QED  BY <2>1, <2>2
<1>3. CASE d.pc = "token"
  <2>1. CASE b = FF /\ d.tries > 1
    BY <1>3, <2>1, RetryControl DEF Decide
  <2>2. CASE ~(b = FF /\ d.tries > 1) /\ (d.tries = 1 \/ b # TOKEN)
    BY <1>1, <1>3, <2>2, DeassertControl DEF Decide
  <2>3. CASE ~(b = FF /\ d.tries > 1) /\ ~(d.tries = 1 \/ b # TOKEN)
    <3>1. Decide(d) = ToData(d)  BY <1>3, <2>3 DEF Decide, ToData
    <3> DEFINE e == ToData(d)
    <3>2. Shaped(e) /\ e.pc = "data" /\ e.i = 0 /\ Same(e, d, {"pc", "i"})
      BY <1>1 DEF ToData, Shaped, Fields, Same
    <3> HIDE DEF e
    <3>3. /\ e.cs = d.cs /\ e.call = d.call /\ e.cmd = d.cmd /\ e.a = d.a /\ e.owe = d.owe
          /\ e.slice = d.slice /\ e.out = d.out /\ e.then = d.then /\ e.rounds = d.rounds
          /\ e.ok = d.ok /\ e.tries = d.tries
      BY <3>2 DEF Same, Fields
    <3>4. Control(e)  BY <1>3, <3>2, <3>3 DEF Control, Commanding, Writing
    <3> QED  BY <3>1, <3>4 DEF e
  <2> QED  BY <2>1, <2>2, <2>3
<1>4. CASE d.pc = "data"
  <2> DEFINE e == NextPlace(d, IF Wanted(d) THEN Append(d.buf, b) ELSE d.buf)
  <2>1. Decide(d) = IF BlockRead(e) THEN Deassert(e, TRUE, "idle") ELSE e
    BY <1>4 DEF Decide, NextPlace
  <2>2. Control(e)  BY PlaceControl
  <2> HIDE DEF e
  <2>3. Basic(e)  BY <2>2, ControlBasic
  <2> QED  BY <2>1, <2>2, <2>3, DeassertControl
<1>5. CASE d.pc = "tail"
  <2> DEFINE e == NextPlace(d, Append(d.buf, b))
  <2>1. Decide(d) = IF e.i = TAIL THEN GotTail(e) ELSE e
    BY <1>5 DEF Decide, NextPlace
  <2>2. Control(e) /\ e.pc = "tail"  BY <1>5, PlaceControl
  <2> HIDE DEF e
  <2>3. Basic(e) /\ e.call = "SDInit" /\ e.rounds > 0 /\ e.cs
    BY <2>2, ControlBasic DEF Control
  <2>4. CASE e.cmd = "CMD8"
    <3>1. Control(Deassert(e, FALSE, IF Echoed(e.buf) THEN "CMD55" ELSE "idle"))
      BY <2>3, DeassertControl
    <3> QED  BY <2>1, <2>2, <2>4, <3>1 DEF GotTail
  <2>5. CASE e.cmd # "CMD8" /\ HighCapacity(e.buf)
    <3> DEFINE r == Return(e, TRUE)
    <3>1. Returned(r, e) /\ r.ok = TRUE  BY ReturnFields
    <3> HIDE DEF r
    <3>2. r.ok \in BOOLEAN /\ e.cs \in BOOLEAN  BY <2>3, <3>1
    <3>3. Returned(r, e)  BY <3>1
    <3>4. Control(r)  BY <3>2, <3>3, ReturnControl
    <3> QED  BY <2>1, <2>2, <2>5, <3>4 DEF GotTail, r
  <2>6. CASE e.cmd # "CMD8" /\ ~HighCapacity(e.buf)
    <3>1. Control(Deassert(e, FALSE, "idle"))
      BY <2>3, DeassertControl
    <3> QED  BY <2>1, <2>2, <2>6, <3>1 DEF GotTail
  <2> QED  BY <2>4, <2>5, <2>6
<1> QED  BY <1>2, <1>3, <1>4, <1>5 DEF Looks

(***************************************************************************)
(* ControlOK is inductive.                                                 *)
(***************************************************************************)
\* A call that starts.
LEMMA NewCall ==
  ASSUME NEW c, Shaped(c), Same(c, Fresh, {"call", "a", "slice", "rounds"}),
         c.rounds \in 0 .. OP_TRIES, c.a \in {0} \cup DOMAIN Blocks,
         c.call \in {"read", "write"} => c.a \in DOMAIN Blocks,
         c.call = "read" => c.slice \in Slices \cup {<<0, BLOCK>>}
  PROVE  Basic(c) /\ c.owe = FALSE /\ c.ok = FALSE /\ c.byte = FF /\ c.buf = <<>>
<1>1. c.owe = FALSE /\ c.ok = FALSE /\ c.byte = FF /\ c.buf = <<>>
  BY DEF Same, Fields, Fresh
<1>2. c.owe \in BOOLEAN  BY <1>1
<1>3. Basic(c)  BY <1>2 DEF Basic
<1> QED  BY <1>1, <1>3

\* SDInit before its first command.
Waking == Send([Fresh EXCEPT !.call = "SDInit", !.rounds = OP_TRIES], Repeat(Dummy, IDLE_BYTES), "CMD0")

LEMMA WakingFields ==
  /\ Shaped(Waking) /\ Waking.pc = "send" /\ Waking.out = Repeat(Dummy, IDLE_BYTES)
  /\ Waking.then = "CMD0" /\ Waking.call = "SDInit" /\ Waking.rounds = OP_TRIES
  /\ Waking.cs = FALSE /\ Waking.owe = FALSE /\ Waking.ok = FALSE /\ Waking.a = 0
  /\ Waking.tries = 0 /\ Waking.byte = FF /\ Waking.buf = <<>>
<1> DEFINE c == [Fresh EXCEPT !.call = "SDInit", !.rounds = OP_TRIES]
           out == Repeat(Dummy, IDLE_BYTES)
<1>1. Shaped(c) /\ c.call = "SDInit" /\ c.rounds = OP_TRIES /\ Same(c, Fresh, {"call", "rounds"})
  BY DEF Fresh, Shaped, Fields, Same
<1>2. Waking = Send(c, out, "CMD0")  BY DEF Waking
<1> HIDE DEF c, out
<1>3. /\ Shaped(Waking) /\ Same(Waking, c, {"pc", "out", "then"})
      /\ Waking.pc = "send" /\ Waking.out = out /\ Waking.then = "CMD0"
  BY <1>1, <1>2, SendFields
<1>4. /\ Waking.call = c.call /\ Waking.rounds = c.rounds /\ Waking.cs = c.cs /\ Waking.owe = c.owe
      /\ Waking.ok = c.ok /\ Waking.a = c.a /\ Waking.tries = c.tries /\ Waking.byte = c.byte
      /\ Waking.buf = c.buf
  BY <1>3 DEF Same, Fields
<1>5. c.cs = FALSE /\ c.owe = FALSE /\ c.ok = FALSE /\ c.a = 0 /\ c.tries = 0 /\ c.byte = FF /\ c.buf = <<>>
  BY <1>1 DEF Same, Fields, Fresh
<1> QED  BY <1>1, <1>3, <1>4, <1>5 DEF out

LEMMA WakingControl == Control(Waking)
<1>1. Waking.cs \in BOOLEAN /\ Waking.owe \in BOOLEAN /\ Waking.ok \in BOOLEAN
  BY WakingFields, Zenon
<1>2. IDLE_BYTES \in Nat \ {0} /\ OP_TRIES \in Nat \ {0} /\ Dummy \in Symbols
  BY SdAssumption DEF Dummy, Symbols
<1>3. Repeat(Dummy, IDLE_BYTES) \in Seq(Symbols) /\ Repeat(Dummy, IDLE_BYTES) # <<>>
  <2> DEFINE s == Repeat(Dummy, IDLE_BYTES)
  <2>1. s \in Seq(Symbols) /\ Len(s) = IDLE_BYTES  BY <1>2 DEF Repeat
  <2> HIDE DEF s
  <2>2. s # <<>>  BY <2>1, <1>2
  <2> QED  BY <2>1, <2>2 DEF s
<1>4. 0 \in {0} \cup DOMAIN Blocks /\ OP_TRIES \in 0 .. OP_TRIES /\ 0 \in Nat /\ OP_TRIES > 0
  BY <1>2
<1>5. /\ Shaped(Waking) /\ Waking.pc = "send" /\ Waking.out = Repeat(Dummy, IDLE_BYTES)
      /\ Waking.then = "CMD0" /\ Waking.call = "SDInit" /\ Waking.rounds = OP_TRIES
      /\ Waking.a = 0 /\ Waking.tries = 0
  BY WakingFields
<1> QED  BY <1>1, <1>3, <1>4, <1>5 DEF Control, Commanding, Writing, InitCommands

\* A call that starts with a command.
Opening(c, cmd) ==
  /\ Shaped(c) /\ Same(c, Fresh, {"call", "a", "slice"}) /\ c.a \in {0} \cup DOMAIN Blocks
  /\ \/ c.call = "SDShutdown" /\ cmd = "CMD0"
     \/ c.call = "read" /\ cmd = "CMD17" /\ c.a \in DOMAIN Blocks
        /\ c.slice \in Slices \cup {<<0, BLOCK>>}
     \/ c.call = "write" /\ cmd = "CMD24" /\ c.a \in DOMAIN Blocks

LEMMA OpeningControl ==
  ASSUME NEW c, NEW cmd, Opening(c, cmd)
  PROVE  Control(SDSendCommand(c, cmd)) /\ SDSendCommand(c, cmd).owe = FALSE
<1>1. c.rounds = 0 /\ 0 \in 0 .. OP_TRIES /\ Same(c, Fresh, {"call", "a", "slice", "rounds"})
  <2>1. Same(c, Fresh, {"call", "a", "slice"})  BY DEF Opening
  <2>2. c.rounds = 0  BY <2>1 DEF Same, Fields, Fresh
  <2>3. Same(c, Fresh, {"call", "a", "slice", "rounds"})  BY <2>1 DEF Same
  <2> QED  BY <2>2, <2>3, SdAssumption
<1>2. Basic(c) /\ c.owe = FALSE /\ c.ok = FALSE
  BY <1>1, NewCall DEF Opening
<1>3. Of(c.call, cmd) /\ c.call # "SDInit"  BY DEF Opening, Of
<1>4. c.ok \in BOOLEAN  BY <1>2
<1>5. ~(c.call = "read" /\ c.ok)  BY <1>2
<1>6. Basic(c) /\ Shaped(c)  BY <1>2 DEF Basic
<1>7. Control(SDSendCommand(c, cmd))  BY <1>3, <1>4, <1>5, <1>6, CommandControl
<1>8. Commanded(SDSendCommand(c, cmd), c, cmd)  BY <1>6, CommandFields
<1>9. SDSendCommand(c, cmd).owe = c.owe  BY <1>8 DEF Commanded
<1> QED  BY <1>2, <1>7, <1>9

\* Every call but SDInit starts with a command.
LEMMA Openings ==
  /\ SDShutdown => \E c : Opening(c, "CMD0") /\ Call(SDSendCommand(c, "CMD0"))
  /\ \A a \in DOMAIN Blocks :
       /\ sdReadBlock(a) => \E c : Opening(c, "CMD17") /\ Call(SDSendCommand(c, "CMD17"))
       /\ sdWriteBlock(a) => \E c : Opening(c, "CMD24") /\ Call(SDSendCommand(c, "CMD24"))
       /\ \A s \in Slices :
            sdReadPartialBlock(a, s) => \E c : Opening(c, "CMD17") /\ Call(SDSendCommand(c, "CMD17"))
<1>1. ASSUME SDShutdown
      PROVE  \E c : Opening(c, "CMD0") /\ Call(SDSendCommand(c, "CMD0"))
  <2> DEFINE c == [Fresh EXCEPT !.call = "SDShutdown"]
  <2>1. Opening(c, "CMD0")  BY DEF Opening, Shaped, Same, Fields, Fresh
  <2>2. Call(SDSendCommand(c, "CMD0"))  BY <1>1 DEF SDShutdown
  <2> QED  BY <2>1, <2>2
<1>2. ASSUME NEW a \in DOMAIN Blocks, NEW s \in Slices \cup {<<0, BLOCK>>}, Call(Read(a, s))
      PROVE  \E c : Opening(c, "CMD17") /\ Call(SDSendCommand(c, "CMD17"))
  <2> DEFINE c == [Fresh EXCEPT !.call = "read", !.a = a, !.slice = s]
  <2>1. Opening(c, "CMD17")  BY <1>2 DEF Opening, Shaped, Same, Fields, Fresh
  <2>2. Call(SDSendCommand(c, "CMD17"))  BY <1>2 DEF Read
  <2> QED  BY <2>1, <2>2
<1>3. ASSUME NEW a \in DOMAIN Blocks, sdWriteBlock(a)
      PROVE  \E c : Opening(c, "CMD24") /\ Call(SDSendCommand(c, "CMD24"))
  <2> DEFINE c == [Fresh EXCEPT !.call = "write", !.a = a]
  <2>1. Opening(c, "CMD24")  BY <1>3 DEF Opening, Shaped, Same, Fields, Fresh
  <2>2. Call(SDSendCommand(c, "CMD24"))  BY <1>3 DEF sdWriteBlock
  <2> QED  BY <2>1, <2>2
<1> QED  BY <1>1, <1>2, <1>3 DEF sdReadBlock, sdReadPartialBlock

LEMMA ArriveControl ==
  ASSUME NEW d, Control(d), d.pc = "send", ~d.owe, NEW e, Shaped(e), Same(e, d, {"out"}),
         e.out = <<>>
  PROVE  Control(Arrive(e)) /\ ~Arrive(e).owe
<1>1. /\ e.pc = d.pc /\ e.cs = d.cs /\ e.call = d.call /\ e.cmd = d.cmd /\ e.a = d.a /\ e.owe = d.owe
      /\ e.slice = d.slice /\ e.then = d.then /\ e.rounds = d.rounds /\ e.ok = d.ok /\ e.tries = d.tries
  BY DEF Same, Fields
<1>2. Basic(e) /\ e.ok \in BOOLEAN /\ e.cs \in BOOLEAN
  BY <1>1 DEF Basic, Control
<1>3. d.then \in {"CMD0", "CMD55", "ACMD41", "CMD58", "r1", "resp", "idle"}
  BY DEF Control
<1>4. CASE d.then \in {"CMD0", "CMD55", "ACMD41", "CMD58"}
  <2>1. Arrive(e) = SDSendCommand(e, d.then)  BY <1>1, <1>4 DEF Arrive
  <2>2. d.call = "SDInit" /\ d.rounds > 0
    BY <1>4 DEF Control, InitCommands
  <2>3. Of(e.call, d.then) /\ e.rounds > 0  BY <1>1, <1>4, <2>2 DEF Of, InitCommands
  <2>4. Control(SDSendCommand(e, d.then))
    BY <1>1, <1>2, <2>2, <2>3, CommandControl
  <2>5. Commanded(SDSendCommand(e, d.then), e, d.then)  BY CommandFields
  <2> QED  BY <1>1, <2>1, <2>4, <2>5 DEF Commanded
<1>5. CASE d.then = "idle"
  <2> DEFINE r == Return(e, e.ok)
  <2>1. Arrive(e) = r  BY <1>1, <1>5 DEF Arrive
  <2>2. Returned(r, e) /\ r.ok = e.ok  BY ReturnFields
  <2> HIDE DEF r
  <2>3. r.ok \in BOOLEAN  BY <1>2, <2>2
  <2>4. Returned(r, e)  BY <2>2
  <2>5. Control(r)  BY <1>2, <2>3, <2>4, ReturnControl
  <2> QED  BY <2>1, <2>4, <2>5 DEF Returned
<1>6. CASE d.then \in {"r1", "resp"}
  <2> DEFINE r == [e EXCEPT !.pc = e.then]
  <2>1. Arrive(e) = r  BY <1>1, <1>6 DEF Arrive
  <2>2. /\ Shaped(r) /\ r.pc = d.then /\ r.cs = d.cs /\ r.call = d.call /\ r.cmd = d.cmd
        /\ r.a = d.a /\ r.owe = d.owe /\ r.out = <<>>
        /\ r.slice = d.slice /\ r.then = d.then /\ r.rounds = d.rounds /\ r.ok = d.ok
        /\ r.tries = d.tries
    BY <1>1 DEF Shaped, Fields
  <2> HIDE DEF r
  <2>3. <<>> \in Seq(Symbols) /\ Len(<<>>) = 0  OBVIOUS
  <2>4. Control(r)
    BY <1>6, <2>2, <2>3 DEF Control, Commanding, Writing, InitCommands
  <2> QED  BY <2>1, <2>2, <2>4
<1> QED  BY <1>3, <1>4, <1>5, <1>6

\* One byte is in the transmit FIFO, others follow.
LEMMA SentControl ==
  ASSUME NEW d, Control(d), d.pc = "send", NEW e, Shaped(e), Same(e, d, {"out"}),
         e.out = Tail(d.out), e.out # <<>>
  PROVE  Control(e)
<1>1. /\ e.pc = d.pc /\ e.cs = d.cs /\ e.call = d.call /\ e.cmd = d.cmd /\ e.a = d.a /\ e.owe = d.owe
      /\ e.slice = d.slice /\ e.then = d.then /\ e.rounds = d.rounds /\ e.ok = d.ok /\ e.tries = d.tries
  BY DEF Same, Fields
<1>2. d.out \in Seq(Symbols) /\ d.out # <<>>  BY DEF Control
<1>3. e.out \in Seq(Symbols) /\ Len(e.out) = Len(d.out) - 1 /\ Len(d.out) \in Nat
  BY <1>2
<1>4. ASSUME Len(e.out) > 1
      PROVE  e.out[Len(e.out) - 1] = d.out[Len(d.out) - 1]
  <2>1. \A j \in 1 .. Len(e.out) : e.out[j] = d.out[j + 1]  BY <1>2, <1>3
  <2> QED  BY <1>3, <1>4, <2>1
<1>5. ASSUME Commanding(e), Len(e.out) > 1
      PROVE  e.out[Len(e.out) - 1].sym = "crc"
  <2>1. Commanding(d) /\ Len(d.out) > 1  BY <1>1, <1>3, <1>5 DEF Commanding
  <2> QED  BY <1>4, <1>5, <2>1 DEF Control
<1> QED  BY <1>1, <1>3, <1>5 DEF Control, Commanding, Writing

LEMMA PollControl ==
  ASSUME NEW d, Control(d), d.pc \in {"resp", "busy"}, NEW b,
         NEW e, e = [d EXCEPT !.tries = @ - 1]
  PROVE  /\ e.tries > 0 => Control(e)
         /\ Control([e EXCEPT !.pc = "busy", !.tries = BUSY_TRIES])
         /\ Basic(e)
<1>1. Shaped(d) /\ d.tries \in Nat /\ d.tries > 0  BY DEF Control
<1>2. Shaped(e) /\ Same(e, d, {"tries"}) /\ e.tries = d.tries - 1
  BY <1>1 DEF Shaped, Fields, Same
<1>3. e.owe = d.owe /\ e.tries \in Nat /\ Same(e, d, {"byte", "owe", "i", "buf", "tries"})
  BY <1>1, <1>2 DEF Same, Fields
<1>4. d.owe \in BOOLEAN  BY DEF Control
<1>5. e.tries > 0 => Control(e)  BY <1>2, <1>3, <1>4, StepControl
<1>6. /\ e.cs = d.cs /\ e.call = d.call /\ e.cmd = d.cmd /\ e.a = d.a /\ e.pc = d.pc
      /\ e.slice = d.slice /\ e.out = d.out /\ e.then = d.then /\ e.rounds = d.rounds /\ e.ok = d.ok
  BY <1>2 DEF Same, Fields
<1>7. Basic(e)  BY <1>2, <1>3, <1>6 DEF Basic, Control
<1>8. Control([e EXCEPT !.pc = "busy", !.tries = BUSY_TRIES])
  <2> DEFINE f == [e EXCEPT !.pc = "busy", !.tries = BUSY_TRIES]
  <2>1. /\ Shaped(f) /\ f.pc = "busy" /\ f.tries = BUSY_TRIES /\ f.owe = e.owe
        /\ f.cs = e.cs /\ f.call = e.call /\ f.cmd = e.cmd /\ f.a = e.a
        /\ f.slice = e.slice /\ f.out = e.out /\ f.then = e.then /\ f.rounds = e.rounds /\ f.ok = e.ok
    BY <1>2 DEF Shaped, Fields
  <2> HIDE DEF f
  <2>2. BUSY_TRIES \in Nat /\ BUSY_TRIES > 0  BY SdAssumption
  <2>3. Control(f)  BY <1>3, <1>6, <2>1, <2>2 DEF Control, Commanding, Writing
  <2> QED  BY <2>3 DEF f
<1> QED  BY <1>5, <1>7, <1>8

LEMMA ControlInit == Init => ControlOK
<1> SUFFICES ASSUME Init PROVE ControlOK
  OBVIOUS
<1>1. /\ Shaped(Fresh) /\ Fresh.pc = "idle" /\ Fresh.call = "none" /\ Fresh.out = <<>> /\ Fresh.a = 0
      /\ Fresh.tries = 0 /\ Fresh.rounds = 0
  BY DEF Fresh, Shaped, Fields
<1>2. Fresh.cs = FALSE /\ Fresh.owe = FALSE /\ Fresh.ok = FALSE  BY DEF Fresh
<1>3. Fresh.cs \in BOOLEAN /\ Fresh.owe \in BOOLEAN /\ Fresh.ok \in BOOLEAN  BY <1>2
<1>4. 0 \in 0 .. OP_TRIES /\ 0 \in Nat /\ <<>> \in Seq(Symbols) /\ 0 \in {0} \cup DOMAIN Blocks
  BY SdAssumption
<1>5. Control(Fresh)
  BY <1>1, <1>3, <1>4 DEF Control, Commanding, Writing, InitCommands
<1>6. FIFO \in Nat /\ tx = <<>> /\ rx = <<>> /\ upset = FALSE /\ drv = Fresh
  BY SdAssumption DEF Init
<1>7. tx \in Seq(Symbols) /\ Len(tx) <= FIFO /\ rx \in Seq(Int) /\ Len(rx) <= FIFO /\ upset \in BOOLEAN
  <2>1. <<>> \in Seq(Symbols) /\ <<>> \in Seq(Int) /\ Len(<<>>) = 0  OBVIOUS
  <2>2. upset \in BOOLEAN  BY <1>6
  <2> QED  BY <1>6, <2>1, <2>2
<1>8. ~Reading /\ ~drv.owe  BY <1>1, <1>2, <1>6 DEF Reading
<1> QED  BY <1>5, <1>6, <1>7, <1>8 DEF ControlOK, NeverStarves

(***************************************************************************)
(* The card has bytes to say.                                              *)
(***************************************************************************)
Pieces == {s \in Seq(Int) : s # <<>>}
CardOK == card.q \in Seq(Pieces) /\ card.mid \in BOOLEAN

\* The two bytes that end an answer to CMD8.
LEMMA EchoesAre == ASSUME NEW v \in Echoes PROVE v \in Seq(Int) /\ Len(v) = 2
<1>1. ASSUME NEW x \in Int, NEW y \in Int PROVE <<x, y>> \in Seq(Int) /\ Len(<<x, y>>) = 2
  OBVIOUS
<1>2. v = <<1, 170>> \/ v = <<0, 170>> \/ v = <<1, 1>>
  BY DEF Echoes
<1>3. 0 \in Int /\ 1 \in Int /\ 170 \in Int
  OBVIOUS
<1> QED  BY <1>1, <1>2, <1>3

\* What a command makes the card say.
LEMMA AnswersSay ==
  ASSUME NEW s \in Symbols, s.sym = "crc", NEW a \in Answers(s)
  PROVE  a \in Seq(Pieces)
<1>1. s.cmd \in Commands /\ (s.cmd = "CMD17" => s.a \in DOMAIN Blocks) /\ TAIL \in Nat \ {0}
  BY SdAssumption DEF Symbols
<1>2. ASSUME NEW x \in Pieces PROVE <<x>> \in Seq(Pieces)
  OBVIOUS
<1>3. ASSUME NEW x \in Int PROVE <<x>> \in Pieces
  BY DEF Pieces
<1> DEFINE z == Repeat(0, TAIL - 1)
<1>4. z \in Seq(Int)  BY <1>1 DEF Repeat
<1> DEFINE y == Repeat(0, TAIL - 2)
<1>9. y \in Seq(Int)  BY <1>1, SdAssumption DEF Repeat
<1> HIDE DEF z, y
<1>5. CASE s.cmd \in {"CMD0", "CMD55", "ACMD41", "CMD24"}
  <2>1. \E x \in Int : a = << <<x>> >>  BY <1>5 DEF Answers
  <2> QED  BY <1>2, <1>3, <2>1
<1>6. CASE s.cmd = "CMD8"
  <2>1. Answers(s) = {<< <<1>> \o y \o v >> : v \in Echoes} \cup {<< <<5>> >>}
    BY <1>6 DEF Answers, y
  <2>2. (\E v \in Echoes : a = << <<1>> \o y \o v >>) \/ a = << <<5>> >>
    BY <2>1
  <2>3. ASSUME NEW v \in Echoes PROVE <<1>> \o y \o v \in Pieces
    <3> DEFINE r == <<1>> \o y
               t == r \o v
    <3>1. <<1>> \in Seq(Int) /\ Len(y) \in Nat /\ Len(<<1>>) = 1
      BY <1>9
    <3>2. r \in Seq(Int) /\ Len(r) \in Nat  BY <1>9, <3>1, Joined
    <3>3. v \in Seq(Int) /\ Len(v) = 2  BY EchoesAre
    <3> HIDE DEF r
    <3>4. t \in Seq(Int) /\ Len(t) = Len(r) + Len(v)  BY <3>2, <3>3, Joined
    <3> HIDE DEF t
    <3>5. t \in Pieces
      <4>1. Len(t) # 0  BY <3>2, <3>3, <3>4
      <4> QED  BY <3>4, <4>1 DEF Pieces
    <3> QED  BY <3>5 DEF r, t
  <2>4. <<5>> \in Pieces  BY <1>3
  <2>5. \A v \in Echoes : << <<1>> \o y \o v >> \in Seq(Pieces)  BY <1>2, <2>3
  <2>6. << <<5>> >> \in Seq(Pieces)  BY <1>2, <2>4
  <2>7. CASE a = << <<5>> >>  BY <2>6, <2>7
  <2>8. CASE \E v \in Echoes : a = << <<1>> \o y \o v >>  BY <2>5, <2>8
  <2> QED  BY <2>2, <2>7, <2>8
<1>7. CASE s.cmd = "CMD58"
  <2>1. Answers(s) = {<< <<0, v>> \o z >> : v \in {192, 128}} \cup {<< <<5>> >>}
    BY <1>7 DEF Answers, z
  <2>2. (\E v \in {192, 128} : a = << <<0, v>> \o z >>) \/ a = << <<5>> >>
    BY <2>1
  <2>3. ASSUME NEW v \in Int PROVE <<0, v>> \o z \in Pieces
    <3>1. <<0, v>> \in Seq(Int) /\ Len(<<0, v>>) = 2 /\ Len(z) \in Nat
      BY <1>4
    <3>2. <<0, v>> \o z \in Seq(Int) /\ Len(<<0, v>> \o z) = 2 + Len(z)  BY <1>4, <3>1, Joined
    <3> QED  BY <3>1, <3>2 DEF Pieces
  <2>4. 192 \in Int /\ 128 \in Int /\ <<5>> \in Pieces  BY <1>3
  <2>5. \A v \in {192, 128} : << <<0, v>> \o z >> \in Seq(Pieces)  BY <1>2, <2>3, <2>4
  <2>6. << <<5>> >> \in Seq(Pieces)  BY <1>2, <2>4
  <2>7. CASE a = << <<5>> >>  BY <2>6, <2>7
  <2>8. CASE \E v \in {192, 128} : a = << <<0, v>> \o z >>  BY <2>5, <2>8
  <2> QED  BY <2>2, <2>7, <2>8
<1>8. CASE s.cmd = "CMD17"
  <2> DEFINE w == <<TOKEN>> \o Blocks[s.a] \o <<17, 34>>
  <2>1. a = << <<0>>, w >> \/ a = << <<0>>, <<8>> >> \/ a = << <<4>> >>
    BY <1>8 DEF Answers
  <2>2. w \in Pieces
    <3>1. Blocks[s.a] \in Seq(Int)
      <4>1. Blocks[s.a] \in Seq(0 .. 255)  BY <1>1, <1>8, SdAssumption
      <4> QED  BY <4>1, Widened
    <3>2. <<TOKEN>> \o Blocks[s.a] \in Seq(Int)  BY <3>1 DEF TOKEN
    <3> QED  BY <3>2 DEF Pieces
  <2> HIDE DEF w
  <2>3. <<0>> \in Pieces /\ <<8>> \in Pieces /\ <<4>> \in Pieces  BY <1>3
  <2>4. ASSUME NEW x \in Pieces, NEW u \in Pieces PROVE <<x, u>> \in Seq(Pieces)
    OBVIOUS
  <2>5. << <<0>>, w >> \in Seq(Pieces)  BY <2>2, <2>3, <2>4
  <2>6. << <<0>>, <<8>> >> \in Seq(Pieces)  BY <2>3, <2>4
  <2>7. << <<4>> >> \in Seq(Pieces)  BY <1>2, <2>3
  <2> QED  BY <2>1, <2>5, <2>6, <2>7
<1> QED
  BY <1>1, <1>5, <1>6, <1>7, <1>8 DEF Commands, InitCommands

\* A turn of the card says a byte.
LEMMA TurnsSay ==
  ASSUME CardOK, NEW t \in Turns
  PROVE  t.in \in Int /\ t.next.q \in Seq(Pieces) /\ t.next.mid \in BOOLEAN
<1>1. CASE t = [in |-> FF, said |-> FALSE, next |-> Quiet]
  <2>1. t.in = 255 /\ t.next.q = <<>> /\ t.next.mid = FALSE  BY <1>1 DEF Quiet, FF
  <2>2. t.next.mid \in BOOLEAN  BY <2>1
  <2> QED  BY <2>1, <2>2
<1>2. CASE t = [in |-> FF, said |-> FALSE, next |-> card]
  BY <1>2 DEF CardOK, FF
<1>3. CASE card.q # <<>> /\ t = [in |-> Head(Head(card.q)), said |-> TRUE, next |-> Said]
  <2>1. Head(card.q) \in Pieces /\ Tail(card.q) \in Seq(Pieces)  BY <1>3 DEF CardOK
  <2>2. Head(card.q) \in Seq(Int) /\ Head(card.q) # <<>>  BY <2>1 DEF Pieces
  <2>3. Head(Head(card.q)) \in Int  BY <2>2
  <2>4. Said.q \in Seq(Pieces) /\ Said.mid \in BOOLEAN
    <3>1. CASE Len(Head(card.q)) = 1  BY <2>1, <3>1 DEF Said
    <3>2. CASE Len(Head(card.q)) # 1
      <4> DEFINE r == Tail(Head(card.q))
      <4>1. r \in Seq(Int) /\ r # <<>>  BY <2>2, <3>2, Shortened
      <4>2. r \in Pieces  BY <4>1 DEF Pieces
      <4> HIDE DEF r
      <4>4. <<r>> \o Tail(card.q) \in Seq(Pieces)  BY <2>1, <4>2
      <4> QED  BY <3>2, <4>4 DEF Said, r
    <3> QED  BY <3>1, <3>2
  <2> QED  BY <1>3, <2>3, <2>4
<1> QED  BY <1>1, <1>2, <1>3 DEF Turns

LEMMA CardInit == Init => CardOK
BY DEF Init, CardOK, Quiet

LEMMA CardStep == ControlOK /\ CardOK /\ [Next]_vars => CardOK'
<1> SUFFICES ASSUME ControlOK, CardOK, [Next]_vars PROVE CardOK'
  OBVIOUS
<1>1. CASE card' = card  BY <1>1 DEF CardOK
<1>2. CASE Shift
  <2>1. PICK t \in Turns : card' \in Listen(Head(tx), t.next)
    BY <1>2 DEF Shift
  <2>2. Head(tx) \in Symbols  BY <1>2 DEF Shift, ControlOK
  <2>3. t.next.q \in Seq(Pieces) /\ t.next.mid \in BOOLEAN  BY TurnsSay
  <2>4. CASE card' = t.next  BY <2>3, <2>4 DEF CardOK
  <2>5. ASSUME Head(tx).sym = "crc", NEW a \in Answers(Head(tx)), card' = [q |-> a, mid |-> FALSE]
        PROVE  CardOK'
    BY <2>2, <2>5, AnswersSay DEF CardOK
  <2>6. CASE card' = [q |-> << <<5, 0>> >>, mid |-> TRUE]
    BY <2>6 DEF CardOK, Pieces
  <2> QED  BY <2>1, <2>4, <2>5, <2>6 DEF Listen
<1>3. card' = card \/ Shift
  BY DEF Next, vars, Driver, spi_send_byte, spi_read_byte, PollWrite, SDInit, SDShutdown,
         sdReadBlock, sdWriteBlock, sdReadPartialBlock, Call
<1> QED  BY <1>1, <1>2, <1>3

LEMMA ControlStep == ControlOK /\ CardOK /\ [Next]_vars => ControlOK'
<1> SUFFICES ASSUME ControlOK, CardOK, [Next]_vars PROVE ControlOK'
  OBVIOUS
<1> USE DEF ControlOK
<1>0. FIFO \in Nat /\ FIFO > 0  BY SdAssumption
<1>1. ASSUME NEW d, Call(d), Control(d), d.owe = FALSE, d.pc = "send"
      PROVE  ControlOK'
  BY <1>1 DEF Call, NeverStarves, Reading
<1>2. CASE SDInit
  BY <1>1, <1>2, WakingControl, WakingFields DEF SDInit, Waking
<1>3. ASSUME NEW c, NEW cmd, Opening(c, cmd), Call(SDSendCommand(c, cmd))
      PROVE  ControlOK'
  <2>1. Control(SDSendCommand(c, cmd)) /\ SDSendCommand(c, cmd).owe = FALSE
    BY <1>3, OpeningControl
  <2>2. Shaped(c)  BY <1>3 DEF Opening
  <2>3. Commanded(SDSendCommand(c, cmd), c, cmd)  BY <2>2, CommandFields
  <2>4. SDSendCommand(c, cmd).pc = "send"  BY <2>3 DEF Commanded
  <2> QED  BY <1>1, <1>3, <2>1, <2>4
<1>4. CASE SDShutdown  BY <1>3, <1>4, Openings
<1>5. CASE \E a \in DOMAIN Blocks : sdReadBlock(a) \/ sdWriteBlock(a)
  BY <1>3, <1>5, Openings
<1>6. CASE \E a \in DOMAIN Blocks, s \in Slices : sdReadPartialBlock(a, s)
  BY <1>3, <1>6, Openings
<1>7. CASE spi_send_byte /\ drv.pc = "send" /\ ~drv.owe
  <2> DEFINE d == [drv EXCEPT !.out = Tail(@)]
  <2>1. /\ tx' = Append(tx, Head(drv.out)) /\ Len(tx) < FIFO /\ rx' = rx /\ upset' = upset
        /\ drv' = IF d.out = <<>> THEN Arrive(d) ELSE d
    BY <1>7 DEF spi_send_byte, Room
  <2>2. drv.out \in Seq(Symbols) /\ drv.out # <<>> /\ Shaped(drv)
    BY <1>7 DEF Control
  <2>3. Shaped(d) /\ Same(d, drv, {"out"}) /\ d.out = Tail(drv.out)
    BY <2>2 DEF Shaped, Fields, Same
  <2>4. d.owe = drv.owe /\ d.pc = drv.pc  BY <2>3 DEF Same, Fields
  <2> HIDE DEF d
  <2>5. Control(drv') /\ ~drv'.owe
    <3>1. CASE d.out = <<>>  BY <1>7, <2>1, <2>3, <3>1, ArriveControl
    <3>2. CASE d.out # <<>>  BY <1>7, <2>1, <2>3, <2>4, <3>2, SentControl
    <3> QED  BY <3>1, <3>2
  <2>6. Head(drv.out) \in Symbols  BY <2>2
  <2>7. tx' \in Seq(Symbols) /\ Len(tx') <= FIFO /\ tx' # <<>>
    BY <1>0, <2>1, <2>6
  <2> QED  BY <2>1, <2>5, <2>7 DEF NeverStarves
<1>8. CASE spi_send_byte /\ drv.owe
  <2>1. drv.pc \in Looks /\ drv.pc # "send"  BY <1>8 DEF Reading, Looks
  <2>2. /\ tx' = Append(tx, Dummy) /\ Len(tx) < FIFO /\ rx' = rx
        /\ drv' = [Decide(drv) EXCEPT !.owe = FALSE, !.byte = FF]
        /\ upset' = (upset \/ GaveUp(drv))
    BY <1>8, <2>1 DEF spi_send_byte, Room, Clock
  <2> DEFINE c == Decide(drv)
  <2>3. Control(c)  BY <2>1, DecideControl
  <2> HIDE DEF c
  <2>4. Shaped(c)  BY <2>3 DEF Control
  <2>5. Shaped(drv') /\ Same(drv', c, {"owe", "byte"}) /\ drv'.owe = FALSE
    BY <2>2, <2>4 DEF Shaped, Fields, Same, c
  <2>6. drv'.tries = c.tries /\ Same(drv', c, {"byte", "owe", "i", "buf", "tries"})
    BY <2>5 DEF Same, Fields
  <2>7. Control(drv')
    <3>1. drv'.owe \in BOOLEAN  BY <2>5
    <3>2. c.tries \in Nat
      BY <2>3 DEF Control
    <3>3. c.pc \in {"r1", "token", "resp", "busy"} \/ Commanding(c) \/ Writing(c) => c.tries > 0
      BY <2>3 DEF Control
    <3>4. Shaped(drv')  BY <2>5
    <3> QED  BY <2>3, <2>6, <3>1, <3>2, <3>3, <3>4, StepControl
  <2>8. Dummy \in Symbols  BY DEF Dummy, Symbols
  <2>9. tx' \in Seq(Symbols) /\ Len(tx') <= FIFO /\ tx' # <<>>
    BY <1>0, <2>2, <2>8
  <2>10. upset' \in BOOLEAN  BY <2>2
  <2> QED  BY <2>2, <2>5, <2>7, <2>9, <2>10 DEF NeverStarves
<1>9. CASE spi_read_byte
  <2>1. /\ drv.pc \in Looks /\ ~drv.owe /\ rx # <<>> /\ rx' = Tail(rx) /\ tx' = tx /\ upset' = upset
        /\ drv' = [drv EXCEPT !.byte = Head(rx), !.owe = TRUE]
    BY <1>9 DEF spi_read_byte, Reading, Looks
  <2>2. Shaped(drv)  BY DEF Control
  <2>3. Shaped(drv') /\ Same(drv', drv, {"owe", "byte"}) /\ drv'.owe = TRUE
    BY <2>1, <2>2 DEF Shaped, Fields, Same
  <2>4. /\ drv'.tries = drv.tries /\ drv'.pc = drv.pc
        /\ Same(drv', drv, {"byte", "owe", "i", "buf", "tries"})
    BY <2>3 DEF Same, Fields
  <2>5. Control(drv')
    <3>1. drv'.owe \in BOOLEAN  BY <2>3
    <3>2. drv.tries \in Nat  BY DEF Control
    <3>3. drv.pc \in {"r1", "token", "resp", "busy"} \/ Commanding(drv) \/ Writing(drv) => drv.tries > 0
      BY DEF Control
    <3>4. Shaped(drv')  BY <2>3
    <3> QED  BY <2>4, <3>1, <3>2, <3>3, <3>4, StepControl
  <2>6. rx' \in Seq(Int) /\ Len(rx') <= FIFO  BY <1>0, <2>1
  <2> QED  BY <2>1, <2>3, <2>4, <2>5, <2>6 DEF NeverStarves, Reading, Looks
<1>10. CASE PollWrite
  <2> DEFINE d == [drv EXCEPT !.tries = @ - 1]
             f == [d EXCEPT !.pc = "busy", !.tries = BUSY_TRIES]
  <2>1. /\ drv.pc \in {"resp", "busy"} /\ rx # <<>> /\ rx' = Tail(rx) /\ tx' = tx /\ upset' = upset
        /\ \/ drv' = d /\ d.tries > 0
           \/ drv' = f
           \/ drv' = Deassert(d, FALSE, "idle")
           \/ drv' = Deassert(d, TRUE, "idle")
    BY <1>10 DEF PollWrite
  <2>2. (d.tries > 0 => Control(d)) /\ Control(f) /\ Basic(d)
    BY <2>1, PollControl
  <2>3. Control(Deassert(d, FALSE, "idle")) /\ Control(Deassert(d, TRUE, "idle"))
    BY <2>2, DeassertControl
  <2>4. Control(drv')  BY <2>1, <2>2, <2>3
  <2>5. rx' \in Seq(Int) /\ Len(rx') <= FIFO  BY <1>0, <2>1
  <2>6. ~drv.owe  BY <2>1 DEF Reading
  <2>7. drv'.owe = FALSE /\ ~Reading'
    <3>1. Shaped(drv)  BY DEF Control
    <3>2. Shaped(d) /\ d.owe = FALSE /\ d.pc = drv.pc
      BY <3>1, <2>6 DEF Shaped, Fields, Control
    <3>3. f.owe = FALSE /\ f.pc = "busy"  BY <3>2 DEF Shaped, Fields
    <3>4. ASSUME NEW ok, drv' = Deassert(d, ok, "idle") PROVE drv'.owe = FALSE /\ drv'.pc = "send"
      <4>1. Closed(Deassert(d, ok, "idle"), d, ok, "idle")  BY <3>2, DeassertFields
      <4> QED  BY <3>2, <3>4, <4>1 DEF Closed
    <3>5. drv'.owe = FALSE /\ drv'.pc \in {"resp", "busy", "send"}
      BY <2>1, <3>2, <3>3, <3>4
    <3> QED  BY <3>5 DEF Reading
  <2> QED  BY <2>1, <2>4, <2>5, <2>7 DEF NeverStarves
<1>11. CASE Shift
  <2>1. PICK t \in Turns :
          /\ rx' = IF Len(rx) < FIFO THEN Append(rx, t.in) ELSE rx
          /\ upset' = (upset \/ (t.said /\ Len(rx) = FIFO))
          /\ tx # <<>> /\ tx' = Tail(tx) /\ drv' = drv
    BY <1>11 DEF Shift
  <2>2. t.in \in Int  BY TurnsSay
  <2>3. rx' \in Seq(Int) /\ Len(rx') <= FIFO /\ rx' # <<>>
    <3>1. CASE Len(rx) < FIFO
      <4>1. rx' = Append(rx, t.in)  BY <2>1, <3>1
      <4> QED  BY <1>0, <2>2, <3>1, <4>1
    <3>2. CASE ~(Len(rx) < FIFO)
      <4>1. rx' = rx  BY <2>1, <3>2
      <4> QED  BY <1>0, <3>2, <4>1
    <3> QED  BY <3>1, <3>2
  <2>4. tx' \in Seq(Symbols) /\ Len(tx') <= FIFO  BY <1>0, <2>1
  <2>5. upset' \in BOOLEAN  BY <2>1
  <2> QED  BY <2>1, <2>3, <2>4, <2>5 DEF NeverStarves, Reading
<1>12. CASE UNCHANGED vars
  BY <1>12 DEF vars, NeverStarves, Reading
<1> QED
  BY <1>2, <1>4, <1>5, <1>6, <1>7, <1>8, <1>9, <1>10, <1>11, <1>12 DEF Next, Driver, spi_send_byte

\* Every state keeps to ControlOK.
LEMMA ControlAlways == Spec => [](ControlOK /\ CardOK)
<1>1. Init => ControlOK /\ CardOK  BY ControlInit, CardInit
<1>2. ControlOK /\ CardOK /\ [Next]_vars => (ControlOK /\ CardOK)'  BY ControlStep, CardStep
<1> QED  BY <1>1, <1>2, PTL DEF Spec

\* TypeOK for every value of the constants: neither FIFO is ever overfilled by
\* spi_send_byte, spi_read_byte or the controller, and every field of the driver
\* keeps its range through every call.
THEOREM TypeCorrect == Spec => []TypeOK
<1>1. ControlOK => TypeOK
  <2> SUFFICES ASSUME ControlOK PROVE TypeOK
    OBVIOUS
  <2>1. FIFO \in Nat  BY SdAssumption
  <2>2. Len(tx) \in 0 .. FIFO /\ Len(rx) \in 0 .. FIFO  BY <2>1 DEF ControlOK
  <2>3. (drv.pc = "send") = (drv.out # <<>>)  BY DEF ControlOK, Control
  <2> QED  BY <2>2, <2>3 DEF ControlOK, Control, TypeOK
<1> QED  BY <1>1, ControlAlways, PTL

\* spi_read_byte never waits for a byte that nothing clocks in, whatever the depth of
\* the FIFOs, the card's answers and what the receive FIFO drops.
THEOREM ReadsAreFed == Spec => []NeverStarves
<1>1. ControlOK => NeverStarves  BY DEF ControlOK
<1> QED  BY <1>1, ControlAlways, PTL

(***************************************************************************)
(* What is on its way to the driver.                                       *)
(***************************************************************************)
\* The symbols that have not reached the card.
Unsent == tx \o drv.out

Idle(s) == s.sym \in {"ff", "arg"}
Harmless(s) == \A j \in 1 .. Len(s) : Idle(s[j])
\* c, once, among symbols that make the card do nothing.
Once(s, c) == \E n \in 1 .. Len(s) : s[n] = c /\ \A j \in 1 .. Len(s) : j # n => Idle(s[j])
\* At most the last symbol makes the card act, and only as the end of a write.
Ending(s) == \A j \in 1 .. Len(s) : Idle(s[j]) \/ (j = Len(s) /\ s[j].sym = "end")

\* Nothing that the card has said, or has to say, has not been read.
Blank == \A j \in 1 .. Len(rx) : rx[j] = FF
Clear == card.q = <<>> /\ ~card.mid /\ Blank

\* The command is somewhere on its way to the card.
CrcAhead ==
  /\ Clear /\ (drv.owe => drv.byte = FF)
  /\ Once(Unsent, Crc(drv.cmd, drv.a))

(***************************************************************************)
(* An answer of the card: the R1, what comes behind it, and whether that   *)
(* may be late.                                                            *)
(***************************************************************************)
Answer(w) ==
  /\ w.r1 \in {0, 1, 4, 5} /\ w.rest \in Seq(Int) /\ w.late \in BOOLEAN
  /\ w.late => w.rest # <<>>

FullBlock(a) == [r1 |-> 0, rest |-> <<TOKEN>> \o Blocks[a] \o <<17, 34>>, late |-> TRUE]
ReadError == [r1 |-> 0, rest |-> <<8>>, late |-> TRUE]

\* w is an answer to the command cmd.
To(w, cmd, a) ==
  /\ Answer(w)
  /\ \/ cmd = "CMD17" /\ w \in {FullBlock(a), ReadError}
     \/ cmd \in {"CMD8", "CMD58"} /\ ~Plain(cmd, w.r1) /\ Len(w.rest) = TAIL /\ ~w.late
     \/ (Plain(cmd, w.r1) \/ cmd = "CMD24") /\ w.rest = <<>> /\ ~w.late

\* The byte at place x of the answer w whose second part came g bytes late; FF in
\* front of it, between its parts and behind it.
Heard(w, g, x) ==
  IF x = 1 THEN w.r1
  ELSE IF x - 1 - g \in 1 .. Len(w.rest) THEN w.rest[x - 1 - g] ELSE FF

\* The piece s is the rest of w without its first k bytes.
Says(s, w, k) ==
  /\ s \in Seq(Int) /\ Len(s) = Len(w.rest) - k
  /\ \A j \in 1 .. Len(s) : s[j] = w.rest[k + j]

\* All of w is in q.
Unsaid(q, w) ==
  /\ w.late => Len(q) = 2 /\ q[1] = <<w.r1>> /\ Says(q[2], w, 0)
  /\ ~w.late => /\ Len(q) = 1 /\ q[1] \in Seq(Int) /\ Len(q[1]) = Len(w.rest) + 1 /\ q[1][1] = w.r1
                /\ \A j \in 1 .. Len(w.rest) : q[1][j + 1] = w.rest[j]

\* The card c when m places of w are said, of which n are of the rest.
CardAt(c, w, g, m) ==
  LET n == m - 1 - g
  IN  \/ m = 0 /\ g = 0 /\ ~c.mid /\ Unsaid(c.q, w)
      \/ m > 0 /\ n >= Len(w.rest) /\ c.q = <<>> /\ ~c.mid
      \/ /\ m > 0 /\ n \in 0 .. (Len(w.rest) - 1)
         /\ Len(c.q) = 1 /\ Says(c.q[1], w, n)
         /\ c.mid <=> ~(w.late /\ n = 0)

\* The driver has read p places of the answer w (less than one: those in front of
\* it); the receive FIFO and the card hold the others.
Coming(w, p, g) ==
  /\ p \in Int /\ g \in Nat /\ (~w.late => g = 0)
  /\ CardAt(card, w, g, p + Len(rx))
  /\ \A j \in 1 .. Len(rx) : rx[j] = Heard(w, g, p + j)

(***************************************************************************)
(* The answer as the controller moves it on.                               *)
(***************************************************************************)
\* FF is heard at a place that is not one of the answer.
LEMMA Apart ==
  ASSUME NEW w, NEW g, NEW x, x # 1, ~(x - 1 - g \in 1 .. Len(w.rest))
  PROVE  Heard(w, g, x) = FF
BY DEF Heard

LEMMA InRest ==
  ASSUME NEW w, NEW g, NEW x, x # 1, x - 1 - g \in 1 .. Len(w.rest)
  PROVE  Heard(w, g, x) = w.rest[x - 1 - g]
BY DEF Heard

\* Nothing is heard in front of an answer.
LEMMA Silence ==
  ASSUME NEW w, NEW g \in Nat, NEW x \in Int, x <= 0, w.rest \in Seq(Int)
  PROVE  Heard(w, g, x) = FF
BY DEF Heard

\* Once the whole answer has been read, nothing of it is left.
LEMMA AllRead ==
  ASSUME NEW w, Answer(w), NEW p, NEW g, Coming(w, p, g), p >= 1 + g + Len(w.rest),
         rx \in Seq(Int)
  PROVE  Clear
<1> DEFINE L == Len(w.rest)
           R == Len(rx)
<1>0. p \in Int /\ g \in Nat /\ L \in Nat /\ R \in Nat
  BY DEF Coming, Answer
<1>1. p >= 1 + g + L  OBVIOUS
<1>2. CardAt(card, w, g, p + R)  BY DEF Coming
<1> HIDE DEF R, L
<1>3. p + R > 0 /\ ~(p + R = 0) /\ ~(p + R - 1 - g <= L - 1) /\ p + R - 1 - g >= L  BY <1>0, <1>1
<1>4. card.q = <<>> /\ ~card.mid
  BY <1>0, <1>2, <1>3 DEF CardAt, L
<1>5. ASSUME NEW j \in 1 .. R PROVE rx[j] = FF
  <2>1. rx[j] = Heard(w, g, p + j)  BY DEF Coming, R
  <2>2. j \in Int /\ j >= 1  BY <1>0
  <2>3. p + j # 1 /\ ~(p + j - 1 - g <= L)  BY <1>0, <1>1, <2>2
  <2>4. ~(p + j - 1 - g \in 1 .. Len(w.rest))  BY <1>0, <2>2, <2>3 DEF L
  <2>5. Heard(w, g, p + j) = FF
    <3> DEFINE x == p + j
    <3>1. x # 1 /\ ~(x - 1 - g \in 1 .. Len(w.rest))  BY <1>0, <2>2, <2>3, <2>4
    <3> HIDE DEF x
    <3>2. Heard(w, g, x) = FF  BY <3>1, Apart
    <3> QED  BY <3>2 DEF x
  <2> QED  BY <2>1, <2>5
<1> QED  BY <1>4, <1>5 DEF Clear, Blank, R

\* spi_read_byte takes the next place of the answer.
LEMMA PlaceRead ==
  ASSUME NEW w, Answer(w), NEW p, NEW g, Coming(w, p, g), rx \in Seq(Int), rx # <<>>, rx' = Tail(rx),
         card' = card
  PROVE  Coming(w, p + 1, g)' /\ Head(rx) = Heard(w, g, p + 1)
<1>1. /\ p \in Int /\ g \in Nat /\ Len(rx) \in Nat /\ Len(rx) >= 1
      /\ Head(rx) = rx[1] /\ Len(rx') = Len(rx) - 1
      /\ \A j \in 1 .. (Len(rx) - 1) : rx'[j] = rx[j + 1]
  BY Shortened DEF Coming
<1>2. p + 1 + Len(rx') = p + Len(rx)  BY <1>1
<1>3. \A j \in 1 .. Len(rx') : rx'[j] = Heard(w, g, p + 1 + j)
  <2> SUFFICES ASSUME NEW j \in 1 .. Len(rx') PROVE rx'[j] = Heard(w, g, p + 1 + j)
    OBVIOUS
  <2>1. j + 1 \in 1 .. Len(rx) /\ p + (j + 1) = p + 1 + j /\ j \in 1 .. (Len(rx) - 1)  BY <1>1
  <2>2. rx[j + 1] = Heard(w, g, p + (j + 1))  BY <2>1 DEF Coming
  <2> QED  BY <1>1, <2>1, <2>2
<1>4. CardAt(card, w, g, p + 1 + Len(rx'))  BY <1>2 DEF Coming
<1>5. Head(rx) = Heard(w, g, p + 1)  BY <1>1 DEF Coming
<1>6. p + 1 \in Int /\ (~w.late => g = 0)  BY <1>1 DEF Coming
<1> QED  BY <1>1, <1>3, <1>4, <1>5, <1>6 DEF Coming

\* One more byte in the receive FIFO.
LEMMA PlaceAdded ==
  ASSUME NEW w, NEW p \in Int, NEW g \in Nat, ~w.late => g = 0, rx \in Seq(Int), NEW b,
         b \in Int, rx' = Append(rx, b), b = Heard(w, g, p + Len(rx) + 1),
         \A j \in 1 .. Len(rx) : rx[j] = Heard(w, g, p + j),
         CardAt(card', w, g, p + Len(rx) + 1)
  PROVE  Coming(w, p, g)'
<1>1. Len(rx) \in Nat /\ Len(rx') = Len(rx) + 1 /\ rx'[Len(rx) + 1] = b
  OBVIOUS
<1>2. \A j \in 1 .. Len(rx) : rx'[j] = rx[j]  OBVIOUS
<1>3. p + Len(rx') = p + Len(rx) + 1 /\ p + (Len(rx) + 1) = p + Len(rx) + 1  BY <1>1
<1>4. \A j \in 1 .. Len(rx') : rx'[j] = Heard(w, g, p + j)
  <2> SUFFICES ASSUME NEW j \in 1 .. Len(rx') PROVE rx'[j] = Heard(w, g, p + j)
    OBVIOUS
  <2>1. CASE j \in 1 .. Len(rx)  BY <1>2, <2>1
  <2>2. CASE j = Len(rx) + 1  BY <1>1, <1>3, <2>2
  <2> QED  BY <1>1, <2>1, <2>2
<1>5. CardAt(card', w, g, p + Len(rx'))  BY <1>3
<1> QED  BY <1>4, <1>5 DEF Coming

\* The card lets a byte pass before it answers, or between the parts of its answer.
LEMMA Waited ==
  ASSUME NEW w, Answer(w), NEW p, NEW g, Coming(w, p, g), rx \in Seq(Int),
         ~card.mid, card' = card, rx' = Append(rx, FF)
  PROVE  \E p2 \in Int, g2 \in Nat :
           /\ Coming(w, p2, g2)' /\ g2 >= g /\ (p2 = p \/ (p <= 0 /\ p2 <= 0))
           /\ g2 = g \/ p <= 1 + g
           /\ Heard(w, g2, p2) = Heard(w, g, p)
<1> DEFINE L == Len(w.rest)
           R == Len(rx)
           m == p + R
<1>0. p \in Int /\ g \in Nat /\ L \in Nat /\ R \in Nat /\ m \in Int /\ (~w.late => g = 0)
      /\ w.rest \in Seq(Int) /\ FF \in Int
  BY DEF Coming, Answer, FF
<1>1. CardAt(card, w, g, m)  BY DEF Coming
<1>2. \A j \in 1 .. R : rx[j] = Heard(w, g, p + j)  BY DEF Coming
<1>3. m = p + R  OBVIOUS
<1> HIDE DEF L, R, m
<1>4. CASE m = 0 /\ g = 0 /\ ~card.mid /\ Unsaid(card.q, w)
  <2>1. p <= 0 /\ p - 1 \in Int /\ p - 1 <= 0  BY <1>0, <1>3, <1>4
  <2>2. \A j \in 1 .. R : rx[j] = Heard(w, 0, p - 1 + j)
    <3> SUFFICES ASSUME NEW j \in 1 .. R PROVE rx[j] = Heard(w, 0, p - 1 + j)
      OBVIOUS
    <3>1. p + j \in Int /\ p + j <= 0 /\ p - 1 + j \in Int /\ p - 1 + j <= 0  BY <1>0, <1>3, <1>4
    <3>2. rx[j] = Heard(w, 0, p + j)  BY <1>2, <1>4
    <3>3. Heard(w, 0, p + j) = FF  BY <1>0, <3>1, Silence
    <3>4. Heard(w, 0, p - 1 + j) = FF  BY <1>0, <3>1, Silence
    <3> QED  BY <3>2, <3>3, <3>4
  <2>3. p - 1 + R + 1 = 0  BY <1>0, <1>3, <1>4
  <2>4. FF = Heard(w, 0, p - 1 + R + 1)
    <3>1. Heard(w, 0, 0) = FF  BY <1>0, Silence
    <3> QED  BY <2>3, <3>1
  <2>5. CardAt(card', w, 0, p - 1 + R + 1)  BY <1>1, <1>4, <2>3
  <2>6. Coming(w, p - 1, 0)'  BY <1>0, <2>1, <2>2, <2>4, <2>5, PlaceAdded DEF R
  <2>7. Heard(w, 0, p - 1) = FF /\ Heard(w, 0, p) = FF  BY <1>0, <2>1, Silence
  <2> QED  BY <1>4, <2>1, <2>6, <2>7
<1>5. CASE m > 0 /\ m - 1 - g >= L /\ card.q = <<>> /\ ~card.mid
  <2>1. m + 1 > 0 /\ m + 1 - 1 - g >= L /\ m + 1 # 1 /\ ~(m + 1 - 1 - g <= L) /\ m + 1 \in Int
    BY <1>0, <1>5
  <2>2. CardAt(card', w, g, m + 1)  BY <1>0, <1>5, <2>1 DEF CardAt, L
  <2>3. ~(m + 1 - 1 - g \in 1 .. Len(w.rest))  BY <1>0, <2>1 DEF L
  <2>4. Heard(w, g, m + 1) = FF
    <3> DEFINE x == m + 1
    <3>1. x # 1 /\ ~(x - 1 - g \in 1 .. Len(w.rest))  BY <1>0, <2>1, <2>3
    <3> HIDE DEF x
    <3>2. Heard(w, g, x) = FF  BY <3>1, Apart
    <3> QED  BY <3>2 DEF x
  <2>5. Coming(w, p, g)'  BY <1>0, <1>2, <1>3, <2>2, <2>4, PlaceAdded DEF R
  <2> QED  BY <1>0, <2>5
<1>6. CASE m > 0 /\ m - 1 - g \in 0 .. (L - 1) /\ Len(card.q) = 1
           /\ Says(card.q[1], w, m - 1 - g) /\ w.late /\ m - 1 - g = 0
  <2>1. g + 1 \in Nat /\ m + 1 > 0 /\ m + 1 - 1 - (g + 1) = 0 /\ m = g + 1 /\ p <= m
    BY <1>0, <1>3, <1>6
  <2>2. CardAt(card', w, g + 1, m + 1)  BY <1>0, <1>6, <2>1 DEF CardAt, L
  <2>3. ASSUME NEW x \in Int, x <= m PROVE Heard(w, g + 1, x) = Heard(w, g, x)
    <3>1. CASE x = 1  BY <3>1 DEF Heard
    <3>2. CASE x # 1
      <4>1. ~(x - 1 - g >= 1) /\ ~(x - 1 - (g + 1) >= 1)  BY <1>0, <2>1, <2>3
      <4>2. ~(x - 1 - g \in 1 .. Len(w.rest)) /\ ~(x - 1 - (g + 1) \in 1 .. Len(w.rest))
        BY <1>0, <2>1, <4>1 DEF L
      <4>3. Heard(w, g, x) = FF  BY <3>2, <4>2, Apart
      <4>4. Heard(w, g + 1, x) = FF  BY <3>2, <4>2, Apart
      <4> QED  BY <4>3, <4>4
    <3> QED  BY <3>1, <3>2
  <2>4. \A j \in 1 .. R : rx[j] = Heard(w, g + 1, p + j)
    <3> SUFFICES ASSUME NEW j \in 1 .. R PROVE rx[j] = Heard(w, g + 1, p + j)
      OBVIOUS
    <3>1. p + j \in Int /\ p + j <= m  BY <1>0, <1>3
    <3>2. Heard(w, g + 1, p + j) = Heard(w, g, p + j)  BY <2>3, <3>1
    <3> QED  BY <1>2, <3>2
  <2>5. Heard(w, g + 1, m + 1) = FF
    <3> DEFINE x == m + 1
               h == g + 1
    <3>1. x # 1 /\ ~(x - 1 - h \in 1 .. Len(w.rest))
      <4>1. m + 1 # 1 /\ ~(m + 1 - 1 - (g + 1) >= 1)  BY <1>0, <1>6, <2>1
      <4> QED  BY <1>0, <2>1, <4>1 DEF L
    <3> HIDE DEF x, h
    <3>2. Heard(w, h, x) = FF  BY <3>1, Apart
    <3> QED  BY <3>2 DEF x, h
  <2>6. Coming(w, p, g + 1)'  BY <1>0, <1>3, <1>6, <2>1, <2>2, <2>4, <2>5, PlaceAdded DEF R
  <2>7. Heard(w, g + 1, p) = Heard(w, g, p)  BY <1>0, <2>1, <2>3
  <2>8. g + 1 >= g /\ p <= 1 + g  BY <1>0, <2>1
  <2> QED  BY <1>0, <2>1, <2>6, <2>7, <2>8
<1> QED
  BY <1>1, <1>4, <1>5, <1>6 DEF CardAt, L

\* The card says the next byte of its answer.
LEMMA SaidFirst ==
  ASSUME card.q \in Seq(Pieces), card.q # <<>>
  PROVE  /\ Head(card.q) = card.q[1] /\ card.q[1] \in Seq(Int) /\ card.q[1] # <<>>
         /\ Head(Head(card.q)) = card.q[1][1] /\ card.q[1][1] \in Int
         /\ Len(card.q[1]) = 1 => Said.q = Tail(card.q) /\ ~Said.mid
         /\ Len(card.q[1]) # 1 =>
              /\ Len(Said.q) = Len(card.q) /\ Said.q[1] = Tail(card.q[1]) /\ Said.mid
              /\ Tail(card.q[1]) \in Seq(Int) /\ Len(Tail(card.q[1])) = Len(card.q[1]) - 1
              /\ \A j \in 1 .. (Len(card.q[1]) - 1) : Tail(card.q[1])[j] = card.q[1][j + 1]
<1> DEFINE q == card.q
           s == q[1]
<1>1. Head(q) = s /\ s \in Pieces /\ Tail(q) \in Seq(Pieces) /\ Len(q) \in Nat
      /\ Len(Tail(q)) = Len(q) - 1
  BY Shortened
<1>2. s \in Seq(Int) /\ s # <<>>  BY <1>1 DEF Pieces
<1> HIDE DEF s
<1>3. /\ Head(s) \in Int /\ Head(s) = s[1] /\ Tail(s) \in Seq(Int)
      /\ Len(Tail(s)) = Len(s) - 1 /\ (Len(s) # 1 => Tail(s) # <<>>)
      /\ \A j \in 1 .. (Len(s) - 1) : Tail(s)[j] = s[j + 1]
  BY <1>2, Shortened
<1>4. CASE Len(s) = 1
  <2>1. Said = [q |-> Tail(q), mid |-> FALSE]  BY <1>1, <1>4 DEF Said
  <2>2. Said.q = Tail(q) /\ ~Said.mid  BY <2>1
  <2> QED  BY <1>1, <1>2, <1>3, <1>4, <2>2 DEF s
<1>5. CASE Len(s) # 1
  <2> DEFINE r == Tail(s)
             u == <<r>> \o Tail(q)
  <2>1. Said = [q |-> u, mid |-> TRUE]  BY <1>1, <1>5 DEF Said
  <2>2. r \in Pieces  BY <1>3, <1>5 DEF Pieces
  <2> HIDE DEF r
  <2>3. <<r>> \in Seq(Pieces) /\ Len(<<r>>) = 1 /\ <<r>>[1] = r  BY <2>2
  <2>4. Len(u) = 1 + Len(Tail(q)) /\ u[1] = r
    <3>1. /\ Len(u) = Len(<<r>>) + Len(Tail(q))
          /\ \A j \in 1 .. (Len(<<r>>) + Len(Tail(q))) :
              u[j] = IF j <= Len(<<r>>) THEN <<r>>[j] ELSE Tail(q)[j - Len(<<r>>)]
      BY <1>1, <2>3, Joined
    <3>2. Len(Tail(q)) \in Nat  BY <1>1
    <3> HIDE DEF u
    <3>3. 1 \in 1 .. (1 + Len(Tail(q)))  BY <3>2
    <3> QED  BY <2>3, <3>1, <3>3
  <2> HIDE DEF u
  <2>5. Len(u) = Len(q)  BY <1>1, <2>4
  <2>6. Said.q = u /\ Said.mid  BY <2>1
  <2> QED  BY <1>1, <1>2, <1>3, <1>5, <2>4, <2>5, <2>6 DEF s, r
<1> QED  BY <1>4, <1>5

LEMMA Spoke ==
  ASSUME NEW w, Answer(w), NEW p, NEW g, Coming(w, p, g), rx \in Seq(Int), CardOK,
         card.q # <<>>, card' = Said, rx' = Append(rx, Head(Head(card.q)))
  PROVE  Coming(w, p, g)'
<1> DEFINE L == Len(w.rest)
           R == Len(rx)
           m == p + R
           q == card.q
           s == q[1]
           b == Head(Head(q))
           T == Tail(q)
           u == Tail(s)
           c == Said
<1>0. p \in Int /\ g \in Nat /\ L \in Nat /\ R \in Nat /\ m \in Int /\ (~w.late => g = 0)
      /\ w.rest \in Seq(Int)
  BY DEF Coming, Answer
<1>1. CardAt(card, w, g, m)  BY DEF Coming
<1>2. \A j \in 1 .. R : rx[j] = Heard(w, g, p + j)  BY DEF Coming
<1>3. m = p + R  OBVIOUS
<1>4. q \in Seq(Pieces) /\ q # <<>>  BY DEF CardOK
<1>5. s \in Seq(Int) /\ s # <<>> /\ b = s[1] /\ b \in Int
  BY <1>4, SaidFirst
<1>11. Len(s) = 1 => c.q = T /\ ~c.mid
  BY <1>4, SaidFirst
<1>12. Len(s) # 1 =>
         /\ Len(c.q) = Len(q) /\ c.q[1] = u /\ c.mid
         /\ u \in Seq(Int) /\ Len(u) = Len(s) - 1
         /\ \A j \in 1 .. (Len(s) - 1) : u[j] = s[j + 1]
  BY <1>4, SaidFirst
<1>6. Len(s) \in Nat /\ Len(q) \in Nat  BY <1>4, <1>5
<1>7. Len(T) = Len(q) - 1 /\ (\A j \in 1 .. (Len(q) - 1) : T[j] = q[j + 1]) /\ T \in Seq(Pieces)
  BY <1>4, Shortened
<1> HIDE DEF L, R, m, T, u, c
<1>8. SUFFICES b = Heard(w, g, m + 1) /\ CardAt(c, w, g, m + 1)
  BY <1>0, <1>2, <1>3, <1>5, PlaceAdded DEF R, c
<1> HIDE DEF q, s, b
<1>13. Len(q) = 1 => T = <<>>
  <2>1. Len(q) = 1 => Len(T) = 0  BY <1>7
  <2> QED  BY <1>7, <2>1, EmptySeq
<1>9. CASE m = 0 /\ g = 0 /\ Unsaid(q, w)
  <2>1. m + 1 = 1 /\ m + 1 - 1 - g = 0 /\ m + 1 > 0  BY <1>9
  <2>2. CASE w.late
    <3>1. Len(q) = 2 /\ s = <<w.r1>> /\ Says(q[2], w, 0)  BY <1>9, <2>2 DEF Unsaid, s
    <3>2. Len(s) = 1 /\ s[1] = w.r1  BY <3>1
    <3>8. 1 \in 1 .. (Len(q) - 1)  BY <3>1
    <3>9. Len(T) = 1 /\ T[1] = q[2]  BY <1>7, <3>1, <3>8
    <3>3. c.q = T /\ ~c.mid  BY <1>11, <3>2
    <3>4. L > 0  BY <1>0, <2>2 DEF Answer, L
    <3>5. 0 \in 0 .. (L - 1)  BY <1>0, <3>4
    <3>6. CardAt(c, w, g, m + 1)
      BY <1>0, <1>9, <2>1, <2>2, <3>1, <3>3, <3>5, <3>9 DEF CardAt, L
    <3>7. b = Heard(w, g, m + 1)  BY <1>5, <2>1, <3>2 DEF Heard
    <3> QED  BY <3>6, <3>7
  <2>3. CASE ~w.late
    <3>1. Len(q) = 1 /\ Len(s) = L + 1 /\ s[1] = w.r1 /\ \A j \in 1 .. L : s[j + 1] = w.rest[j]
      BY <1>9, <2>3 DEF Unsaid, L, s
    <3>2. b = Heard(w, g, m + 1)  BY <1>5, <2>1, <3>1 DEF Heard
    <3>3. CASE L = 0
      <4>4. Len(s) = 1  BY <3>1, <3>3
      <4>1. c.q = T /\ ~c.mid  BY <1>11, <4>4
      <4>2. T = <<>>  BY <1>13, <3>1
      <4>3. CardAt(c, w, g, m + 1)  BY <1>0, <1>9, <2>1, <3>3, <4>1, <4>2 DEF CardAt, L
      <4> QED  BY <3>2, <4>3
    <3>4. CASE L # 0
      <4>1. Len(s) # 1 /\ Len(s) - 1 = L /\ 0 \in 0 .. (L - 1)  BY <1>0, <3>1, <3>4
      <4>2. Len(c.q) = 1 /\ c.mid /\ c.q[1] = u  BY <1>12, <3>1, <4>1
      <4>3. Says(u, w, 0)
        <5>1. u \in Seq(Int) /\ Len(u) = L  BY <1>0, <1>12, <4>1
        <5>2. \A j \in 1 .. L : u[j] = w.rest[j]  BY <1>12, <3>1, <4>1
        <5>3. L - 0 = L /\ \A j \in 1 .. L : 0 + j = j  BY <1>0
        <5>4. \A j \in 1 .. L : u[j] = w.rest[0 + j]  BY <5>2, <5>3
        <5> QED  BY <5>1, <5>3, <5>4 DEF Says, L
      <4>4. CardAt(c, w, g, m + 1)  BY <1>0, <1>9, <2>1, <2>3, <4>1, <4>2, <4>3 DEF CardAt, L
      <4> QED  BY <3>2, <4>4
    <3> QED  BY <3>3, <3>4
  <2> QED  BY <2>2, <2>3
<1>10. ASSUME m > 0, m - 1 - g \in 0 .. (L - 1), Len(q) = 1, Says(s, w, m - 1 - g)
       PROVE  b = Heard(w, g, m + 1) /\ CardAt(c, w, g, m + 1)
  <2> DEFINE n == m - 1 - g
  <2>1. /\ n \in Nat /\ n < L /\ m + 1 # 1 /\ m + 1 - 1 - g = n + 1 /\ n + 1 \in 1 .. L /\ m + 1 > 0
        /\ m + 1 \in Int
    BY <1>0, <1>10
  <2>2. Says(s, w, n)  BY <1>10
  <2> HIDE DEF n
  <2>3. Len(s) = L - n /\ \A j \in 1 .. Len(s) : s[j] = w.rest[n + j]  BY <2>2 DEF Says, L
  <2>4. b = w.rest[n + 1]
    <3>1. 1 \in 1 .. Len(s)  BY <1>0, <2>1, <2>3
    <3> QED  BY <1>5, <2>3, <3>1
  <2>5. Heard(w, g, m + 1) = w.rest[n + 1]
    <3> DEFINE x == m + 1
    <3>1. x # 1 /\ x - 1 - g = n + 1  BY <1>0, <2>1
    <3> HIDE DEF x
    <3>2. x - 1 - g \in 1 .. Len(w.rest)  BY <2>1, <3>1 DEF L
    <3>3. Heard(w, g, x) = w.rest[x - 1 - g]  BY <3>1, <3>2, InRest
    <3> QED  BY <3>1, <3>3 DEF x
  <2>6. CASE Len(s) = 1
    <3>1. c.q = T /\ ~c.mid  BY <1>11, <2>6
    <3>2. T = <<>>  BY <1>10, <1>13
    <3>5. L - n = 1  BY <2>3, <2>6
    <3>3. n + 1 >= L  BY <1>0, <2>1, <3>5
    <3>4. CardAt(c, w, g, m + 1)  BY <1>0, <2>1, <3>1, <3>2, <3>3 DEF CardAt, L
    <3> QED  BY <2>4, <2>5, <3>4
  <2>7. CASE Len(s) # 1
    <3>1. n + 1 \in 0 .. (L - 1) /\ n + 1 # 0 /\ Len(s) - 1 = L - (n + 1)
      <4>1. Len(s) > 1  BY <1>0, <2>1, <2>3, <2>7
      <4> QED  BY <1>0, <2>1, <2>3, <4>1
    <3>2. Len(c.q) = 1 /\ c.mid /\ c.q[1] = u  BY <1>10, <1>12, <2>7
    <3>3. Says(u, w, n + 1)
      <4>1. u \in Seq(Int) /\ Len(u) = L - (n + 1)  BY <1>12, <2>7, <3>1
      <4>2. \A j \in 1 .. (Len(s) - 1) : u[j] = w.rest[n + 1 + j]
        <5> SUFFICES ASSUME NEW j \in 1 .. (Len(s) - 1) PROVE u[j] = w.rest[n + 1 + j]
          OBVIOUS
        <5>1. j + 1 \in 1 .. Len(s) /\ n + (j + 1) = n + 1 + j  BY <1>6, <2>1
        <5>2. s[j + 1] = w.rest[n + (j + 1)]  BY <2>3, <5>1
        <5> QED  BY <1>12, <2>7, <5>1, <5>2
      <4> QED  BY <3>1, <4>1, <4>2 DEF Says, L
    <3>4. CardAt(c, w, g, m + 1)  BY <1>0, <2>1, <3>1, <3>2, <3>3 DEF CardAt, L
    <3> QED  BY <2>4, <2>5, <3>4
  <2> QED  BY <2>6, <2>7
<1> QED
  BY <1>1, <1>4, <1>9, <1>10 DEF CardAt, L, q, s

\* The answer of a read: the token, the block and its checksum.
LEMMA AnswerBlock ==
  ASSUME NEW a \in DOMAIN Blocks
  PROVE  /\ Answer(FullBlock(a)) /\ Answer(ReadError)
         /\ FullBlock(a).late /\ FullBlock(a).r1 = 0 /\ Len(FullBlock(a).rest) = BLOCK + 3
         /\ FullBlock(a).rest[1] = TOKEN
         /\ \A i \in 1 .. BLOCK : FullBlock(a).rest[i + 1] = Blocks[a][i]
         /\ ReadError.late /\ ReadError.r1 = 0 /\ ReadError.rest = <<8>>
<1> DEFINE b == Blocks[a]
           r == <<TOKEN>> \o b
           s == r \o <<17, 34>>
<1>1. b \in Seq(Int) /\ Len(b) = BLOCK /\ BLOCK \in Nat
  <2>1. b \in Seq(0 .. 255)  BY SdAssumption
  <2> QED  BY <2>1, Widened, SdAssumption
<1>2. <<TOKEN>> \in Seq(Int) /\ Len(<<TOKEN>>) = 1 /\ <<TOKEN>>[1] = TOKEN  BY DEF TOKEN
<1>3. <<17, 34>> \in Seq(Int) /\ Len(<<17, 34>>) = 2  OBVIOUS
<1> HIDE DEF b
<1>4. /\ r \in Seq(Int) /\ Len(r) = Len(<<TOKEN>>) + Len(b)
      /\ \A j \in 1 .. (Len(<<TOKEN>>) + Len(b)) :
           r[j] = IF j <= Len(<<TOKEN>>) THEN <<TOKEN>>[j] ELSE b[j - Len(<<TOKEN>>)]
  BY <1>1, <1>2, Joined
<1> HIDE DEF r
<1>5. /\ Len(r) = BLOCK + 1
      /\ \A j \in 1 .. (BLOCK + 1) : r[j] = IF j <= 1 THEN <<TOKEN>>[j] ELSE b[j - 1]
  BY <1>1, <1>2, <1>4
<1>6. /\ s \in Seq(Int) /\ Len(s) = Len(r) + Len(<<17, 34>>)
      /\ \A j \in 1 .. (Len(r) + Len(<<17, 34>>)) :
           s[j] = IF j <= Len(r) THEN r[j] ELSE <<17, 34>>[j - Len(r)]
  BY <1>3, <1>4, Joined
<1> HIDE DEF s
<1>7. Len(s) = BLOCK + 3 /\ \A j \in 1 .. (BLOCK + 1) : s[j] = r[j]
  BY <1>1, <1>3, <1>5, <1>6
<1>8. s[1] = TOKEN
  <2>1. 1 \in 1 .. (BLOCK + 1)  BY <1>1
  <2> QED  BY <1>2, <1>5, <1>7, <2>1
<1>9. \A i \in 1 .. BLOCK : s[i + 1] = b[i]
  <2> SUFFICES ASSUME NEW i \in 1 .. BLOCK PROVE s[i + 1] = b[i]
    OBVIOUS
  <2>1. i + 1 \in 1 .. (BLOCK + 1) /\ ~(i + 1 <= 1) /\ i + 1 - 1 = i  BY <1>1
  <2>2. s[i + 1] = r[i + 1]  BY <1>7, <2>1
  <2>3. r[i + 1] = b[i + 1 - 1]  BY <1>5, <2>1
  <2> QED  BY <2>1, <2>2, <2>3
<1>10. s # <<>>  BY <1>1, <1>7
<1>11. FullBlock(a).rest = s /\ FullBlock(a).r1 = 0 /\ FullBlock(a).late = TRUE
  BY DEF FullBlock, s, r, b
<1>12. ReadError.rest = <<8>> /\ ReadError.r1 = 0 /\ ReadError.late = TRUE
  BY DEF ReadError
<1>13. <<8>> \in Seq(Int) /\ <<8>> # <<>>  OBVIOUS
<1>14. Answer(FullBlock(a))
  <2>1. FullBlock(a).late \in BOOLEAN  BY <1>11
  <2> QED  BY <1>6, <1>10, <1>11, <2>1 DEF Answer
<1>15. Answer(ReadError)
  <2>1. ReadError.late \in BOOLEAN  BY <1>12
  <2> QED  BY <1>12, <1>13, <2>1 DEF Answer
<1> QED  BY <1>7, <1>8, <1>9, <1>11, <1>12, <1>14, <1>15 DEF b

\* What the controller does to the receive FIFO.
Received(t) ==
  /\ t \in Turns /\ card' = t.next
  /\ rx' = IF Len(rx) < FIFO THEN Append(rx, t.in) ELSE rx
  /\ ~(t.said /\ Len(rx) = FIFO)

\* A byte exchanged while w is coming moves w on and loses nothing of it.
LEMMA Moved ==
  ASSUME NEW w, Answer(w), NEW p, NEW g, Coming(w, p, g), rx \in Seq(Int), Len(rx) <= FIFO,
         CardOK, drv.cs, NEW t, Received(t)
  PROVE  \E p2 \in Int, g2 \in Nat :
           /\ Coming(w, p2, g2)' /\ g2 >= g /\ (p2 = p \/ (p <= 0 /\ p2 <= 0))
           /\ g2 = g \/ p <= 1 + g
           /\ Heard(w, g2, p2) = Heard(w, g, p)
<1>1. p \in Int /\ g \in Nat /\ FIFO \in Nat /\ Len(rx) \in Nat  BY SdAssumption DEF Coming
<1>2. CASE ~(Len(rx) < FIFO) /\ card' = card
  <2>1. rx' = rx  BY <1>2 DEF Received
  <2>2. Coming(w, p, g)'  BY <1>2, <2>1 DEF Coming
  <2> QED  BY <1>1, <2>2
<1>3. CASE t = [in |-> FF, said |-> FALSE, next |-> card] /\ ~card.mid
  <2>1. card' = card /\ t.in = FF  BY <1>3 DEF Received
  <2>2. CASE Len(rx) < FIFO
    <3>1. rx' = Append(rx, FF)  BY <2>1, <2>2 DEF Received
    <3> QED  BY <1>3, <2>1, <3>1, Waited
  <2> QED  BY <1>2, <2>1, <2>2
<1>4. CASE card.q # <<>> /\ t = [in |-> Head(Head(card.q)), said |-> TRUE, next |-> Said]
  <2>1. t.in = Head(Head(card.q)) /\ t.said /\ t.next = Said  BY <1>4
  <2>2. Len(rx) < FIFO  BY <1>1, <2>1 DEF Received
  <2>3. card' = Said /\ rx' = Append(rx, Head(Head(card.q)))  BY <2>1, <2>2 DEF Received
  <2>4. Coming(w, p, g)'  BY <1>4, <2>3, Spoke
  <2> QED  BY <1>1, <2>4
<1> QED  BY <1>3, <1>4 DEF Received, Turns

\* A byte exchanged with a card that has nothing to say.
LEMMA Nothing ==
  ASSUME Blank, rx \in Seq(Int), NEW t, t \in Turns,
         rx' = IF Len(rx) < FIFO THEN Append(rx, t.in) ELSE rx,
         card.q = <<>> \/ ~drv.cs, ~card.mid
  PROVE  /\ Blank' /\ (drv.cs => t.next = card) /\ (~drv.cs => t.next = Quiet)
         /\ Len(rx') <= Len(rx) + 1
<1>1. t.in = FF /\ (drv.cs => t.next = card) /\ (~drv.cs => t.next = Quiet)
  BY DEF Turns
<1>2. CASE rx' = rx  BY <1>1, <1>2 DEF Blank
<1>3. CASE rx' = Append(rx, FF)
  <2>1. Len(rx) \in Nat /\ Len(rx') = Len(rx) + 1 /\ rx'[Len(rx) + 1] = FF
    BY <1>3 DEF FF
  <2>2. \A j \in 1 .. Len(rx) : rx'[j] = rx[j]  BY <1>3 DEF FF
  <2>3. \A j \in 1 .. Len(rx') : j \in 1 .. Len(rx) \/ j = Len(rx) + 1  BY <2>1
  <2> QED  BY <1>1, <2>1, <2>2, <2>3 DEF Blank
<1> QED  BY <1>1, <1>2, <1>3

\* What the card answers to a command.
LEMMA AnswersAre ==
  ASSUME NEW cmd \in Commands, NEW a, cmd = "CMD17" => a \in DOMAIN Blocks,
         NEW q \in Answers(Crc(cmd, a))
  PROVE  \E w : To(w, cmd, a) /\ Unsaid(q, w)
<1>0. Crc(cmd, a).cmd = cmd /\ Crc(cmd, a).a = a /\ TAIL \in Nat \ {0}
  BY SdAssumption DEF Crc
<1>1. ASSUME NEW v \in {0, 1, 4, 5}, q = << <<v>> >>, Plain(cmd, v) \/ cmd = "CMD24"
      PROVE  \E w : To(w, cmd, a) /\ Unsaid(q, w)
  <2> DEFINE w == [r1 |-> v, rest |-> <<>>, late |-> FALSE]
  <2>1. w.r1 = v /\ w.rest = <<>> /\ w.late = FALSE  OBVIOUS
  <2> HIDE DEF w
  <2>2. <<>> \in Seq(Int) /\ Len(<<>>) = 0  OBVIOUS
  <2>3. To(w, cmd, a)  BY <1>1, <2>1, <2>2 DEF To, Answer
  <2>4. Len(q) = 1 /\ q[1] = <<v>>  BY <1>1
  <2>5. <<v>> \in Seq(Int) /\ Len(<<v>>) = 1 /\ <<v>>[1] = v  BY <1>1
  <2>6. Unsaid(q, w)  BY <2>1, <2>2, <2>4, <2>5 DEF Unsaid
  <2> QED  BY <2>3, <2>6
<1>2. ASSUME NEW s \in Seq(Int), Len(s) = TAIL + 1, q = <<s>>, s[1] \in {0, 1, 4, 5},
             cmd \in {"CMD8", "CMD58"}, ~Plain(cmd, s[1])
      PROVE  \E w : To(w, cmd, a) /\ Unsaid(q, w)
  <2> DEFINE w == [r1 |-> s[1], rest |-> Tail(s), late |-> FALSE]
  <2>1. w.r1 = s[1] /\ w.rest = Tail(s) /\ w.late = FALSE  OBVIOUS
  <2> HIDE DEF w
  <2>2. s # <<>>  BY <1>0, <1>2
  <2>3. Tail(s) \in Seq(Int) /\ Len(Tail(s)) = Len(s) - 1
        /\ \A j \in 1 .. (Len(s) - 1) : Tail(s)[j] = s[j + 1]
    BY <2>2, Shortened
  <2>4. w.rest \in Seq(Int) /\ Len(w.rest) = TAIL /\ Len(s) = Len(w.rest) + 1
        /\ \A j \in 1 .. TAIL : w.rest[j] = s[j + 1]
    BY <1>0, <1>2, <2>1, <2>3
  <2>5. To(w, cmd, a)  BY <1>2, <2>1, <2>4 DEF To, Answer
  <2>6. Len(q) = 1 /\ q[1] = s  BY <1>2
  <2>7. Unsaid(q, w)  BY <1>2, <2>1, <2>4, <2>6 DEF Unsaid
  <2> QED  BY <2>5, <2>7
<1>3. ASSUME NEW w, w.late = TRUE, To(w, cmd, a), q = << <<w.r1>>, w.rest >>
      PROVE  \E x : To(x, cmd, a) /\ Unsaid(q, x)
  <2>1. Len(q) = 2 /\ q[1] = <<w.r1>> /\ q[2] = w.rest  BY <1>3
  <2>2. w.rest \in Seq(Int)  BY <1>3 DEF To, Answer
  <2>3. Says(w.rest, w, 0)
    <3>1. Len(w.rest) - 0 = Len(w.rest) /\ \A j \in 1 .. Len(w.rest) : 0 + j = j  BY <2>2
    <3> QED  BY <2>2, <3>1 DEF Says
  <2>4. Unsaid(q, w)  BY <1>3, <2>1, <2>3 DEF Unsaid
  <2> QED  BY <1>3, <2>4
<1>4. CASE cmd \in {"CMD0", "CMD55", "ACMD41"}
  <2>1. \E v \in {0, 1, 4, 5} : q = << <<v>> >>  BY <1>0, <1>4 DEF Answers
  <2>2. \A v : Plain(cmd, v)  BY <1>4 DEF Plain
  <2> QED  BY <1>1, <2>1, <2>2
<1>5. CASE cmd = "CMD24"
  <2>1. \E v \in {0, 1, 4, 5} : q = << <<v>> >>  BY <1>0, <1>5 DEF Answers
  <2> QED  BY <1>1, <1>5, <2>1
<1> DEFINE z == Repeat(0, TAIL - 1)
<1>6. z \in Seq(Int) /\ Len(z) = TAIL - 1  BY <1>0 DEF Repeat
<1>7. CASE cmd = "CMD8"
  <2> DEFINE y == Repeat(0, TAIL - 2)
  <2>0. y \in Seq(Int) /\ Len(y) = TAIL - 2  BY <1>0, SdAssumption DEF Repeat
  <2>1. Answers(Crc(cmd, a)) = {<< <<1>> \o y \o v >> : v \in Echoes} \cup {<< <<5>> >>}
    BY <1>0, <1>7 DEF Answers
  <2> HIDE DEF z, y
  <2>2. (\E v \in Echoes : q = << <<1>> \o y \o v >>) \/ q = << <<5>> >>
    BY <2>1
  <2>3. CASE q = << <<5>> >>
    BY <1>1, <1>7, <2>3 DEF Plain
  <2>4. ASSUME NEW v \in Echoes, q = << (<< 1 >> \o y) \o v >>
        PROVE  \E w : To(w, cmd, a) /\ Unsaid(q, w)
    <3> DEFINE r == <<1>> \o y
               s == r \o v
    <3>0. v \in Seq(Int) /\ Len(v) = 2  BY <2>4, EchoesAre
    <3>1. <<1>> \in Seq(Int) /\ Len(<<1>>) = 1 /\ <<1>>[1] = 1  OBVIOUS
    <3>2. /\ r \in Seq(Int) /\ Len(r) = Len(<<1>>) + Len(y)
          /\ \A j \in 1 .. (Len(<<1>>) + Len(y)) :
               r[j] = IF j <= Len(<<1>>) THEN <<1>>[j] ELSE y[j - Len(<<1>>)]
      BY <2>0, <3>1, Joined
    <3> HIDE DEF r
    <3>3. Len(r) = TAIL - 1 /\ TAIL >= 2 /\ r[1] = 1
      <4>1. TAIL >= 2  BY SdAssumption
      <4>2. Len(r) = TAIL - 1 /\ 1 \in 1 .. (Len(<<1>>) + Len(y))
        BY <1>0, <2>0, <3>1, <3>2, <4>1
      <4> QED  BY <3>1, <3>2, <4>1, <4>2
    <3>4. /\ s \in Seq(Int) /\ Len(s) = Len(r) + Len(v)
          /\ \A j \in 1 .. (Len(r) + Len(v)) :
               s[j] = IF j <= Len(r) THEN r[j] ELSE v[j - Len(r)]
      <4>1. r \in Seq(Int)  BY <3>2
      <4> QED  BY <3>0, <4>1, Joined
    <3> HIDE DEF s
    <3>5. Len(s) = TAIL + 1 /\ s[1] = 1
      <4>1. Len(s) = TAIL + 1 /\ 1 \in 1 .. (Len(r) + Len(v)) /\ 1 <= Len(r)
        BY <1>0, <3>0, <3>3, <3>4
      <4> QED  BY <3>3, <3>4, <4>1
    <3>6. q = <<s>>  BY <2>4 DEF r, s
    <3>7. ~Plain(cmd, s[1])  BY <1>7, <3>5 DEF Plain
    <3> QED  BY <1>2, <1>7, <3>4, <3>5, <3>6, <3>7
  <2> QED  BY <2>2, <2>3, <2>4
<1>8. CASE cmd = "CMD58"
  <2>1. Answers(Crc(cmd, a)) = {<< <<0, v>> \o z >> : v \in {192, 128}} \cup {<< <<5>> >>}
    BY <1>0, <1>8 DEF Answers
  <2> HIDE DEF z
  <2>2. (\E v \in {192, 128} : q = << <<0, v>> \o z >>) \/ q = << <<5>> >>
    BY <2>1
  <2>3. CASE q = << <<5>> >>
    BY <1>1, <1>8, <2>3 DEF Plain
  <2>4. ASSUME NEW v \in {192, 128}, q = << <<0, v>> \o z >>
        PROVE  \E w : To(w, cmd, a) /\ Unsaid(q, w)
    <3> DEFINE r == <<0, v>>
               s == r \o z
    <3>1. r \in Seq(Int) /\ Len(r) = 2 /\ r[1] = 0
      BY <2>4
    <3> HIDE DEF r
    <3>2. /\ s \in Seq(Int) /\ Len(s) = Len(r) + Len(z)
          /\ \A j \in 1 .. (Len(r) + Len(z)) :
               s[j] = IF j <= Len(r) THEN r[j] ELSE z[j - Len(r)]
      <4>1. r \in Seq(Int) /\ z \in Seq(Int)  BY <1>6, <3>1
      <4> QED  BY <4>1, Joined
    <3> HIDE DEF s
    <3>3. Len(s) = TAIL + 1 /\ s[1] = 0
      <4>1. Len(s) = TAIL + 1 /\ 1 \in 1 .. (Len(r) + Len(z)) /\ 1 <= Len(r)
        BY <1>0, <1>6, <3>1, <3>2
      <4> QED  BY <3>1, <3>2, <4>1
    <3>4. q = <<s>>  BY <2>4 DEF r, s
    <3>5. ~Plain(cmd, s[1])  BY <1>8, <3>3 DEF Plain
    <3> QED  BY <1>2, <1>8, <3>2, <3>3, <3>4, <3>5
  <2> QED  BY <2>2, <2>3, <2>4
<1>9. CASE cmd = "CMD17"
  <2>1. \/ q = << <<0>>, <<TOKEN>> \o Blocks[a] \o <<17, 34>> >> \/ q = << <<0>>, <<8>> >>
        \/ q = << <<4>> >>
    BY <1>0, <1>9 DEF Answers
  <2>2. To(FullBlock(a), cmd, a) /\ To(ReadError, cmd, a)
    <3>1. Answer(FullBlock(a)) /\ Answer(ReadError)
      BY <1>9, AnswerBlock
    <3> QED  BY <1>9, <3>1 DEF To
  <2>3. CASE q = << <<0>>, <<TOKEN>> \o Blocks[a] \o <<17, 34>> >>
    <3>1. FullBlock(a).late = TRUE /\ q = << <<FullBlock(a).r1>>, FullBlock(a).rest >>
      BY <2>3 DEF FullBlock
    <3> QED  BY <1>3, <2>2, <3>1
  <2>4. CASE q = << <<0>>, <<8>> >>
    <3>1. ReadError.late = TRUE /\ q = << <<ReadError.r1>>, ReadError.rest >>
      BY <2>4 DEF ReadError
    <3> QED  BY <1>3, <2>2, <3>1
  <2>5. CASE q = << <<4>> >>
    BY <1>1, <1>9, <2>5 DEF Plain
  <2> QED  BY <2>1, <2>3, <2>4, <2>5
<1> QED
  BY <1>4, <1>5, <1>7, <1>8, <1>9 DEF Commands, InitCommands

(***************************************************************************)
(* Sequences of symbols on their way to the card.                          *)
(***************************************************************************)
LEMMA JoinedSymbols ==
  ASSUME NEW s, s \in Seq(Symbols), NEW t, t \in Seq(Symbols)
  PROVE  /\ s \o t \in Seq(Symbols) /\ Len(s \o t) = Len(s) + Len(t)
         /\ Len(s) \in Nat /\ Len(t) \in Nat
         /\ \A j \in 1 .. Len(s) : (s \o t)[j] = s[j]
         /\ \A j \in 1 .. Len(t) : (s \o t)[Len(s) + j] = t[j]
         /\ \A j \in 1 .. (Len(s) + Len(t)) :
              j \in 1 .. Len(s) \/ (\E i \in 1 .. Len(t) : j = Len(s) + i)
<1> DEFINE m == Len(s)
           n == Len(t)
           u == s \o t
<1>1. m \in Nat /\ n \in Nat  OBVIOUS
<1>2. /\ u \in Seq(Symbols) /\ Len(u) = m + n
      /\ \A j \in 1 .. (m + n) : u[j] = IF j <= m THEN s[j] ELSE t[j - m]
  BY Joined
<1> HIDE DEF m, n, u
<1>3. \A j \in 1 .. m : u[j] = s[j]  BY <1>1, <1>2
<1>4. ASSUME NEW j \in 1 .. n PROVE u[m + j] = t[j]
  <2>1. m + j \in 1 .. (m + n) /\ ~(m + j <= m) /\ m + j - m = j  BY <1>1
  <2> QED  BY <1>1, <1>2, <2>1
<1>5. ASSUME NEW j \in 1 .. (m + n) PROVE j \in 1 .. m \/ (\E i \in 1 .. n : j = m + i)
  <2>1. j \in Int /\ (j <= m => j \in 1 .. m) /\ (~(j <= m) => j - m \in 1 .. n /\ j = m + (j - m))
    BY <1>1
  <2> QED  BY <2>1
<1> QED  BY <1>1, <1>2, <1>3, <1>4, <1>5 DEF m, n, u

LEMMA HarmlessJoined ==
  ASSUME NEW s, s \in Seq(Symbols), NEW t, t \in Seq(Symbols), Harmless(s), Harmless(t)
  PROVE  Harmless(s \o t)
<1> DEFINE u == s \o t
<1>1. /\ Len(u) = Len(s) + Len(t)
      /\ \A j \in 1 .. Len(s) : u[j] = s[j]
      /\ \A j \in 1 .. Len(t) : u[Len(s) + j] = t[j]
      /\ \A j \in 1 .. (Len(s) + Len(t)) :
           j \in 1 .. Len(s) \/ (\E i \in 1 .. Len(t) : j = Len(s) + i)
  BY JoinedSymbols
<1> HIDE DEF u
<1>2. Harmless(u)  BY <1>1 DEF Harmless
<1> QED  BY <1>2 DEF u

LEMMA OnceJoined ==
  ASSUME NEW s, s \in Seq(Symbols), NEW t, t \in Seq(Symbols), NEW c
  PROVE  /\ Harmless(s) /\ Once(t, c) => Once(s \o t, c)
         /\ Once(s, c) /\ Harmless(t) => Once(s \o t, c)
<1> DEFINE u == s \o t
           m == Len(s)
           k == Len(t)
<1>1. /\ Len(u) = m + k /\ m \in Nat /\ k \in Nat
      /\ \A j \in 1 .. m : u[j] = s[j]
      /\ \A j \in 1 .. k : u[m + j] = t[j]
      /\ \A j \in 1 .. (m + k) : j \in 1 .. m \/ (\E i \in 1 .. k : j = m + i)
  BY JoinedSymbols
<1> HIDE DEF u
<1>2. ASSUME Harmless(s), Once(t, c) PROVE Once(u, c)
  <2>1. PICK n \in 1 .. k : t[n] = c /\ \A j \in 1 .. k : j # n => Idle(t[j])
    BY <1>2 DEF Once
  <2>2. \A j \in 1 .. m : Idle(s[j])  BY <1>2 DEF Harmless
  <2> HIDE DEF m, k
  <2>3. m + n \in 1 .. (m + k)  BY <1>1
  <2>4. u[m + n] = c  BY <1>1, <2>1
  <2>5. ASSUME NEW j \in 1 .. (m + k), j # m + n PROVE Idle(u[j])
    <3>1. CASE j \in 1 .. m  BY <1>1, <2>2, <3>1
    <3>2. ASSUME NEW i \in 1 .. k, j = m + i PROVE Idle(u[j])
      <4>1. i # n  BY <2>5, <3>2
      <4> QED  BY <1>1, <2>1, <3>2, <4>1
    <3> QED  BY <1>1, <3>1, <3>2
  <2> QED  BY <1>1, <2>3, <2>4, <2>5 DEF Once
<1>3. ASSUME Once(s, c), Harmless(t) PROVE Once(u, c)
  <2>1. PICK n \in 1 .. m : s[n] = c /\ \A j \in 1 .. m : j # n => Idle(s[j])
    BY <1>3 DEF Once
  <2>2. \A j \in 1 .. k : Idle(t[j])  BY <1>3 DEF Harmless
  <2> HIDE DEF m, k
  <2>3. n \in 1 .. (m + k)  BY <1>1
  <2>4. u[n] = c  BY <1>1, <2>1
  <2>5. ASSUME NEW j \in 1 .. (m + k), j # n PROVE Idle(u[j])
    <3>1. CASE j \in 1 .. m  BY <1>1, <2>1, <2>5, <3>1
    <3>2. ASSUME NEW i \in 1 .. k, j = m + i PROVE Idle(u[j])
      BY <1>1, <2>2, <3>2
    <3> QED  BY <1>1, <3>1, <3>2
  <2> QED  BY <1>1, <2>3, <2>4, <2>5 DEF Once
<1> QED  BY <1>2, <1>3 DEF u

LEMMA EndingJoined ==
  ASSUME NEW s, s \in Seq(Symbols), NEW t, t \in Seq(Symbols), Harmless(s), Ending(t)
  PROVE  Ending(s \o t)
<1> DEFINE u == s \o t
           m == Len(s)
           k == Len(t)
<1>1. /\ Len(u) = m + k /\ m \in Nat /\ k \in Nat
      /\ \A j \in 1 .. m : u[j] = s[j]
      /\ \A j \in 1 .. k : u[m + j] = t[j]
      /\ \A j \in 1 .. (m + k) : j \in 1 .. m \/ (\E i \in 1 .. k : j = m + i)
  BY JoinedSymbols
<1> HIDE DEF u
<1>2. \A j \in 1 .. m : Idle(s[j])  BY DEF Harmless
<1>3. \A j \in 1 .. k : Idle(t[j]) \/ (j = k /\ t[j].sym = "end")  BY DEF Ending
<1> HIDE DEF m, k
<1>4. ASSUME NEW j \in 1 .. (m + k) PROVE Idle(u[j]) \/ (j = m + k /\ u[j].sym = "end")
  <2>1. CASE j \in 1 .. m  BY <1>1, <1>2, <2>1
  <2>2. ASSUME NEW i \in 1 .. k, j = m + i PROVE Idle(u[j]) \/ (j = m + k /\ u[j].sym = "end")
    BY <1>1, <1>3, <2>2
  <2> QED  BY <1>1, <2>1, <2>2
<1>5. Ending(u)  BY <1>1, <1>4 DEF Ending
<1> QED  BY <1>5 DEF u

\* A symbol has been sent.
LEMMA SymbolsTail ==
  ASSUME NEW s, s \in Seq(Symbols), s # <<>>, NEW c
  PROVE  /\ Harmless(s) => Idle(Head(s)) /\ Harmless(Tail(s))
         /\ Once(s, c) => \/ Head(s) = c /\ Harmless(Tail(s))
                          \/ Idle(Head(s)) /\ Once(Tail(s), c)
         /\ Ending(s) => Ending(Tail(s)) /\ (Tail(s) # <<>> => Idle(Head(s)))
<1> DEFINE L == Len(s)
           u == Tail(s)
<1>1. /\ Head(s) = s[1] /\ L \in Nat /\ L >= 1 /\ Len(u) = L - 1 /\ u \in Seq(Symbols)
      /\ \A j \in 1 .. (L - 1) : u[j] = s[j + 1]
  BY Shortened
<1> HIDE DEF u
<1>2. ASSUME Harmless(s) PROVE Idle(Head(s)) /\ Harmless(u)
  <2>1. \A j \in 1 .. L : Idle(s[j])  BY <1>2 DEF Harmless
  <2> HIDE DEF L
  <2>2. 1 \in 1 .. L /\ \A j \in 1 .. (L - 1) : j + 1 \in 1 .. L  BY <1>1
  <2> QED  BY <1>1, <2>1, <2>2 DEF Harmless
<1>3. ASSUME Once(s, c) PROVE (Head(s) = c /\ Harmless(u)) \/ (Idle(Head(s)) /\ Once(u, c))
  <2>1. PICK n \in 1 .. L : s[n] = c /\ \A j \in 1 .. L : j # n => Idle(s[j])
    BY <1>3 DEF Once
  <2> HIDE DEF L
  <2>2. 1 \in 1 .. L /\ \A j \in 1 .. (L - 1) : j + 1 \in 1 .. L /\ j + 1 # 1  BY <1>1
  <2>3. CASE n = 1
    <3>1. \A j \in 1 .. (L - 1) : Idle(u[j])  BY <1>1, <2>1, <2>2, <2>3
    <3> QED  BY <1>1, <2>1, <2>3, <3>1 DEF Harmless
  <2>4. CASE n # 1
    <3>1. n - 1 \in 1 .. (L - 1) /\ n - 1 + 1 = n  BY <1>1, <2>4
    <3>2. u[n - 1] = c  BY <1>1, <2>1, <3>1
    <3>3. ASSUME NEW j \in 1 .. (L - 1), j # n - 1 PROVE Idle(u[j])
      <4>1. j + 1 # n  BY <1>1, <3>1, <3>3
      <4> QED  BY <1>1, <2>1, <2>2, <4>1
    <3>4. Idle(s[1])  BY <2>1, <2>2, <2>4
    <3> QED  BY <1>1, <3>1, <3>2, <3>3, <3>4 DEF Once
  <2> QED  BY <2>3, <2>4
<1>4. ASSUME Ending(s) PROVE Ending(u) /\ (u # <<>> => Idle(Head(s)))
  <2>1. \A j \in 1 .. L : Idle(s[j]) \/ (j = L /\ s[j].sym = "end")  BY <1>4 DEF Ending
  <2>2. u # <<>> => L # 1
    <3>1. L = 1 => Len(u) = 0  BY <1>1
    <3> QED  BY <1>1, <3>1, EmptySeq
  <2> HIDE DEF L
  <2>3. 1 \in 1 .. L /\ \A j \in 1 .. (L - 1) : j + 1 \in 1 .. L /\ (j + 1 = L => j = L - 1)  BY <1>1
  <2>4. ASSUME NEW j \in 1 .. (L - 1) PROVE Idle(u[j]) \/ (j = L - 1 /\ u[j].sym = "end")
    BY <1>1, <2>1, <2>3
  <2> QED  BY <1>1, <2>1, <2>2, <2>3, <2>4 DEF Ending
<1> QED  BY <1>2, <1>3, <1>4 DEF u

\* The bytes that the driver has put into the FIFO are the ones it had to send.
LEMMA SameUnsent ==
  ASSUME NEW s, s \in Seq(Symbols), NEW t, t \in Seq(Symbols), t # <<>>
  PROVE  Append(s, Head(t)) \o Tail(t) = s \o t
<1> DEFINE h == Head(t)
           r == Tail(t)
           a == Append(s, h)
           m == Len(s)
           k == Len(t)
<1>1. h \in Symbols /\ h = t[1] /\ r \in Seq(Symbols) /\ k >= 1 /\ Len(r) = k - 1
      /\ \A j \in 1 .. (k - 1) : r[j] = t[j + 1]
  BY Shortened
<1>2. m \in Nat /\ k \in Nat  OBVIOUS
<1>3. a \in Seq(Symbols) /\ Len(a) = m + 1 /\ a[m + 1] = h /\ \A j \in 1 .. m : a[j] = s[j]
  BY <1>1, <1>2
<1> HIDE DEF h, r, a
<1>4. /\ a \o r \in Seq(Symbols) /\ Len(a \o r) = Len(a) + Len(r)
      /\ \A j \in 1 .. (Len(a) + Len(r)) : (a \o r)[j] = IF j <= Len(a) THEN a[j] ELSE r[j - Len(a)]
  BY <1>1, <1>3, Joined
<1>5. /\ s \o t \in Seq(Symbols) /\ Len(s \o t) = m + k
      /\ \A j \in 1 .. (m + k) : (s \o t)[j] = IF j <= m THEN s[j] ELSE t[j - m]
  BY Joined
<1> HIDE DEF m, k
<1>6. Len(a) + Len(r) = m + k  BY <1>1, <1>2, <1>3
<1>7. ASSUME NEW j \in 1 .. (m + k) PROVE (a \o r)[j] = (s \o t)[j]
  <2>0. j \in Int /\ j >= 1 /\ j <= m + k  BY <1>2
  <2>1. CASE j <= m
    <3>1. j \in 1 .. m /\ j <= Len(a)  BY <1>2, <1>3, <2>0, <2>1
    <3> QED  BY <1>3, <1>4, <1>5, <1>6, <2>1, <3>1
  <2>2. CASE j = m + 1
    <3>1. j <= Len(a) /\ ~(j <= m) /\ j - m = 1  BY <1>2, <1>3, <2>2
    <3>2. (a \o r)[j] = a[m + 1]  BY <1>4, <1>6, <2>2, <3>1
    <3>3. (s \o t)[j] = t[1]  BY <1>5, <3>1
    <3> QED  BY <1>1, <1>3, <3>2, <3>3
  <2>3. CASE j > m + 1
    <3>1. ~(j <= Len(a)) /\ ~(j <= m) /\ j - Len(a) \in 1 .. (k - 1) /\ j - Len(a) + 1 = j - m
      BY <1>2, <1>3, <2>0, <2>3
    <3>2. (a \o r)[j] = r[j - Len(a)]  BY <1>4, <1>6, <3>1
    <3>3. r[j - Len(a)] = t[j - m]  BY <1>1, <3>1
    <3>4. (s \o t)[j] = t[j - m]  BY <1>5, <3>1
    <3> QED  BY <3>2, <3>3, <3>4
  <2>4. j <= m \/ j = m + 1 \/ j > m + 1  BY <1>2, <2>0
  <2> QED  BY <2>1, <2>2, <2>3, <2>4
<1>8. a \o r = s \o t
  <2> DEFINE x == a \o r
             y == s \o t
  <2>1. x \in Seq(Symbols) /\ y \in Seq(Symbols) /\ Len(x) = Len(y)
        /\ \A j \in 1 .. Len(x) : x[j] = y[j]
    BY <1>4, <1>5, <1>6, <1>7
  <2> HIDE DEF x, y
  <2>2. x = y  BY <2>1, SeqEqual
  <2> QED  BY <2>2 DEF x, y
<1> QED  BY <1>8 DEF a, r, h

\* The controller sends the first of them.
LEMMA FirstSent ==
  ASSUME NEW s, s \in Seq(Symbols), s # <<>>, NEW t, t \in Seq(Symbols)
  PROVE  Head(s \o t) = Head(s) /\ Tail(s) \o t = Tail(s \o t) /\ s \o t # <<>>
<1> DEFINE m == Len(s)
           k == Len(t)
           u == s \o t
           r == Tail(s)
           x == r \o t
           y == Tail(u)
<1>1. m \in Nat /\ k \in Nat /\ m >= 1 /\ Head(s) = s[1] /\ r \in Seq(Symbols) /\ Len(r) = m - 1
      /\ \A j \in 1 .. (m - 1) : r[j] = s[j + 1]
  BY Shortened
<1>2. /\ u \in Seq(Symbols) /\ Len(u) = m + k
      /\ \A j \in 1 .. (m + k) : u[j] = IF j <= m THEN s[j] ELSE t[j - m]
  BY Joined
<1> HIDE DEF u, r
<1>3. u # <<>>  BY <1>1, <1>2
<1>4. /\ Head(u) = u[1] /\ y \in Seq(Symbols) /\ Len(y) = Len(u) - 1
      /\ \A j \in 1 .. (Len(u) - 1) : y[j] = u[j + 1]
  BY <1>2, <1>3, Shortened
<1>5. /\ x \in Seq(Symbols) /\ Len(x) = Len(r) + k
      /\ \A j \in 1 .. (Len(r) + k) : x[j] = IF j <= Len(r) THEN r[j] ELSE t[j - Len(r)]
  BY <1>1, Joined
<1> HIDE DEF m, k, x, y
<1>6. Head(u) = Head(s)
  <2>1. 1 \in 1 .. (m + k) /\ 1 <= m  BY <1>1
  <2> QED  BY <1>1, <1>2, <1>4, <2>1
<1>7. Len(x) = Len(y) /\ Len(x) = m + k - 1 /\ Len(r) + k = m + k - 1 /\ Len(u) - 1 = m + k - 1
  BY <1>1, <1>2, <1>4, <1>5
<1>8. ASSUME NEW j \in 1 .. (m + k - 1) PROVE x[j] = y[j]
  <2>0. j \in Int /\ j >= 1 /\ j + 1 \in 1 .. (m + k)  BY <1>1
  <2>1. y[j] = u[j + 1]  BY <1>4, <1>7
  <2>2. CASE j <= m - 1
    <3>1. j \in 1 .. (m - 1) /\ j + 1 <= m /\ j <= Len(r)  BY <1>1, <2>0, <2>2
    <3> QED  BY <1>1, <1>2, <1>5, <1>7, <2>0, <2>1, <3>1
  <2>3. CASE ~(j <= m - 1)
    <3>1. ~(j + 1 <= m) /\ ~(j <= Len(r)) /\ j + 1 - m = j - Len(r)  BY <1>1, <2>0, <2>3
    <3>2. x[j] = t[j - Len(r)]  BY <1>5, <1>7, <3>1
    <3>3. u[j + 1] = t[j + 1 - m]  BY <1>1, <1>2, <2>0, <3>1, SMTT(30)
    <3> QED  BY <2>1, <3>1, <3>2, <3>3
  <2> QED  BY <2>2, <2>3
<1>9. x = y  BY <1>4, <1>5, <1>7, <1>8, SeqEqual
<1> QED  BY <1>3, <1>6, <1>9 DEF x, y, u, r

(***************************************************************************)
(* Where the driver is in the answer to its command.                       *)
(***************************************************************************)
Owed == IF drv.owe THEN 1 ELSE 0

\* A byte that was read and not yet looked at.
Held(w, p, g) == drv.owe => drv.byte = Heard(w, g, p)

Answering ==
  /\ Harmless(Unsent)
  /\ \E w, p, g : To(w, drv.cmd, drv.a) /\ Coming(w, p, g) /\ Held(w, p, g) /\ p <= Owed

AtToken ==
  \E w, p, g : /\ w \in {FullBlock(drv.a), ReadError} /\ Coming(w, p, g) /\ Held(w, p, g)
               /\ 1 + Owed <= p /\ p <= 1 + g + Owed

\* The bytes of the slice among the first n of the block are in the buffer.
Sliced(d, n) ==
  LET from == d.slice[1]
      len == d.slice[2]
      have == IF n <= from THEN 0 ELSE IF n >= from + len THEN len ELSE n - from
  IN  /\ d.buf \in Seq(Int) /\ Len(d.buf) = have
      /\ \A j \in 1 .. have : d.buf[j] = Blocks[d.a][from + j]

AtData ==
  /\ drv.i \in 0 .. (BLOCK + 1) /\ Sliced(drv, drv.i)
  /\ \E p, g : /\ Coming(FullBlock(drv.a), p, g) /\ Held(FullBlock(drv.a), p, g)
               /\ p = 2 + g + drv.i + Owed

AtTail ==
  /\ drv.i \in 0 .. (TAIL - 1)
  /\ \E w, p : /\ Answer(w) /\ Len(w.rest) = TAIL /\ ~w.late /\ Coming(w, p, 0)
               /\ p = 1 + drv.i + Owed

\* A write waits for a response that nothing clocks in.
AtWrite ==
  /\ drv.pc # "busy" /\ Blank
  /\ (card.q = <<>> /\ ~card.mid /\ Ending(Unsent)) \/ Unsent = <<>>
  /\ drv.tries > (IF drv.pc = "send" THEN 2 * FIFO ELSE Len(tx) + Len(rx))

\* Nothing is under way, or only what closes a call.
Between(d) == d.pc = "idle" \/ (d.pc = "send" /\ d.then \notin {"r1", "resp"})

Flow ==
  /\ Between(drv) => /\ Clear /\ Harmless(Unsent)
                     /\ drv.call = "read" /\ drv.ok => Sliced(drv, BLOCK)
  /\ Commanding(drv) => /\ drv.i = 0 /\ drv.buf = <<>>
                        /\ CrcAhead \/ Answering
  /\ drv.pc \in {"token", "data", "tail"} => Harmless(Unsent)
  /\ drv.pc = "token" => drv.buf = <<>> /\ AtToken
  /\ drv.pc = "data" => AtData
  /\ drv.pc = "tail" => AtTail
  /\ Writing(drv) => AtWrite

Inv == ControlOK /\ CardOK /\ (~upset => Flow)

(***************************************************************************)
(* The slice a caller asked for.                                           *)
(***************************************************************************)
LEMMA SliceIs ==
  ASSUME NEW d, Control(d), d.call = "read"
  PROVE  /\ d.slice[1] \in Nat /\ d.slice[2] \in Nat /\ d.slice[1] + d.slice[2] <= BLOCK
         /\ BLOCK \in Nat /\ d.a \in DOMAIN Blocks
<1>1. BLOCK \in Nat  BY SdAssumption
<1>2. d.a \in DOMAIN Blocks /\ d.slice \in Slices \cup {<<0, BLOCK>>}  BY DEF Control
<1>3. CASE d.slice \in Slices  BY <1>1, <1>2, <1>3, SdAssumption
<1>4. CASE d.slice = <<0, BLOCK>>
  <2>1. d.slice[1] = 0 /\ d.slice[2] = BLOCK  BY <1>4
  <2> QED  BY <1>1, <1>2, <2>1
<1> QED  BY <1>2, <1>3, <1>4

\* The next byte of the block goes into the buffer, or not.
LEMMA SliceGrows ==
  ASSUME NEW d, d.slice[1] \in Nat, d.slice[2] \in Nat, d.i \in Nat, Sliced(d, d.i), NEW b,
         Wanted(d) => b = Blocks[d.a][d.i + 1] /\ b \in Int,
         NEW e, e.slice = d.slice, e.a = d.a,
         e.buf = IF Wanted(d) THEN Append(d.buf, b) ELSE d.buf
  PROVE  Sliced(e, d.i + 1)
<1> DEFINE f == d.slice[1]
           l == d.slice[2]
           n == d.i
           Have(k) == IF k <= f THEN 0 ELSE IF k >= f + l THEN l ELSE k - f
<1>1. f \in Nat /\ l \in Nat /\ n \in Nat  OBVIOUS
<1>2. /\ d.buf \in Seq(Int) /\ Len(d.buf) = Have(n)
      /\ \A j \in 1 .. Have(n) : d.buf[j] = Blocks[d.a][f + j]
  BY DEF Sliced
<1>3. Wanted(d) <=> f <= n /\ n < f + l  BY DEF Wanted
<1> HIDE DEF f, l, n
<1>4. CASE Wanted(d)
  <2>1. Have(n) = n - f /\ Have(n + 1) = n + 1 - f /\ f + (n + 1 - f) = n + 1
    BY <1>1, <1>3, <1>4, SMTT(30)
  <2>2. e.buf = Append(d.buf, b) /\ b = Blocks[d.a][n + 1] /\ b \in Int  BY <1>4 DEF n
  <2> HIDE DEF Have
  <2>3. n - f \in Nat /\ n + 1 - f = n - f + 1  BY <1>1, <1>3, <1>4
  <2>4. e.buf \in Seq(Int) /\ Len(e.buf) = Have(n + 1) /\ e.buf[n + 1 - f] = b
        /\ \A j \in 1 .. (n - f) : e.buf[j] = d.buf[j]
    BY <1>2, <2>1, <2>2, <2>3
  <2>5. ASSUME NEW j \in 1 .. Have(n + 1) PROVE e.buf[j] = Blocks[d.a][f + j]
    <3>1. CASE j \in 1 .. (n - f)  BY <1>2, <2>1, <2>4, <3>1
    <3>2. CASE j = n + 1 - f  BY <2>1, <2>2, <2>4, <3>2
    <3>3. j \in 1 .. (n - f) \/ j = n + 1 - f  BY <1>1, <2>1, <2>3
    <3> QED  BY <3>1, <3>2, <3>3
  <2> QED  BY <2>4, <2>5 DEF Sliced, Have, f, l, n
<1>5. CASE ~Wanted(d)
  <2>1. Have(n + 1) = Have(n)  BY <1>1, <1>3, <1>5
  <2>2. e.buf = d.buf  BY <1>5
  <2> HIDE DEF Have
  <2>3. /\ e.buf \in Seq(Int) /\ Len(e.buf) = Have(n + 1)
        /\ \A j \in 1 .. Have(n + 1) : e.buf[j] = Blocks[d.a][f + j]
    BY <1>2, <2>1, <2>2
  <2> QED  BY <2>3 DEF Sliced, Have, f, l, n
<1> QED  BY <1>4, <1>5

\* The checksum adds nothing to the slice.
LEMMA SliceFull ==
  ASSUME NEW d, d.slice[1] \in Nat, d.slice[2] \in Nat, d.slice[1] + d.slice[2] <= BLOCK,
         BLOCK \in Nat, NEW e, e.slice = d.slice, e.a = d.a, e.buf = d.buf,
         Sliced(d, BLOCK + 2)
  PROVE  Sliced(e, BLOCK)
<1> DEFINE f == d.slice[1]
           l == d.slice[2]
           Have(k) == IF k <= f THEN 0 ELSE IF k >= f + l THEN l ELSE k - f
<1>1. f \in Nat /\ l \in Nat /\ f + l <= BLOCK /\ BLOCK \in Nat  OBVIOUS
<1>2. /\ d.buf \in Seq(Int) /\ Len(d.buf) = Have(BLOCK + 2)
      /\ \A j \in 1 .. Have(BLOCK + 2) : d.buf[j] = Blocks[d.a][f + j]
  BY DEF Sliced
<1> HIDE DEF f, l
<1>3. Have(BLOCK) = Have(BLOCK + 2)  BY <1>1
<1> HIDE DEF Have
<1>4. /\ e.buf \in Seq(Int) /\ Len(e.buf) = Have(BLOCK)
      /\ \A j \in 1 .. Have(BLOCK) : e.buf[j] = Blocks[e.a][f + j]
  BY <1>2, <1>3
<1> QED  BY <1>4 DEF Sliced, Have, f, l

(***************************************************************************)
(* Flow is kept by every step that does not upset it.                      *)
(***************************************************************************)
\* The bytes of a command hold its crc once.
LEMMA BytesOnce ==
  ASSUME NEW cmd \in Commands, NEW a \in {0} \cup DOMAIN Blocks, cmd = "CMD17" => a \in DOMAIN Blocks
  PROVE  Once(Bytes(cmd, a), Crc(cmd, a))
<1> DEFINE s == Bytes(cmd, a)
           n == CMD_ARGS + 1
<1>1. /\ s \in Seq(Symbols) /\ Len(s) = CMD_ARGS + 2
      /\ \A j \in 1 .. CMD_ARGS : s[j] = Arg
      /\ s[n] = Crc(cmd, a) /\ s[CMD_ARGS + 2] = Dummy
  BY BytesAre
<1>2. CMD_ARGS \in Nat  BY SdAssumption
<1>3. Idle(Arg) /\ Idle(Dummy)  BY DEF Idle, Arg, Dummy
<1> HIDE DEF s
<1>4. n \in 1 .. (CMD_ARGS + 2)  BY <1>2
<1>5. \A j \in 1 .. (CMD_ARGS + 2) : j # n => j \in 1 .. CMD_ARGS \/ j = CMD_ARGS + 2  BY <1>2
<1> HIDE DEF n
<1>6. \A j \in 1 .. Len(s) : j # n => Idle(s[j])  BY <1>1, <1>3, <1>5
<1>7. Once(s, Crc(cmd, a))  BY <1>1, <1>4, <1>6 DEF Once
<1> QED  BY <1>7 DEF s

\* A command that starts when nothing is left of the one before.
LEMMA FlowCommand ==
  ASSUME NEW c, NEW cmd, Commanded(drv', c, cmd), ~c.owe, ControlOK', Clear', NEW s,
         s \in Seq(Symbols), Harmless(s), tx' = s
  PROVE  Flow'
<1>1. /\ drv'.pc = "send" /\ drv'.out = Bytes(cmd, c.a) /\ drv'.then = "r1" /\ drv'.cmd = cmd
      /\ drv'.i = 0 /\ drv'.buf = <<>> /\ drv'.a = c.a /\ drv'.owe = c.owe /\ drv'.call = c.call
  BY DEF Commanded
<1>2. Commanding(drv')  BY <1>1 DEF Commanding
<1>3. Of(drv'.call, drv'.cmd) /\ drv'.a \in {0} \cup DOMAIN Blocks
      /\ (drv'.call = "read" => drv'.a \in DOMAIN Blocks)
  BY <1>2 DEF ControlOK, Control
<1>4. cmd \in Commands /\ c.a \in {0} \cup DOMAIN Blocks /\ (cmd = "CMD17" => c.a \in DOMAIN Blocks)
  BY <1>1, <1>3 DEF Of, Commands, InitCommands
<1>5. Once(Bytes(cmd, c.a), Crc(cmd, c.a)) /\ Bytes(cmd, c.a) \in Seq(Symbols)
  BY <1>4, BytesOnce, BytesAre
<1>6. Once(s \o Bytes(cmd, c.a), Crc(cmd, c.a))  BY <1>5, OnceJoined
<1>7. Unsent' = s \o Bytes(cmd, c.a)  BY <1>1 DEF Unsent
<1>8. CrcAhead'  BY <1>1, <1>6, <1>7 DEF CrcAhead
<1>9. ~Between(drv') /\ ~Writing(drv') /\ drv'.pc \notin {"token", "data", "tail"}
  BY <1>1 DEF Between, Writing
<1> QED  BY <1>1, <1>8, <1>9 DEF Flow

LEMMA NoneLeft ==
  ASSUME NEW s, s \in Seq(Symbols)
  PROVE  s \o <<>> = s
BY ConcatEmptySeq

LEMMA FlowCalls ==
  ASSUME ControlOK, ControlOK', Flow, drv.pc = "idle", UNCHANGED <<tx, rx, card>>,
         drv' = Waking \/ \E c, cmd : Opening(c, cmd) /\ drv' = SDSendCommand(c, cmd)
  PROVE  Flow'
<1>1. Between(drv) /\ drv.out = <<>> /\ tx \in Seq(Symbols)
  BY DEF Between, ControlOK, Control
<1>2. Clear /\ Harmless(Unsent)  BY <1>1 DEF Flow
<1>3. Unsent = tx  BY <1>1, NoneLeft DEF Unsent
<1>4. Clear'  BY <1>2 DEF Clear, Blank
<1>5. CASE drv' = Waking
  <2> DEFINE s == Repeat(Dummy, IDLE_BYTES)
  <2>1. drv'.pc = "send" /\ drv'.out = s /\ drv'.then = "CMD0" /\ drv'.call = "SDInit"
    BY <1>5, WakingFields
  <2>2. Harmless(s)
    <3>1. IDLE_BYTES \in Nat /\ Idle(Dummy)  BY SdAssumption DEF Idle, Dummy
    <3>2. Len(s) = IDLE_BYTES /\ \A j \in 1 .. IDLE_BYTES : s[j] = Dummy  BY <3>1 DEF Repeat
    <3> QED  BY <3>1, <3>2 DEF Harmless
  <2>3. s \in Seq(Symbols)  BY <2>1 DEF ControlOK, Control
  <2> HIDE DEF s
  <2>4. Harmless(tx \o s)  BY <1>1, <1>2, <1>3, <2>2, <2>3, HarmlessJoined
  <2>5. Unsent' = tx \o s  BY <2>1 DEF Unsent
  <2>6. ~Commanding(drv') /\ ~Writing(drv')  BY <2>1 DEF Commanding, Writing
  <2> QED  BY <1>4, <2>1, <2>4, <2>5, <2>6 DEF Flow
<1>6. ASSUME NEW c, NEW cmd, Opening(c, cmd), drv' = SDSendCommand(c, cmd)
      PROVE  Flow'
  <2>1. Shaped(c) /\ c.owe = FALSE
    <3>1. Shaped(c) /\ Same(c, Fresh, {"call", "a", "slice"})  BY <1>6 DEF Opening
    <3> QED  BY <3>1 DEF Same, Fields, Fresh
  <2>2. Shaped(c) /\ ~c.owe  BY <2>1
  <2>3. Commanded(drv', c, cmd)  BY <1>6, <2>2, CommandFields
  <2> QED  BY <1>1, <1>2, <1>3, <1>4, <2>2, <2>3, FlowCommand
<1> QED  BY <1>5, <1>6

\* spi_send_byte moves a byte of the command, of the block or of what closes a call.
LEMMA FlowSends ==
  ASSUME ControlOK, ControlOK', Flow, drv.pc = "send", ~drv.owe, UNCHANGED <<rx, card>>,
         tx' = Append(tx, Head(drv.out)),
         NEW d, Shaped(d), Same(d, drv, {"out"}), d.out = Tail(drv.out),
         drv' = IF d.out = <<>> THEN Arrive(d) ELSE d
  PROVE  Flow'
<1>1. /\ d.pc = drv.pc /\ d.cs = drv.cs /\ d.call = drv.call /\ d.cmd = drv.cmd /\ d.a = drv.a
      /\ d.owe = drv.owe /\ d.byte = drv.byte /\ d.i = drv.i /\ d.buf = drv.buf
      /\ d.slice = drv.slice /\ d.then = drv.then /\ d.ok = drv.ok /\ d.tries = drv.tries
  BY DEF Same, Fields
<1>2. drv.out \in Seq(Symbols) /\ drv.out # <<>> /\ tx \in Seq(Symbols) /\ tx' \in Seq(Symbols)
      /\ d.out \in Seq(Symbols)
  BY DEF ControlOK, Control
<1>3. tx' \o d.out = Unsent  BY <1>2, SameUnsent DEF Unsent
<1>4. d.out = <<>> => tx' = Unsent  BY <1>2, <1>3, NoneLeft
<1>5. drv.then \in {"CMD0", "CMD55", "ACMD41", "CMD58", "r1", "resp", "idle"}
  BY DEF ControlOK, Control
<1>6. CASE drv.then \in {"r1", "resp"}
  <2>1. Unsent' = Unsent /\ drv'.cs = drv.cs /\ drv'.call = drv.call /\ drv'.cmd = drv.cmd
        /\ drv'.a = drv.a /\ drv'.owe = drv.owe /\ drv'.byte = drv.byte /\ drv'.i = drv.i
        /\ drv'.buf = drv.buf /\ drv'.tries = drv.tries
        /\ (drv'.pc = drv.then \/ (drv'.pc = "send" /\ drv'.then = drv.then))
    <3>1. CASE d.out # <<>>  BY <1>1, <1>3, <3>1 DEF Unsent
    <3>2. CASE d.out = <<>>
      <4> DEFINE e == [d EXCEPT !.pc = d.then]
      <4>1. drv' = e  BY <1>1, <1>6, <3>2 DEF Arrive
      <4>2. /\ e.pc = d.then /\ e.cs = d.cs /\ e.call = d.call /\ e.cmd = d.cmd /\ e.a = d.a
            /\ e.owe = d.owe /\ e.byte = d.byte /\ e.i = d.i /\ e.buf = d.buf /\ e.tries = d.tries
            /\ e.out = d.out
        BY DEF Shaped, Fields
      <4> HIDE DEF e
      <4> QED  BY <1>1, <1>3, <4>1, <4>2 DEF Unsent
    <3> QED  BY <3>1, <3>2
  <2>2. CASE drv.then = "r1"
    <3>1. Commanding(drv) /\ Commanding(drv') /\ ~Between(drv') /\ ~Writing(drv')
          /\ drv'.pc \notin {"token", "data", "tail"}
      BY <2>1, <2>2 DEF Commanding, Between, Writing
    <3>2. drv.i = 0 /\ drv.buf = <<>> /\ (CrcAhead \/ Answering)  BY <3>1 DEF Flow
    <3>3. CrcAhead => CrcAhead'  BY <2>1 DEF CrcAhead, Clear, Blank
    <3>4. Answering => Answering'  BY <2>1, ZenonT(60) DEF Answering, Coming, Held, Owed
    <3> QED  BY <2>1, <3>1, <3>2, <3>3, <3>4 DEF Flow
  <2>3. CASE drv.then = "resp"
    <3>1. Writing(drv) /\ Writing(drv') /\ ~Between(drv') /\ ~Commanding(drv')
          /\ drv'.pc \in {"send", "resp"}
      BY <2>1, <2>3 DEF Commanding, Between, Writing
    <3>2. AtWrite  BY <3>1 DEF Flow
    <3>3. drv.tries > 2 * FIFO  BY <3>2 DEF AtWrite
    <3>4. FIFO \in Nat /\ Len(tx') \in Nat /\ Len(rx') \in Nat /\ Len(tx') <= FIFO /\ Len(rx') <= FIFO
          /\ drv.tries \in Nat
      <4>1. FIFO \in Nat  BY SdAssumption
      <4>2. tx' \in Seq(Symbols) /\ rx' \in Seq(Int) /\ Len(tx') <= FIFO /\ Len(rx') <= FIFO
        BY DEF ControlOK
      <4>3. drv.tries \in Nat  BY DEF ControlOK, Control
      <4> QED  BY <4>1, <4>2, <4>3
    <3>5. drv.tries > Len(tx') + Len(rx')  BY <3>3, <3>4
    <3>6. AtWrite'  BY <2>1, <3>1, <3>2, <3>3, <3>5 DEF AtWrite, Blank
    <3> QED  BY <3>1, <3>6 DEF Flow
  <2> QED  BY <1>6, <2>2, <2>3
<1>7. CASE drv.then \notin {"r1", "resp"}
  <2>1. Between(drv)  BY <1>7 DEF Between
  <2>2. Clear /\ Harmless(Unsent) /\ (drv.call = "read" /\ drv.ok => Sliced(drv, BLOCK))
    BY <2>1 DEF Flow
  <2>3. Clear'  BY <2>2 DEF Clear, Blank
  <2>4. CASE d.out # <<>>
    <3>1. drv' = d /\ Unsent' = Unsent  BY <1>3, <2>4 DEF Unsent
    <3>2. ~Commanding(drv') /\ ~Writing(drv') /\ drv'.pc \notin {"token", "data", "tail"}
      BY <1>1, <1>7, <3>1 DEF Commanding, Writing
    <3>3. drv'.call = "read" /\ drv'.ok => Sliced(drv', BLOCK)
      BY <1>1, <2>2, <3>1, ZenonT(60) DEF Sliced
    <3> QED  BY <2>2, <2>3, <3>1, <3>2, <3>3 DEF Flow
  <2>5. CASE d.out = <<>> /\ drv.then = "idle"
    <3>1. drv' = Return(d, d.ok)  BY <1>1, <2>5 DEF Arrive
    <3>2. Returned(drv', d)  BY <3>1, ReturnFields
    <3>3. drv'.pc = "idle" /\ drv'.call = "none" /\ drv'.out = <<>>  BY <3>2 DEF Returned
    <3>4. Unsent' = Unsent  BY <1>2, <1>4, <2>5, <3>3, NoneLeft DEF Unsent
    <3>5. ~Commanding(drv') /\ ~Writing(drv')  BY <3>3 DEF Commanding, Writing
    <3> QED  BY <2>2, <2>3, <3>3, <3>4, <3>5 DEF Flow
  <2>6. CASE d.out = <<>> /\ drv.then # "idle"
    <3>1. drv' = SDSendCommand(d, drv.then)  BY <1>1, <1>5, <1>7, <2>6 DEF Arrive
    <3>2. Commanded(drv', d, drv.then)  BY <3>1, CommandFields
    <3>3. tx' = Unsent  BY <1>4, <2>6
    <3>4. Harmless(tx') /\ ~d.owe  BY <1>1, <2>2, <3>3
    <3> QED  BY <1>2, <2>3, <3>2, <3>4, FlowCommand
  <2> QED  BY <2>4, <2>5, <2>6
<1> QED  BY <1>6, <1>7

LEMMA AnswerTo ==
  ASSUME NEW w, NEW a, a \in DOMAIN Blocks, w \in {FullBlock(a), ReadError}
  PROVE  Answer(w) /\ w.late /\ To(w, "CMD17", a)
BY AnswerBlock DEF To

\* spi_read_byte takes the next byte of the answer.
LEMMA FlowReads ==
  ASSUME ControlOK, ControlOK', Flow, drv.pc \in Looks, ~drv.owe, rx # <<>>, rx' = Tail(rx),
         UNCHANGED <<tx, card>>, Shaped(drv'), Same(drv', drv, {"byte", "owe"}),
         drv'.byte = Head(rx), drv'.owe = TRUE
  PROVE  Flow'
<1>1. /\ drv'.pc = drv.pc /\ drv'.cmd = drv.cmd /\ drv'.a = drv.a /\ drv'.i = drv.i /\ drv'.buf = drv.buf
      /\ drv'.slice = drv.slice /\ drv'.out = drv.out /\ drv'.then = drv.then
  BY DEF Same, Fields
<1>2. rx \in Seq(Int) /\ Len(rx) \in Nat /\ Unsent' = Unsent  BY <1>1 DEF ControlOK, Unsent
<1>3. Owed = 0 /\ Owed' = 1  BY DEF Owed
<1>4. ASSUME NEW w, Answer(w), NEW p, NEW g, Coming(w, p, g)
      PROVE  Coming(w, p + 1, g)' /\ Held(w, p + 1, g)'
  BY <1>2, <1>4, PlaceRead DEF Held
<1>5. ~Between(drv') /\ ~Writing(drv')  BY <1>1 DEF Between, Writing, Looks
<1>6. CASE drv.pc = "r1"
  <2>1. Commanding(drv)  BY <1>6 DEF Commanding
  <2>2. drv.i = 0 /\ drv.buf = <<>> /\ (CrcAhead \/ Answering)  BY <2>1 DEF Flow
  <2>3. ASSUME CrcAhead PROVE CrcAhead'
    <3>1. Len(rx') = Len(rx) - 1 /\ Head(rx) = rx[1] /\ Len(rx) >= 1
          /\ \A j \in 1 .. (Len(rx) - 1) : rx'[j] = rx[j + 1]
      BY <1>2, Shortened
    <3>2. \A j \in 1 .. Len(rx) : rx[j] = FF  BY <2>3 DEF CrcAhead, Clear, Blank
    <3>3. 1 \in 1 .. Len(rx) /\ \A j \in 1 .. (Len(rx) - 1) : j + 1 \in 1 .. Len(rx)  BY <1>2, <3>1
    <3>4. Head(rx) = FF /\ \A j \in 1 .. Len(rx') : rx'[j] = FF  BY <3>1, <3>2, <3>3
    <3> QED  BY <1>1, <1>2, <2>3, <3>4 DEF CrcAhead, Clear, Blank
  <2>4. ASSUME Answering PROVE Answering'
    <3>1. PICK w, p, g : To(w, drv.cmd, drv.a) /\ Coming(w, p, g) /\ p <= Owed
      BY <2>4 DEF Answering
    <3>2. Answer(w) /\ p \in Int  BY <3>1 DEF To, Coming
    <3>3. Coming(w, p + 1, g)' /\ Held(w, p + 1, g)'  BY <1>4, <3>1, <3>2
    <3>4. p + 1 <= Owed'  BY <1>3, <3>1, <3>2
    <3>5. To(w, drv'.cmd, drv'.a)  BY <1>1, <3>1
    <3>6. Harmless(Unsent')  BY <1>2, <2>4 DEF Answering
    <3> QED  BY <3>3, <3>4, <3>5, <3>6 DEF Answering
  <2> QED  BY <1>1, <1>5, <1>6, <2>2, <2>3, <2>4 DEF Flow
<1>7. CASE drv.pc = "token"
  <2>1. Harmless(Unsent) /\ drv.buf = <<>> /\ AtToken /\ drv.a \in DOMAIN Blocks
    BY <1>7 DEF Flow, ControlOK, Control
  <2>2. PICK w, p, g : w \in {FullBlock(drv.a), ReadError} /\ Coming(w, p, g)
                       /\ 1 + Owed <= p /\ p <= 1 + g + Owed
    BY <2>1 DEF AtToken
  <2>3. Answer(w) /\ p \in Int /\ g \in Nat  BY <2>1, <2>2, AnswerTo DEF Coming
  <2>4. Coming(w, p + 1, g)' /\ Held(w, p + 1, g)'  BY <1>4, <2>2, <2>3
  <2>5. 1 + Owed' <= p + 1 /\ p + 1 <= 1 + g + Owed'  BY <1>3, <2>2, <2>3
  <2>6. w \in {FullBlock(drv'.a), ReadError}  BY <1>1, <2>2
  <2>7. AtToken'  BY <2>4, <2>5, <2>6 DEF AtToken
  <2>8. ~Commanding(drv')  BY <1>1, <1>7 DEF Commanding
  <2> QED  BY <1>1, <1>2, <1>5, <1>7, <2>1, <2>7, <2>8 DEF Flow
<1>8. CASE drv.pc = "data"
  <2>1. Harmless(Unsent) /\ AtData /\ drv.a \in DOMAIN Blocks
    BY <1>8 DEF Flow, ControlOK, Control
  <2>2. PICK p, g : Coming(FullBlock(drv.a), p, g) /\ p = 2 + g + drv.i + Owed
    BY <2>1 DEF AtData
  <2>3. PICK w : w = FullBlock(drv.a)  OBVIOUS
  <2>4. Answer(w) /\ p \in Int /\ g \in Nat /\ drv.i \in Int
    <3>1. Answer(w)  BY <2>1, <2>3, AnswerTo
    <3>2. drv.i \in 0 .. (BLOCK + 1) /\ BLOCK \in Nat  BY <2>1, SdAssumption DEF AtData
    <3>3. p \in Int /\ g \in Nat  BY <2>2 DEF Coming
    <3> QED  BY <3>1, <3>2, <3>3
  <2>5. Coming(w, p + 1, g)' /\ Held(w, p + 1, g)'  BY <1>4, <2>2, <2>3, <2>4
  <2>6. p + 1 = 2 + g + drv'.i + Owed'  BY <1>1, <1>3, <2>2, <2>4
  <2>7. w = FullBlock(drv'.a)  BY <1>1, <2>3
  <2>8. drv'.i \in 0 .. (BLOCK + 1) /\ Sliced(drv', drv'.i)
    BY <1>1, <2>1 DEF AtData, Sliced
  <2>9. AtData'  BY <2>5, <2>6, <2>7, <2>8 DEF AtData
  <2>10. ~Commanding(drv')  BY <1>1, <1>8 DEF Commanding
  <2> QED  BY <1>1, <1>2, <1>5, <1>8, <2>1, <2>9, <2>10 DEF Flow
<1>9. CASE drv.pc = "tail"
  <2>1. Harmless(Unsent) /\ AtTail  BY <1>9 DEF Flow
  <2>2. PICK w, p : Answer(w) /\ Len(w.rest) = TAIL /\ ~w.late /\ Coming(w, p, 0)
                    /\ p = 1 + drv.i + Owed
    BY <2>1 DEF AtTail
  <2>3. Coming(w, p + 1, 0)'  BY <1>4, <2>2
  <2>4. p \in Int /\ drv.i \in 0 .. (TAIL - 1) /\ TAIL \in Nat  BY <2>1, <2>2, SdAssumption DEF Coming, AtTail
  <2>5. p + 1 = 1 + drv'.i + Owed'  BY <1>1, <1>3, <2>2, <2>4
  <2>6. AtTail'  BY <1>1, <2>2, <2>3, <2>4, <2>5 DEF AtTail
  <2>7. ~Commanding(drv')  BY <1>1, <1>9 DEF Commanding
  <2> QED  BY <1>1, <1>2, <1>5, <1>9, <2>1, <2>6, <2>7 DEF Flow
<1> QED  BY <1>6, <1>7, <1>8, <1>9 DEF Looks

\* The polling loop of a write reads what was clocked in before the response.
LEMMA FlowPolls ==
  ASSUME ControlOK, Flow, PollWrite
  PROVE  Flow'
<1> DEFINE d == [drv EXCEPT !.tries = @ - 1]
<1>1. Writing(drv) /\ Shaped(drv) /\ drv.tries \in Nat  BY DEF PollWrite, Writing, ControlOK, Control
<1>2. AtWrite /\ drv.pc = "resp"  BY <1>1 DEF Flow, AtWrite, PollWrite
<1>3. rx \in Seq(Int) /\ rx # <<>> /\ rx' = Tail(rx) /\ tx' = tx /\ card' = card
      /\ Len(tx) \in Nat
  BY DEF PollWrite, ControlOK
<1>4. /\ Len(rx') = Len(rx) - 1 /\ Head(rx) = rx[1] /\ Len(rx) >= 1 /\ Len(rx) \in Nat
      /\ \A j \in 1 .. (Len(rx) - 1) : rx'[j] = rx[j + 1]
  BY <1>3, Shortened
<1>5. \A j \in 1 .. Len(rx) : rx[j] = FF  BY <1>2 DEF AtWrite, Blank
<1>6. 1 \in 1 .. Len(rx) /\ \A j \in 1 .. (Len(rx) - 1) : j + 1 \in 1 .. Len(rx)  BY <1>4
<1>7. Head(rx) = FF /\ Blank'  BY <1>4, <1>5, <1>6 DEF Blank
<1>8. drv.tries > Len(tx) + Len(rx)  BY <1>2 DEF AtWrite
<1>9. /\ d.tries = drv.tries - 1 /\ d.pc = drv.pc /\ d.out = drv.out /\ d.call = drv.call
      /\ d.then = drv.then
  BY <1>1 DEF Shaped, Fields
<1>10. d.tries > 0 /\ d.tries > Len(tx') + Len(rx')
  BY <1>1, <1>3, <1>4, <1>8, <1>9
<1>11. drv' = d  BY <1>2, <1>7, <1>10 DEF PollWrite
<1> HIDE DEF d
<1>12. Unsent' = Unsent  BY <1>3, <1>9, <1>11 DEF Unsent
<1>13. AtWrite'  BY <1>2, <1>3, <1>7, <1>9, <1>10, <1>11, <1>12 DEF AtWrite
<1>14. drv'.pc = "resp" /\ ~Between(drv') /\ ~Commanding(drv')
  BY <1>2, <1>9, <1>11 DEF Between, Commanding
<1> QED  BY <1>13, <1>14 DEF Flow

\* The controller exchanges a byte.
LEMMA FlowShifts ==
  ASSUME ControlOK, CardOK, Flow, Shift, ~upset'
  PROVE  Flow'
<1>1. PICK t \in Turns :
        /\ rx' = IF Len(rx) < FIFO THEN Append(rx, t.in) ELSE rx
        /\ upset' = (upset \/ (t.said /\ Len(rx) = FIFO))
        /\ card' \in Listen(Head(tx), t.next)
        /\ tx # <<>> /\ tx' = Tail(tx) /\ drv' = drv
  BY DEF Shift
<1>2. ~(t.said /\ Len(rx) = FIFO)  BY <1>1
<1>3. tx \in Seq(Symbols) /\ drv.out \in Seq(Symbols) /\ rx \in Seq(Int) /\ Len(rx) <= FIFO
      /\ Len(rx) \in Nat
  BY DEF ControlOK, Control
<1>4. Head(Unsent) = Head(tx) /\ Unsent' = Tail(Unsent) /\ Unsent # <<>>
  BY <1>1, <1>3, FirstSent DEF Unsent
<1>5. Unsent \in Seq(Symbols)  BY <1>3, JoinedSymbols DEF Unsent
<1>6. ASSUME Idle(Head(tx)) PROVE card' = t.next
  BY <1>1, <1>6 DEF Listen, Idle
<1>7. ASSUME Idle(Head(tx)), drv.cs, NEW w, Answer(w), NEW p, NEW g, Coming(w, p, g)
      PROVE  \E p2 \in Int, g2 \in Nat :
               /\ Coming(w, p2, g2)' /\ g2 >= g /\ (p2 = p \/ (p <= 0 /\ p2 <= 0))
               /\ g2 = g \/ p <= 1 + g
               /\ Heard(w, g2, p2) = Heard(w, g, p)
  <2>1. Received(t)  BY <1>1, <1>2, <1>6, <1>7 DEF Received
  <2> QED  BY <1>3, <1>7, <2>1, Moved
<1>8. /\ Owed' = Owed /\ Owed \in {0, 1}
      /\ \A w, p, g, p2, g2 : Held(w, p, g) /\ Heard(w, g2, p2) = Heard(w, g, p) => Held(w, p2, g2)'
  BY <1>1 DEF Owed, Held
<1>9. ASSUME Harmless(Unsent) PROVE Idle(Head(tx)) /\ Harmless(Unsent')
  BY <1>4, <1>5, <1>9, SymbolsTail
<1>10. ASSUME Between(drv) PROVE Clear' /\ Harmless(Unsent')
  <2>1. Clear /\ Harmless(Unsent)  BY <1>10 DEF Flow
  <2>2. Idle(Head(tx)) /\ Harmless(Unsent')  BY <1>9, <2>1
  <2>3. card' = t.next  BY <1>6, <2>2
  <2>4. Blank' /\ (drv.cs => t.next = card) /\ (~drv.cs => t.next = Quiet)
    BY <1>1, <1>3, <2>1, Nothing DEF Clear
  <2>5. card'.q = <<>> /\ ~card'.mid
    <3>1. CASE drv.cs  BY <2>1, <2>3, <2>4, <3>1 DEF Clear
    <3>2. CASE ~drv.cs  BY <2>3, <2>4, <3>2 DEF Quiet
    <3> QED  BY <3>1, <3>2
  <2> QED  BY <2>2, <2>4, <2>5 DEF Clear
<1>11. ASSUME Commanding(drv) PROVE CrcAhead' \/ Answering'
  <2>1. drv.cs /\ Of(drv.call, drv.cmd) /\ (drv.call = "read" => drv.a \in DOMAIN Blocks)
    BY <1>11 DEF ControlOK, Control
  <2>2. drv.cmd \in Commands /\ (drv.cmd = "CMD17" => drv.a \in DOMAIN Blocks)
    BY <2>1 DEF Of, Commands, InitCommands
  <2>3. ASSUME CrcAhead PROVE CrcAhead' \/ Answering'
    <3> DEFINE c == Crc(drv.cmd, drv.a)
    <3>1. Clear /\ (drv.owe => drv.byte = FF) /\ Once(Unsent, c)  BY <2>3 DEF CrcAhead
    <3> HIDE DEF c
    <3>2. Blank' /\ t.next = card  BY <1>1, <1>3, <2>1, <3>1, Nothing DEF Clear
    <3>3. \/ Head(tx) = c /\ Harmless(Unsent')
          \/ Idle(Head(tx)) /\ Once(Unsent', c)
      BY <1>4, <1>5, <3>1, SymbolsTail
    <3>4. CASE Idle(Head(tx)) /\ Once(Unsent', c)
      <4>1. card' = card  BY <1>6, <3>2, <3>4
      <4> QED  BY <1>1, <3>1, <3>2, <3>4, <4>1 DEF CrcAhead, Clear, c
    <3>5. CASE Head(tx) = c /\ Harmless(Unsent')
      <4>1. Head(tx).sym = "crc"  BY <3>5 DEF c, Crc
      <4>2. PICK a \in Answers(Head(tx)) : card' = [q |-> a, mid |-> FALSE]
        BY <1>1, <2>1, <4>1 DEF Listen
      <4>3. a \in Answers(Crc(drv.cmd, drv.a))  BY <3>5 DEF c
      <4>4. PICK w : To(w, drv.cmd, drv.a) /\ Unsaid(a, w)  BY <2>2, <4>3, AnswersAre
      <4>5. card'.q = a /\ ~card'.mid /\ w.rest \in Seq(Int)  BY <4>2, <4>4 DEF To, Answer
      <4>6. PICK R : R = Len(rx')  OBVIOUS
      <4>7. R \in Nat
        <5>1. rx' \in Seq(Int)  BY <1>1, <1>3, TurnsSay
        <5> QED  BY <4>6, <5>1
      <4>8. 0 - R \in Int /\ 0 - R <= 0 /\ 0 - R + R = 0 /\ \A j \in 1 .. R : 0 - R + j \in Int /\ 0 - R + j <= 0
        BY <4>7
      <4>9. \A j \in 1 .. R : rx'[j] = Heard(w, 0, 0 - R + j)
        <5> SUFFICES ASSUME NEW j \in 1 .. R PROVE rx'[j] = Heard(w, 0, 0 - R + j)
          OBVIOUS
        <5>1. rx'[j] = FF  BY <3>2, <4>6 DEF Blank
        <5>2. Heard(w, 0, 0 - R + j) = FF  BY <4>5, <4>8, Silence
        <5> QED  BY <5>1, <5>2
      <4>10. CardAt(card', w, 0, 0 - R + R)  BY <4>4, <4>5, <4>8 DEF CardAt
      <4>11. Coming(w, 0 - R, 0)'  BY <4>6, <4>8, <4>9, <4>10 DEF Coming
      <4>12. Held(w, 0 - R, 0)'
        <5>1. Heard(w, 0, 0 - R) = FF  BY <4>5, <4>8, Silence
        <5> QED  BY <1>1, <3>1, <5>1 DEF Held
      <4>13. 0 - R <= Owed'  BY <1>8, <4>8, <4>7
      <4>14. To(w, drv'.cmd, drv'.a)  BY <1>1, <4>4
      <4>15. Answering'  BY <3>5, <4>11, <4>12, <4>13, <4>14 DEF Answering
      <4> QED  BY <4>15
    <3> QED  BY <3>3, <3>4, <3>5
  <2>4. ASSUME Answering PROVE Answering'
    <3>1. PICK w, p, g : To(w, drv.cmd, drv.a) /\ Coming(w, p, g) /\ Held(w, p, g) /\ p <= Owed
      BY <2>4 DEF Answering
    <3>2. Answer(w) /\ p \in Int  BY <3>1 DEF To, Coming
    <3>3. Idle(Head(tx)) /\ Harmless(Unsent')  BY <1>9, <2>4 DEF Answering
    <3>4. PICK p2 \in Int, g2 \in Nat :
            /\ Coming(w, p2, g2)' /\ (p2 = p \/ (p <= 0 /\ p2 <= 0))
            /\ Heard(w, g2, p2) = Heard(w, g, p)
      BY <1>7, <2>1, <3>1, <3>2, <3>3
    <3>5. Held(w, p2, g2)'  BY <1>8, <3>1, <3>4
    <3>6. p2 <= Owed'  BY <1>8, <3>1, <3>2, <3>4
    <3>7. To(w, drv'.cmd, drv'.a)  BY <1>1, <3>1
    <3> QED  BY <3>3, <3>4, <3>5, <3>6, <3>7 DEF Answering
  <2>5. CrcAhead \/ Answering  BY <1>11 DEF Flow
  <2> QED  BY <2>3, <2>4, <2>5
<1>12. ASSUME drv.pc = "token" PROVE AtToken'
  <2>1. drv.cs /\ drv.a \in DOMAIN Blocks /\ Harmless(Unsent) /\ AtToken
    BY <1>12 DEF ControlOK, Control, Flow
  <2>2. PICK w, p, g : /\ w \in {FullBlock(drv.a), ReadError} /\ Coming(w, p, g) /\ Held(w, p, g)
                       /\ 1 + Owed <= p /\ p <= 1 + g + Owed
    BY <2>1 DEF AtToken
  <2>3. Answer(w)  BY <2>1, <2>2, AnswerTo
  <2>4. p \in Int /\ g \in Nat  BY <2>2 DEF Coming
  <2>5. PICK p2 \in Int, g2 \in Nat :
          /\ Coming(w, p2, g2)' /\ g2 >= g /\ (p2 = p \/ (p <= 0 /\ p2 <= 0))
          /\ Heard(w, g2, p2) = Heard(w, g, p)
    BY <1>7, <1>9, <2>1, <2>2, <2>3
  <2>6. p2 = p /\ 1 + Owed' <= p2 /\ p2 <= 1 + g2 + Owed'  BY <1>8, <2>2, <2>4, <2>5
  <2>7. Held(w, p2, g2)'  BY <1>8, <2>2, <2>5
  <2>8. w \in {FullBlock(drv'.a), ReadError}  BY <1>1, <2>2
  <2> QED  BY <2>5, <2>6, <2>7, <2>8 DEF AtToken
<1>13. ASSUME drv.pc = "data" PROVE AtData'
  <2>1. drv.cs /\ drv.a \in DOMAIN Blocks /\ Harmless(Unsent) /\ AtData
    BY <1>13 DEF ControlOK, Control, Flow
  <2>2. PICK p, g : /\ Coming(FullBlock(drv.a), p, g) /\ Held(FullBlock(drv.a), p, g)
                    /\ p = 2 + g + drv.i + Owed
    BY <2>1 DEF AtData
  <2>3. PICK w : w = FullBlock(drv.a)  OBVIOUS
  <2>4. Answer(w) /\ Coming(w, p, g) /\ Held(w, p, g)  BY <2>1, <2>2, <2>3, AnswerTo
  <2>5. p \in Int /\ g \in Nat  BY <2>2 DEF Coming
  <2>6. drv.i \in 0 .. (BLOCK + 1) /\ Sliced(drv, drv.i) /\ BLOCK \in Nat  BY <2>1, SdAssumption DEF AtData
  <2>7. PICK p2 \in Int, g2 \in Nat :
          /\ Coming(w, p2, g2)' /\ g2 >= g /\ (p2 = p \/ (p <= 0 /\ p2 <= 0))
          /\ g2 = g \/ p <= 1 + g
          /\ Heard(w, g2, p2) = Heard(w, g, p)
    BY <1>7, <1>9, <2>1, <2>4
  <2>8. p > 1 + g /\ p > 0  BY <1>8, <2>2, <2>5, <2>6
  <2>9. p2 = p /\ g2 = g  BY <2>5, <2>7, <2>8
  <2>10. Held(w, p2, g2)'  BY <1>8, <2>4, <2>7
  <2>11. w = FullBlock(drv'.a) /\ p2 = 2 + g2 + drv'.i + Owed'  BY <1>1, <1>8, <2>2, <2>3, <2>9
  <2>12. drv'.i \in 0 .. (BLOCK + 1) /\ Sliced(drv', drv'.i)  BY <1>1, <2>6
  <2> QED  BY <2>7, <2>10, <2>11, <2>12 DEF AtData
<1>14. ASSUME drv.pc = "tail" PROVE AtTail'
  <2>1. drv.cs /\ Harmless(Unsent) /\ AtTail
    BY <1>14 DEF ControlOK, Control, Flow
  <2>2. PICK w, p : Answer(w) /\ Len(w.rest) = TAIL /\ ~w.late /\ Coming(w, p, 0)
                    /\ p = 1 + drv.i + Owed
    BY <2>1 DEF AtTail
  <2>3. p \in Int /\ drv.i \in 0 .. (TAIL - 1) /\ TAIL \in Nat  BY <2>1, <2>2, SdAssumption DEF Coming, AtTail
  <2>4. PICK p2 \in Int, g2 \in Nat : Coming(w, p2, g2)' /\ (p2 = p \/ (p <= 0 /\ p2 <= 0))
    BY <1>7, <1>9, <2>1, <2>2
  <2>5. p2 = p /\ g2 = 0
    <3>1. p > 0  BY <1>8, <2>2, <2>3
    <3>2. g2 = 0  BY <2>2, <2>4 DEF Coming
    <3> QED  BY <2>3, <2>4, <3>1, <3>2
  <2>6. p2 = 1 + drv'.i + Owed'  BY <1>1, <1>8, <2>2, <2>5
  <2>7. Coming(w, p2, 0)'  BY <2>4, <2>5
  <2> QED  BY <1>1, <2>2, <2>3, <2>6, <2>7 DEF AtTail
<1>15. ASSUME Writing(drv) PROVE AtWrite'
  <2>1. drv.cs /\ AtWrite /\ drv.tries \in Nat  BY <1>15 DEF ControlOK, Control, Flow
  <2>2. card.q = <<>> /\ ~card.mid /\ Ending(Unsent) /\ Blank /\ drv.pc # "busy"  BY <1>4, <2>1 DEF AtWrite
  <2>3. Blank' /\ t.next = card /\ Len(rx') <= Len(rx) + 1  BY <1>1, <1>3, <2>1, <2>2, Nothing
  <2>4. Ending(Unsent') /\ (Unsent' # <<>> => Idle(Head(tx)))  BY <1>4, <1>5, <2>2, SymbolsTail
  <2>5. (card'.q = <<>> /\ ~card'.mid /\ Ending(Unsent')) \/ Unsent' = <<>>
    BY <1>6, <2>2, <2>3, <2>4
  <2>6. Len(tx') = Len(tx) - 1 /\ Len(tx) \in Nat  BY <1>1, <1>3, Shortened
  <2>7. Len(rx') \in Nat
    <3>1. rx' \in Seq(Int)  BY <1>1, <1>3, TurnsSay
    <3> QED  BY <3>1
  <2>8. drv.tries > Len(tx) + Len(rx) => drv.tries > Len(tx') + Len(rx')
    BY <1>3, <2>1, <2>3, <2>6, <2>7
  <2> QED  BY <1>1, <2>1, <2>2, <2>3, <2>5, <2>8 DEF AtWrite
<1>16. ASSUME Harmless(Unsent) PROVE Harmless(Unsent')  BY <1>9, <1>16
<1>17. Flow'
  BY <1>1, <1>10, <1>11, <1>12, <1>13, <1>14, <1>15, <1>16 DEF Flow
<1> QED  BY <1>17


\* A turn of a loop is over: n is e, with the byte that was read let go.
Settled(n, e) ==
  Shaped(n) /\ Same(n, e, {"owe", "byte"}) /\ ~n.owe /\ n.byte = FF

LEMMA SettledFields ==
  ASSUME NEW n, NEW e, Settled(n, e)
  PROVE  /\ n.pc = e.pc /\ n.cs = e.cs /\ n.call = e.call /\ n.cmd = e.cmd /\ n.a = e.a
         /\ n.slice = e.slice /\ n.out = e.out /\ n.then = e.then /\ n.tries = e.tries
         /\ n.rounds = e.rounds /\ n.i = e.i /\ n.buf = e.buf /\ n.ok = e.ok
         /\ ~n.owe /\ n.byte = FF
BY DEF Settled, Same, Fields

\* The dummy byte behind a byte that was read.
LEMMA Clocked ==
  ASSUME ControlOK, drv.owe, tx' = Clock(tx)
  PROVE  /\ drv.out = <<>> /\ Unsent = tx /\ tx \in Seq(Symbols) /\ tx' \in Seq(Symbols)
         /\ tx' = tx \o <<Dummy>> /\ <<Dummy>> \in Seq(Symbols) /\ Harmless(<<Dummy>>)
         /\ Harmless(Unsent) => Harmless(tx')
<1>1. drv.pc # "send" /\ drv.out = <<>> /\ tx \in Seq(Symbols)
  BY DEF ControlOK, Control, Reading
<1>2. Unsent = tx  BY <1>1, NoneLeft DEF Unsent
<1>3. Dummy \in Symbols /\ Idle(Dummy)  BY DEF Dummy, Symbols, Idle
<1>4. <<Dummy>> \in Seq(Symbols) /\ Harmless(<<Dummy>>)  BY <1>3 DEF Harmless
<1>5. tx' = tx \o <<Dummy>>  BY <1>1, <1>3, AppendIsConcat DEF Clock
<1>6. tx' \in Seq(Symbols)  BY <1>1, <1>3 DEF Clock
<1>7. Harmless(tx) => Harmless(tx')  BY <1>1, <1>4, <1>5, HarmlessJoined
<1> QED  BY <1>1, <1>2, <1>4, <1>5, <1>6, <1>7

\* The call returns or closes with nothing left of the answer.
LEMMA FlowBetween ==
  ASSUME Between(drv'), Clear', tx' \in Seq(Symbols), Harmless(tx'),
         drv'.out = <<>> \/ drv'.out = <<Dummy>>,
         drv'.call = "read" /\ drv'.ok => Sliced(drv', BLOCK)
  PROVE  Flow'
<1>1. ~Commanding(drv') /\ ~Writing(drv') /\ drv'.pc \notin {"token", "data", "tail"}
  BY DEF Between, Commanding, Writing
<1>2. Dummy \in Symbols /\ Idle(Dummy)  BY DEF Dummy, Symbols, Idle
<1>3. <<Dummy>> \in Seq(Symbols) /\ Harmless(<<Dummy>>)  BY <1>2 DEF Harmless
<1>4. Harmless(tx' \o <<Dummy>>)  BY <1>3, HarmlessJoined
<1>5. tx' \o <<>> = tx'  BY NoneLeft
<1>6. Harmless(Unsent')  BY <1>4, <1>5 DEF Unsent
<1> QED  BY <1>1, <1>6 DEF Flow

\* The R1 that ends a command leaves nothing of its answer.
LEMMA FlowEnded ==
  ASSUME ControlOK, ControlOK', drv.pc = "r1", Clear', tx' \in Seq(Symbols), Harmless(tx'),
         NEW e, NEW b, Ended(e, drv, b), Settled(drv', e)
  PROVE  Flow'
<1>1. Shaped(drv)  BY DEF ControlOK, Control
<1>2. CASE e = SDSendCommand(drv, "CMD8")
  <2> DEFINE c == [drv EXCEPT !.owe = FALSE, !.byte = FF]
  <2>1. /\ c.call = drv.call /\ c.a = drv.a /\ c.slice = drv.slice /\ c.owe = FALSE
        /\ c.byte = FF /\ c.rounds = drv.rounds /\ c.ok = drv.ok
    BY <1>1 DEF Shaped, Fields
  <2> HIDE DEF c
  <2>2. Commanded(e, drv, "CMD8")  BY <1>1, <1>2, CommandFields
  <2>3. Shaped(drv') /\ drv'.owe = c.owe /\ drv'.byte = c.byte
    <3>1. ~drv'.owe /\ Shaped(drv') /\ drv'.byte = FF  BY DEF Settled
    <3>2. drv'.owe \in BOOLEAN  BY DEF ControlOK, Control
    <3>3. drv'.owe = FALSE  BY <3>1, <3>2, Zenon
    <3> QED  BY <2>1, <3>1, <3>3
  <2>4. Commanded(drv', c, "CMD8")
    BY <2>1, <2>2, <2>3, SettledFields DEF Commanded
  <2>5. ~c.owe  BY <2>1
  <2> QED  BY <2>4, <2>5, FlowCommand
<1>3. CASE e = Return(drv, FALSE)
  <2>1. Returned(e, drv)  BY <1>3, ReturnFields
  <2>2. e.pc = "idle" /\ e.out = <<>> /\ e.call = "none"  BY <2>1 DEF Returned
  <2>3. drv'.pc = "idle" /\ drv'.out = <<>> /\ drv'.call = "none"  BY <2>2, SettledFields
  <2>4. Between(drv')  BY <2>3 DEF Between
  <2> QED  BY <2>3, <2>4, FlowBetween
<1>4. ASSUME NEW c \in {drv, FewerRounds(drv)}, NEW ok \in BOOLEAN,
             NEW then \in {"CMD55", "ACMD41", "CMD58", "idle"},
             e = Deassert(c, ok, then), ok => drv.call # "read"
      PROVE  Flow'
  <2>1. Shaped(c) /\ c.call = drv.call
    BY <1>1 DEF FewerRounds, Shaped, Fields
  <2>2. Closed(e, c, ok, then)  BY <1>4, <2>1, DeassertFields
  <2>3. e.pc = "send" /\ e.out = <<Dummy>> /\ e.then = then /\ e.call = drv.call
    BY <2>1, <2>2 DEF Closed
  <2>4. e.ok = ok  BY <2>2 DEF Closed
  <2>5. drv'.pc = "send" /\ drv'.out = <<Dummy>> /\ drv'.then = then /\ drv'.call = drv.call
        /\ drv'.ok = e.ok
    BY <2>3, SettledFields
  <2>6. ~(drv'.call = "read" /\ drv'.ok)  BY <1>4, <2>4, <2>5
  <2>7. Between(drv')  BY <1>4, <2>5 DEF Between
  <2> QED  BY <2>5, <2>6, <2>7, FlowBetween
<1> QED  BY <1>2, <1>3, <1>4 DEF Ended

LEMMA FlowR1 ==
  ASSUME ControlOK, ControlOK', Flow, drv.pc = "r1", drv.owe, ~GaveUp(drv),
         UNCHANGED <<rx, card>>, tx' = Clock(tx), Settled(drv', Decide(drv))
  PROVE  Flow'
<1> DEFINE b == drv.byte
<1>1. /\ Control(drv) /\ Shaped(drv) /\ drv.tries \in Nat /\ drv.tries > 0 /\ Commanding(drv)
      /\ rx \in Seq(Int)
  BY DEF ControlOK, Control, Commanding
<1>2. drv.i = 0 /\ drv.buf = <<>> /\ (CrcAhead \/ Answering)  BY <1>1 DEF Flow
<1>3. b = FF => drv.tries > 1  BY <1>1 DEF GaveUp
<1>4. /\ drv.out = <<>> /\ Unsent = tx /\ tx \in Seq(Symbols) /\ tx' \in Seq(Symbols)
      /\ tx' = tx \o <<Dummy>> /\ <<Dummy>> \in Seq(Symbols) /\ Harmless(<<Dummy>>)
      /\ Harmless(Unsent) => Harmless(tx')
  BY Clocked
<1>5. Owed = 1 /\ Owed' = 0  BY DEF Owed, Settled
<1>6. CASE b = FF
  <2>1. Decide(drv) = Retry(drv)  BY <1>3, <1>6 DEF Decide
  <2>2. Shaped(Retry(drv)) /\ Same(Retry(drv), drv, {"tries"})
    BY <1>1 DEF Retry, Shaped, Same, Fields
  <2> DEFINE e == Retry(drv)
  <2> HIDE DEF e
  <2>3. /\ e.pc = drv.pc /\ e.cmd = drv.cmd /\ e.a = drv.a /\ e.out = drv.out /\ e.i = drv.i
        /\ e.buf = drv.buf
    BY <2>2 DEF e, Same, Fields
  <2>4. Settled(drv', e)  BY <2>1 DEF e
  <2>5. /\ drv'.pc = "r1" /\ drv'.cmd = drv.cmd /\ drv'.a = drv.a /\ drv'.out = <<>>
        /\ drv'.i = 0 /\ drv'.buf = <<>> /\ ~drv'.owe
    BY <1>2, <1>4, <2>3, <2>4, SettledFields
  <2>6. Unsent' = tx'  BY <1>4, <2>5, NoneLeft DEF Unsent
  <2>7. ASSUME CrcAhead PROVE CrcAhead'
    <3>1. Once(tx, Crc(drv.cmd, drv.a))  BY <1>4, <2>7 DEF CrcAhead
    <3>2. Once(tx', Crc(drv.cmd, drv.a))  BY <1>4, <3>1, OnceJoined
    <3> QED  BY <2>5, <2>6, <2>7, <3>2 DEF CrcAhead, Clear, Blank
  <2>8. ASSUME Answering PROVE Answering'
    <3>1. PICK w, p, g : To(w, drv.cmd, drv.a) /\ Coming(w, p, g) /\ Held(w, p, g) /\ p <= Owed
      BY <2>8 DEF Answering
    <3>2. Answer(w) /\ p \in Int /\ b = Heard(w, g, p)  BY <3>1 DEF To, Coming, Held
    <3>3. p # 1
      <4>1. Heard(w, g, 1) = w.r1 /\ w.r1 \in {0, 1, 4, 5}  BY <3>2 DEF Heard, Answer
      <4>2. w.r1 # FF  BY <4>1 DEF FF
      <4> QED  BY <1>6, <3>2, <4>1, <4>2
    <3>4. p <= Owed'  BY <1>5, <3>1, <3>2, <3>3
    <3>5. Coming(w, p, g)' /\ Held(w, p, g)'  BY <2>5, <3>1 DEF Coming, Held
    <3>6. To(w, drv'.cmd, drv'.a)  BY <2>5, <3>1
    <3>7. Harmless(Unsent')  BY <1>4, <2>6, <2>8 DEF Answering
    <3> QED  BY <3>4, <3>5, <3>6, <3>7 DEF Answering
  <2>9. ~Between(drv') /\ ~Writing(drv')  BY <2>5 DEF Between, Writing
  <2> QED  BY <1>2, <2>5, <2>7, <2>8, <2>9 DEF Flow
<1>7. CASE b # FF
  <2>1. Answering  BY <1>2, <1>7 DEF CrcAhead
  <2>2. Harmless(tx')  BY <1>4, <2>1 DEF Answering
  <2>3. PICK w, p, g : To(w, drv.cmd, drv.a) /\ Coming(w, p, g) /\ Held(w, p, g) /\ p <= Owed
    BY <2>1 DEF Answering
  <2>4. Answer(w) /\ p \in Int /\ g \in Nat /\ (~w.late => g = 0) /\ b = Heard(w, g, p)
    BY <2>3 DEF To, Coming, Held
  <2>5. p = 1
    <3>1. w.rest \in Seq(Int)  BY <2>4 DEF Answer
    <3>2. ~(p <= 0)  BY <1>7, <2>4, <3>1, Silence
    <3> QED  BY <1>5, <2>3, <2>4, <3>2
  <2>6. b = w.r1  BY <2>4, <2>5 DEF Heard
  <2>7. Decide(drv) = GotR1(drv, b)  BY <1>7 DEF Decide
  <2> DEFINE e == GotR1(drv, b)
  <2>8. Settled(drv', e)  BY <2>7
  <2>9. ASSUME w.rest = <<>> PROVE Clear'
    <3>1. ~w.late  BY <2>4, <2>9 DEF Answer
    <3>2. p >= 1 + g + Len(w.rest)  BY <2>4, <2>5, <2>9, <3>1
    <3>3. Clear  BY <1>1, <2>3, <2>4, <3>2, AllRead
    <3> QED  BY <3>3 DEF Clear, Blank
  <2>10. Coming(w, 1, g)'  BY <2>3, <2>5 DEF Coming
  <2>11. \/ drv.cmd = "CMD17" /\ b = 0 /\ e = ToToken(drv)
         \/ drv.cmd = "CMD24" /\ b = 0 /\ e = ToWrite(drv)
         \/ ~Plain(drv.cmd, b) /\ drv.cmd \in {"CMD8", "CMD58"} /\ e = ToTail(drv)
         \/ Ended(e, drv, b)
    BY <1>1, R1Outcome
  <2> HIDE DEF e, b
  <2>12. CASE drv.cmd = "CMD17" /\ b = 0 /\ e = ToToken(drv)
    <3>1. /\ e.pc = "token" /\ e.a = drv.a /\ e.out = drv.out /\ e.buf = drv.buf
      BY <1>1, <2>12 DEF ToToken, Shaped, Fields
    <3>2. drv'.pc = "token" /\ drv'.a = drv.a /\ drv'.out = <<>> /\ drv'.buf = <<>> /\ ~drv'.owe
      BY <1>2, <1>4, <2>8, <3>1, SettledFields
    <3>3. Harmless(Unsent')  BY <1>4, <2>2, <3>2, NoneLeft DEF Unsent
    <3>4. w \in {FullBlock(drv'.a), ReadError}
      <4>1. ~Plain("CMD17", 0)  BY DEF Plain
      <4> QED  BY <2>3, <2>6, <2>12, <3>2, <4>1 DEF To
    <3>5. Held(w, 1, g)'  BY <3>2 DEF Held
    <3>6. 1 + Owed' <= 1 /\ 1 <= 1 + g + Owed'  BY <1>5, <2>4
    <3>7. AtToken'  BY <2>10, <3>4, <3>5, <3>6 DEF AtToken
    <3>8. ~Between(drv') /\ ~Writing(drv') /\ ~Commanding(drv')
      BY <3>2 DEF Between, Writing, Commanding
    <3> QED  BY <3>2, <3>3, <3>7, <3>8 DEF Flow
  <2>13. CASE drv.cmd = "CMD24" /\ b = 0 /\ e = ToWrite(drv)
    <3>1. w.rest = <<>>  BY <2>3, <2>13 DEF To
    <3>2. Clear'  BY <2>9, <3>1
    <3>3. Wrote(e, drv)  BY <1>1, <2>13, WriteFields
    <3>4. e.pc = "send" /\ e.out = Payload /\ e.then = "resp" /\ e.tries = BUSY_TRIES
      BY <3>3 DEF Wrote
    <3>5. drv'.pc = "send" /\ drv'.out = Payload /\ drv'.then = "resp" /\ drv'.tries = BUSY_TRIES
      BY <2>8, <3>4, SettledFields
    <3>6. Ending(Payload) /\ Payload \in Seq(Symbols)
      <4>1. BLOCK \in Nat /\ Idle(Arg) /\ WriteEnd.sym = "end"  BY SdAssumption DEF Idle, Arg, WriteEnd
      <4>2. \A j \in 1 .. (BLOCK + 3) : j \in 1 .. (BLOCK + 2) \/ j = BLOCK + 3  BY <4>1
      <4> QED  BY <4>1, <4>2, PayloadIs DEF Ending
    <3>7. Ending(Unsent')  BY <1>4, <2>2, <3>5, <3>6, EndingJoined DEF Unsent
    <3>8. BUSY_TRIES > 2 * FIFO  BY SdAssumption
    <3>9. AtWrite'  BY <3>2, <3>5, <3>7, <3>8 DEF AtWrite, Clear
    <3>10. ~Between(drv') /\ ~Commanding(drv')  BY <3>5 DEF Between, Commanding
    <3> QED  BY <3>5, <3>9, <3>10 DEF Flow
  <2>14. CASE ~Plain(drv.cmd, b) /\ drv.cmd \in {"CMD8", "CMD58"} /\ e = ToTail(drv)
    <3>1. Len(w.rest) = TAIL /\ ~w.late  BY <2>3, <2>6, <2>14 DEF To
    <3>2. g = 0  BY <2>4, <3>1
    <3>3. e.pc = "tail" /\ e.out = drv.out /\ e.i = drv.i
      BY <1>1, <2>14 DEF ToTail, Shaped, Fields
    <3>4. drv'.pc = "tail" /\ drv'.out = <<>> /\ drv'.i = 0 /\ ~drv'.owe
      BY <1>2, <1>4, <2>8, <3>3, SettledFields
    <3>5. Harmless(Unsent')  BY <1>4, <2>2, <3>4, NoneLeft DEF Unsent
    <3>6. 0 \in 0 .. (TAIL - 1)  BY SdAssumption
    <3>7. 1 = 1 + drv'.i + Owed'  BY <1>5, <3>4
    <3>8. Coming(w, 1, 0)'  BY <2>10, <3>2
    <3>9. drv'.i \in 0 .. (TAIL - 1)  BY <3>4, <3>6
    <3>10. AtTail'  BY <2>4, <3>1, <3>7, <3>8, <3>9 DEF AtTail
    <3>11. ~Between(drv') /\ ~Commanding(drv') /\ ~Writing(drv')
      BY <3>4 DEF Between, Commanding, Writing
    <3> QED  BY <3>4, <3>5, <3>10, <3>11 DEF Flow
  <2>15. CASE Ended(e, drv, b)
    <3>1. Plain(drv.cmd, w.r1)  BY <2>6, <2>15 DEF Ended
    <3>2. w.rest = <<>>
      <4>1. ~Plain("CMD17", 0)  BY DEF Plain
      <4>2. FullBlock(drv.a).r1 = 0 /\ ReadError.r1 = 0  BY DEF FullBlock, ReadError
      <4> QED  BY <2>3, <3>1, <4>1, <4>2 DEF To
    <3>3. Clear'  BY <2>9, <3>2
    <3> QED  BY <1>4, <2>2, <2>8, <2>15, <3>3, FlowEnded
  <2> QED  BY <2>11, <2>12, <2>13, <2>14, <2>15
<1> QED  BY <1>6, <1>7

LEMMA FlowToken ==
  ASSUME ControlOK, ControlOK', Flow, drv.pc = "token", drv.owe, ~GaveUp(drv),
         UNCHANGED <<rx, card>>, tx' = Clock(tx), Settled(drv', Decide(drv))
  PROVE  Flow'
<1> DEFINE b == drv.byte
<1>1. /\ Control(drv) /\ Shaped(drv) /\ drv.tries \in Nat /\ drv.tries > 0
      /\ drv.call = "read" /\ drv.a \in DOMAIN Blocks /\ rx \in Seq(Int)
  BY DEF ControlOK, Control
<1>2. drv.tries > 1  BY <1>1 DEF GaveUp
<1>3. Harmless(Unsent) /\ drv.buf = <<>> /\ AtToken  BY DEF Flow
<1>4. /\ drv.out = <<>> /\ Unsent = tx /\ tx' \in Seq(Symbols) /\ Harmless(tx')
  BY <1>3, Clocked
<1>5. Owed = 1 /\ Owed' = 0  BY DEF Owed, Settled
<1>6. PICK w, p, g : w \in {FullBlock(drv.a), ReadError} /\ Coming(w, p, g) /\ Held(w, p, g)
                     /\ 1 + Owed <= p /\ p <= 1 + g + Owed
  BY <1>3 DEF AtToken
<1>7. Answer(w) /\ p \in Int /\ g \in Nat /\ b = Heard(w, g, p) /\ Coming(w, p, g)'
  <2>1. Answer(w)  BY <1>1, <1>6, AnswerTo
  <2>2. Coming(w, p, g)'  BY <1>6 DEF Coming
  <2> QED  BY <1>6, <2>1, <2>2 DEF Coming, Held
<1>8. p >= 2 /\ p <= 2 + g  BY <1>5, <1>6, <1>7
<1>9. Len(w.rest) \in Nat /\ Len(w.rest) >= 1 /\ w.rest \in Seq(Int)
  BY <1>1, <1>6, <1>7, AnswerBlock, AnswerTo DEF Answer
<1>10. p = 2 + g => b = w.rest[1]
  <2>1. ASSUME p = 2 + g PROVE p # 1 /\ p - 1 - g = 1 /\ 1 \in 1 .. Len(w.rest)
    BY <1>7, <1>9, <2>1
  <2> QED  BY <1>7, <2>1, InRest
<1>11. p # 2 + g => b = FF
  <2>1. ASSUME p # 2 + g PROVE p # 1 /\ ~(p - 1 - g \in 1 .. Len(w.rest))
    BY <1>7, <1>8, <1>9, <2>1
  <2> QED  BY <1>7, <2>1, Apart
<1>12. FullBlock(drv.a).rest[1] = TOKEN /\ ReadError.rest = <<8>>
  BY <1>1, AnswerBlock
<1>13. w.rest[1] \in {TOKEN, 8} /\ TOKEN # FF /\ 8 # FF /\ 8 # TOKEN
  BY <1>6, <1>12 DEF TOKEN, FF
<1>14. CASE b = FF
  <2> DEFINE e == Retry(drv)
  <2>1. Decide(drv) = e  BY <1>2, <1>14 DEF Decide
  <2>2. /\ e.pc = drv.pc /\ e.a = drv.a /\ e.out = drv.out /\ e.buf = drv.buf
    BY <1>1 DEF Retry, Shaped, Fields
  <2> HIDE DEF e
  <2>3. drv'.pc = "token" /\ drv'.a = drv.a /\ drv'.out = <<>> /\ drv'.buf = <<>> /\ ~drv'.owe
    BY <1>3, <1>4, <2>1, <2>2, SettledFields
  <2>4. Harmless(Unsent')  BY <1>4, <2>3, NoneLeft DEF Unsent
  <2>5. p # 2 + g  BY <1>10, <1>13, <1>14
  <2>6. 1 + Owed' <= p /\ p <= 1 + g + Owed'  BY <1>5, <1>7, <1>8, <2>5
  <2>7. Held(w, p, g)' /\ w \in {FullBlock(drv'.a), ReadError}  BY <1>6, <2>3 DEF Held
  <2>8. AtToken'  BY <1>7, <2>6, <2>7 DEF AtToken
  <2>9. ~Between(drv') /\ ~Writing(drv') /\ ~Commanding(drv')
    BY <2>3 DEF Between, Writing, Commanding
  <2> QED  BY <2>3, <2>4, <2>8, <2>9 DEF Flow
<1>15. CASE b # FF /\ b # TOKEN
  <2>1. p = 2 + g /\ w = ReadError  BY <1>6, <1>10, <1>11, <1>12, <1>15
  <2>2. Len(w.rest) = 1  BY <1>12, <2>1
  <2>3. p >= 1 + g + Len(w.rest)  BY <1>7, <2>1, <2>2
  <2>4. Clear  BY <1>1, <1>6, <1>7, <2>3, AllRead
  <2>5. Clear'  BY <2>4 DEF Clear, Blank
  <2> DEFINE r == FALSE
             e == Deassert(drv, r, "idle")
  <2>6. Decide(drv) = e  BY <1>15 DEF Decide
  <2>7. ~r  OBVIOUS
  <2> HIDE DEF r
  <2>8. Closed(e, drv, r, "idle")  BY <1>1, DeassertFields
  <2> HIDE DEF e
  <2>9. e.pc = "send" /\ e.out = <<Dummy>> /\ e.then = "idle" /\ ~e.ok
    BY <2>7, <2>8 DEF Closed
  <2>10. drv'.pc = "send" /\ drv'.out = <<Dummy>> /\ drv'.then = "idle" /\ ~drv'.ok
    BY <2>6, <2>9, SettledFields
  <2>11. Between(drv')  BY <2>10 DEF Between
  <2> QED  BY <1>4, <2>5, <2>10, <2>11, FlowBetween
<1>16. CASE b = TOKEN
  <2>1. b # FF  BY <1>13, <1>16
  <2>2. p = 2 + g /\ w = FullBlock(drv.a)  BY <1>6, <1>10, <1>11, <1>12, <1>13, <1>16, <2>1
  <2> DEFINE e == ToData(drv)
  <2>3. Decide(drv) = e
    <3>1. drv.tries # 1  BY <1>1, <1>2
    <3> QED  BY <1>16, <2>1, <3>1 DEF Decide, ToData
  <2>4. /\ e.pc = "data" /\ e.i = 0 /\ e.a = drv.a /\ e.out = drv.out /\ e.buf = drv.buf
        /\ e.slice = drv.slice
    BY <1>1 DEF ToData, Shaped, Fields
  <2> HIDE DEF e
  <2>5. drv'.pc = "data" /\ drv'.a = drv.a /\ drv'.out = <<>> /\ drv'.buf = <<>> /\ ~drv'.owe
        /\ drv'.i = 0 /\ drv'.slice = drv.slice
    BY <1>3, <1>4, <2>3, <2>4, SettledFields
  <2>6. Harmless(Unsent')  BY <1>4, <2>5, NoneLeft DEF Unsent
  <2>7. drv.slice[1] \in Nat /\ BLOCK \in Nat  BY <1>1, SliceIs
  <2>8. Sliced(drv', 0)  BY <2>5, <2>7 DEF Sliced
  <2>9. w = FullBlock(drv'.a) /\ Held(w, p, g)'  BY <2>2, <2>5 DEF Held
  <2>10. p = 2 + g + drv'.i + Owed'  BY <1>5, <1>7, <2>2, <2>5
  <2>11. drv'.i \in 0 .. (BLOCK + 1)  BY <2>5, <2>7
  <2>12. AtData'  BY <1>7, <2>5, <2>8, <2>9, <2>10, <2>11 DEF AtData
  <2>13. ~Between(drv') /\ ~Writing(drv') /\ ~Commanding(drv')
    BY <2>5 DEF Between, Writing, Commanding
  <2> QED  BY <2>5, <2>6, <2>12, <2>13 DEF Flow
<1> QED  BY <1>14, <1>15, <1>16

LEMMA FlowData ==
  ASSUME ControlOK, ControlOK', Flow, drv.pc = "data", drv.owe,
         UNCHANGED <<rx, card>>, tx' = Clock(tx), Settled(drv', Decide(drv))
  PROVE  Flow'
<1> DEFINE b == drv.byte
<1>1. /\ Control(drv) /\ Shaped(drv) /\ drv.call = "read" /\ drv.a \in DOMAIN Blocks
      /\ rx \in Seq(Int)
  BY DEF ControlOK, Control
<1>2. Harmless(Unsent) /\ AtData  BY DEF Flow
<1>3. /\ drv.out = <<>> /\ Unsent = tx /\ tx' \in Seq(Symbols) /\ Harmless(tx')
  BY <1>2, Clocked
<1>4. Owed = 1 /\ Owed' = 0  BY DEF Owed, Settled
<1>5. PICK w : w = FullBlock(drv.a)  OBVIOUS
<1>6. PICK p, g : Coming(w, p, g) /\ Held(w, p, g) /\ p = 2 + g + drv.i + Owed
  BY <1>2, <1>5 DEF AtData
<1>7. /\ drv.slice[1] \in Nat /\ drv.slice[2] \in Nat /\ drv.slice[1] + drv.slice[2] <= BLOCK
      /\ BLOCK \in Nat
  BY <1>1, SliceIs
<1>8. drv.i \in 0 .. (BLOCK + 1) /\ Sliced(drv, drv.i)  BY <1>2 DEF AtData
<1>9. Answer(w) /\ p \in Int /\ g \in Nat /\ b = Heard(w, g, p)
  <2>1. Answer(w)  BY <1>1, <1>5, AnswerTo
  <2> QED  BY <1>6, <2>1 DEF Coming, Held
<1>10. Len(w.rest) = BLOCK + 3 /\ \A i \in 1 .. BLOCK : w.rest[i + 1] = Blocks[drv.a][i]
  BY <1>1, <1>5, AnswerBlock
<1>11. drv.i \in Nat /\ p = 3 + g + drv.i  BY <1>4, <1>6, <1>7, <1>8, <1>9
<1>12. b = w.rest[drv.i + 2]
  <2>1. p # 1 /\ p - 1 - g = drv.i + 2 /\ drv.i + 2 \in 1 .. (BLOCK + 3)
    BY <1>7, <1>8, <1>9, <1>11
  <2> QED  BY <1>9, <1>10, <2>1, InRest
<1>13. Wanted(drv) => b = Blocks[drv.a][drv.i + 1] /\ b \in Int
  <2>1. ASSUME Wanted(drv) PROVE drv.i + 1 \in 1 .. BLOCK /\ drv.i + 1 + 1 = drv.i + 2
    BY <1>7, <1>11, <2>1 DEF Wanted
  <2>2. ASSUME Wanted(drv) PROVE Blocks[drv.a][drv.i + 1] \in Int
    <3>1. Blocks[drv.a] \in Seq(0 .. 255) /\ Len(Blocks[drv.a]) = BLOCK  BY <1>1, SdAssumption
    <3>2. Blocks[drv.a] \in Seq(Int)  BY <3>1, Widened
    <3> QED  BY <2>1, <2>2, <3>1, <3>2
  <2> QED  BY <1>10, <1>12, <2>1, <2>2
<1> DEFINE buf == IF Wanted(drv) THEN Append(drv.buf, b) ELSE drv.buf
           e == NextPlace(drv, buf)
<1>14. Decide(drv) = IF BlockRead(e) THEN Deassert(e, TRUE, "idle") ELSE e
  BY DEF Decide, NextPlace
<1>15. Shaped(e) /\ Same(e, drv, {"i", "buf"}) /\ e.i = drv.i + 1 /\ e.buf = buf
  BY <1>1, PlaceFields
<1> HIDE DEF e
<1>16. /\ e.pc = drv.pc /\ e.a = drv.a /\ e.slice = drv.slice /\ e.out = drv.out
       /\ e.call = drv.call
  BY <1>15 DEF Same, Fields
<1>17. Sliced(e, drv.i + 1)
  BY <1>7, <1>8, <1>11, <1>13, <1>15, <1>16, SliceGrows
<1>18. CASE BlockRead(e)
  <2>1. drv.i + 1 = BLOCK + 2  BY <1>15, <1>18 DEF BlockRead
  <2>2. p >= 1 + g + Len(w.rest)  BY <1>7, <1>9, <1>10, <1>11, <2>1
  <2>3. Clear  BY <1>1, <1>6, <1>9, <2>2, AllRead
  <2>4. Clear'  BY <2>3 DEF Clear, Blank
  <2> DEFINE r == TRUE
             f == Deassert(e, r, "idle")
  <2>5. Decide(drv) = f  BY <1>14, <1>18
  <2> HIDE DEF r
  <2>6. Closed(f, e, r, "idle")  BY <1>15, DeassertFields
  <2> HIDE DEF f
  <2>7. f.pc = "send" /\ f.out = <<Dummy>> /\ f.then = "idle" /\ f.slice = e.slice /\ f.a = e.a
        /\ f.buf = e.buf
    BY <2>6 DEF Closed
  <2>8. /\ drv'.pc = "send" /\ drv'.out = <<Dummy>> /\ drv'.then = "idle"
        /\ drv'.slice = e.slice /\ drv'.a = e.a /\ drv'.buf = e.buf
    BY <2>5, <2>7, SettledFields
  <2>9. Sliced(drv', BLOCK)
    <3>1. Sliced(e, BLOCK + 2)  BY <1>17, <2>1
    <3>2. e.slice[1] \in Nat /\ e.slice[2] \in Nat /\ e.slice[1] + e.slice[2] <= BLOCK
      BY <1>7, <1>16
    <3> QED  BY <1>7, <2>8, <3>1, <3>2, SliceFull
  <2>10. Between(drv')  BY <2>8 DEF Between
  <2> QED  BY <1>3, <2>4, <2>8, <2>9, <2>10, FlowBetween
<1>19. CASE ~BlockRead(e)
  <2>1. Decide(drv) = e  BY <1>14, <1>19
  <2>2. /\ drv'.pc = "data" /\ drv'.a = drv.a /\ drv'.out = <<>> /\ drv'.buf = e.buf
        /\ ~drv'.owe /\ drv'.i = drv.i + 1 /\ drv'.slice = e.slice
    BY <1>3, <1>15, <1>16, <2>1, SettledFields
  <2>3. drv.i + 1 \in 0 .. (BLOCK + 1)  BY <1>7, <1>8, <1>15, <1>19 DEF BlockRead
  <2>4. Sliced(drv', drv'.i)
    <3>1. Sliced(e, drv'.i)  BY <1>17, <2>2
    <3>2. drv'.a = e.a  BY <1>16, <2>2
    <3> QED  BY <2>2, <3>1, <3>2 DEF Sliced
  <2>5. w = FullBlock(drv'.a) /\ Coming(w, p, g)' /\ Held(w, p, g)'
    BY <1>5, <1>6, <2>2 DEF Coming, Held
  <2>6. p = 2 + g + drv'.i + Owed'  BY <1>4, <1>9, <1>11, <2>2
  <2>7. AtData'  BY <2>2, <2>3, <2>4, <2>5, <2>6 DEF AtData
  <2>8. Harmless(Unsent')  BY <1>3, <2>2, NoneLeft DEF Unsent
  <2>9. ~Between(drv') /\ ~Writing(drv') /\ ~Commanding(drv')
    BY <2>2 DEF Between, Writing, Commanding
  <2> QED  BY <2>2, <2>7, <2>8, <2>9 DEF Flow
<1> QED  BY <1>18, <1>19

LEMMA FlowTail ==
  ASSUME ControlOK, ControlOK', Flow, drv.pc = "tail", drv.owe,
         UNCHANGED <<rx, card>>, tx' = Clock(tx), Settled(drv', Decide(drv))
  PROVE  Flow'
<1> DEFINE b == drv.byte
           e == NextPlace(drv, Append(drv.buf, b))
<1>1. Shaped(drv) /\ drv.call = "SDInit" /\ rx \in Seq(Int)  BY DEF ControlOK, Control
<1>2. Harmless(Unsent) /\ AtTail  BY DEF Flow
<1>3. /\ drv.out = <<>> /\ Unsent = tx /\ tx' \in Seq(Symbols) /\ Harmless(tx')
  BY <1>2, Clocked
<1>4. Owed = 1 /\ Owed' = 0  BY DEF Owed, Settled
<1>5. PICK w, p : Answer(w) /\ Len(w.rest) = TAIL /\ ~w.late /\ Coming(w, p, 0)
                  /\ p = 1 + drv.i + Owed
  BY <1>2 DEF AtTail
<1>6. p \in Int /\ drv.i \in 0 .. (TAIL - 1) /\ TAIL \in Nat
  BY <1>2, <1>5, SdAssumption DEF Coming, AtTail
<1>7. Decide(drv) = IF e.i = TAIL THEN GotTail(e) ELSE e  BY DEF Decide, NextPlace
<1>8. Shaped(e) /\ Same(e, drv, {"i", "buf"}) /\ e.i = drv.i + 1  BY <1>1, PlaceFields
<1> HIDE DEF e
<1>9. e.pc = drv.pc /\ e.out = drv.out /\ e.call = drv.call  BY <1>8 DEF Same, Fields
<1>10. CASE e.i = TAIL
  <2>1. p >= 1 + 0 + Len(w.rest)  BY <1>4, <1>5, <1>6, <1>8, <1>10
  <2>2. Clear  BY <1>1, <1>5, <1>6, <2>1, AllRead
  <2>3. Clear'  BY <2>2 DEF Clear, Blank
  <2>4. Decide(drv) = GotTail(e)  BY <1>7, <1>10
  <2>5. CASE GotTail(e) = Return(e, TRUE)
    <3> DEFINE f == GotTail(e)
    <3>1. Returned(f, e)  BY <2>5, ReturnFields
    <3> HIDE DEF f
    <3>2. f.pc = "idle" /\ f.out = <<>> /\ f.call = "none"  BY <3>1 DEF Returned
    <3>3. drv'.pc = "idle" /\ drv'.out = <<>> /\ drv'.call = "none"
      BY <2>4, <3>2, SettledFields DEF f
    <3>4. Between(drv')  BY <3>3 DEF Between
    <3> QED  BY <1>3, <2>3, <3>3, <3>4, FlowBetween
  <2>6. ASSUME NEW ok \in BOOLEAN, NEW then \in {"CMD55", "idle"}, GotTail(e) = Deassert(e, ok, then)
        PROVE  Flow'
    <3> DEFINE f == GotTail(e)
    <3>1. Closed(f, e, ok, then)  BY <1>8, <2>6, DeassertFields
    <3> HIDE DEF f
    <3>2. f.pc = "send" /\ f.out = <<Dummy>> /\ f.then = then /\ f.call = "SDInit"
      BY <1>1, <1>9, <3>1 DEF Closed
    <3>3. drv'.pc = "send" /\ drv'.out = <<Dummy>> /\ drv'.then = then /\ drv'.call = "SDInit"
      BY <2>4, <3>2, SettledFields DEF f
    <3>4. Between(drv')  BY <2>6, <3>3 DEF Between
    <3> QED  BY <1>3, <2>3, <3>3, <3>4, FlowBetween
  <2> QED  BY <2>5, <2>6 DEF GotTail
<1>11. CASE e.i # TAIL
  <2>1. Decide(drv) = e  BY <1>7, <1>11
  <2>2. drv'.pc = "tail" /\ drv'.out = <<>> /\ ~drv'.owe /\ drv'.i = drv.i + 1
    BY <1>3, <1>8, <1>9, <2>1, SettledFields
  <2>3. drv'.i \in 0 .. (TAIL - 1)  BY <1>6, <1>8, <1>11, <2>2
  <2>4. Coming(w, p, 0)'  BY <1>5 DEF Coming
  <2>5. p = 1 + drv'.i + Owed'  BY <1>4, <1>5, <1>6, <2>2
  <2>6. AtTail'  BY <1>5, <2>3, <2>4, <2>5 DEF AtTail
  <2>7. Harmless(Unsent')  BY <1>3, <2>2, NoneLeft DEF Unsent
  <2>8. ~Between(drv') /\ ~Writing(drv') /\ ~Commanding(drv')
    BY <2>2 DEF Between, Writing, Commanding
  <2> QED  BY <2>2, <2>6, <2>7, <2>8 DEF Flow
<1> QED  BY <1>10, <1>11

(***************************************************************************)
(* Inv is inductive.                                                       *)
(***************************************************************************)
LEMMA FlowInit == Init => Flow
<1> SUFFICES ASSUME Init PROVE Flow
  OBVIOUS
<1>1. /\ drv.pc = "idle" /\ drv.call = "none" /\ drv.out = <<>> /\ tx = <<>> /\ rx = <<>>
  BY DEF Init, Fresh
<1>2. card.q = <<>> /\ ~card.mid  BY DEF Init, Quiet
<1>3. Len(rx) = 0 /\ tx \in Seq(Symbols)  BY <1>1
<1>4. Clear  BY <1>2, <1>3 DEF Clear, Blank
<1>5. Unsent = <<>>  BY <1>1, <1>3, NoneLeft DEF Unsent
<1>6. Harmless(Unsent)  BY <1>5 DEF Harmless
<1>7. ~Commanding(drv) /\ ~Writing(drv)  BY <1>1 DEF Commanding, Writing
<1> QED  BY <1>1, <1>4, <1>6, <1>7 DEF Flow

LEMMA FlowStep ==
  ASSUME ControlOK, ControlOK', CardOK, Flow, [Next]_vars, ~upset'
  PROVE  Flow'
<1>1. ASSUME NEW d, Call(d), d = Waking \/ \E c, cmd : Opening(c, cmd) /\ d = SDSendCommand(c, cmd)
      PROVE  Flow'
  BY <1>1, FlowCalls DEF Call
<1>2. CASE SDInit  BY <1>1, <1>2 DEF SDInit, Waking
<1>3. CASE SDShutdown  BY <1>1, <1>3, Openings
<1>4. CASE \E a \in DOMAIN Blocks : sdReadBlock(a) \/ sdWriteBlock(a)
  BY <1>1, <1>4, Openings
<1>5. CASE \E a \in DOMAIN Blocks, s \in Slices : sdReadPartialBlock(a, s)
  BY <1>1, <1>5, Openings
<1>6. Shaped(drv) /\ (drv.owe => drv.pc \in Looks)  BY DEF ControlOK, Control, Reading, Looks
<1>7. CASE spi_send_byte /\ ~drv.owe
  <2> DEFINE d == [drv EXCEPT !.out = Tail(@)]
  <2>1. /\ tx' = Append(tx, Head(drv.out)) /\ rx' = rx /\ card' = card /\ drv.pc = "send"
        /\ drv' = IF d.out = <<>> THEN Arrive(d) ELSE d
    BY <1>7 DEF spi_send_byte
  <2>2. Shaped(d) /\ Same(d, drv, {"out"}) /\ d.out = Tail(drv.out)
    BY <1>6 DEF Shaped, Fields, Same
  <2> HIDE DEF d
  <2> QED  BY <1>7, <2>1, <2>2, FlowSends
<1>8. CASE spi_send_byte /\ drv.owe
  <2>1. drv.pc \in Looks /\ drv.pc # "send"  BY <1>6, <1>8 DEF Looks
  <2>2. /\ tx' = Clock(tx) /\ rx' = rx /\ card' = card
        /\ drv' = [Decide(drv) EXCEPT !.owe = FALSE, !.byte = FF]
        /\ upset' = (upset \/ GaveUp(drv))
    BY <1>8, <2>1 DEF spi_send_byte
  <2>3. ~GaveUp(drv)  BY <2>2
  <2> DEFINE c == Decide(drv)
  <2>4. Control(c)  BY <2>1, DecideControl DEF ControlOK
  <2> HIDE DEF c
  <2>5. Shaped(c)  BY <2>4 DEF Control
  <2>6. Settled(drv', c)  BY <2>2, <2>5 DEF Settled, Shaped, Fields, Same, c
  <2>7. Settled(drv', Decide(drv))  BY <2>6 DEF c
  <2>8. CASE drv.pc = "r1"  BY <1>8, <2>2, <2>3, <2>7, <2>8, FlowR1
  <2>9. CASE drv.pc = "token"  BY <1>8, <2>2, <2>3, <2>7, <2>9, FlowToken
  <2>10. CASE drv.pc = "data"  BY <1>8, <2>2, <2>7, <2>10, FlowData
  <2>11. CASE drv.pc = "tail"  BY <1>8, <2>2, <2>7, <2>11, FlowTail
  <2> QED  BY <2>1, <2>8, <2>9, <2>10, <2>11 DEF Looks
<1>9. CASE spi_read_byte
  <2>1. /\ drv.pc \in Looks /\ ~drv.owe /\ rx # <<>> /\ rx' = Tail(rx) /\ tx' = tx /\ card' = card
        /\ drv' = [drv EXCEPT !.byte = Head(rx), !.owe = TRUE]
    BY <1>9 DEF spi_read_byte, Reading, Looks
  <2>2. /\ Shaped(drv') /\ Same(drv', drv, {"byte", "owe"}) /\ drv'.byte = Head(rx)
        /\ drv'.owe = TRUE
    BY <1>6, <2>1 DEF Shaped, Fields, Same
  <2> QED  BY <2>1, <2>2, FlowReads
<1>10. CASE PollWrite  BY <1>10, FlowPolls
<1>11. CASE Shift  BY <1>11, FlowShifts
<1>12. CASE UNCHANGED vars
  <2>1. tx' = tx /\ rx' = rx /\ card' = card /\ drv' = drv  BY <1>12 DEF vars
  <2>2. Unsent' = Unsent /\ Clear' = Clear /\ Blank' = Blank  BY <2>1 DEF Unsent, Clear, Blank
  <2>3. (CrcAhead => CrcAhead') /\ (AtWrite => AtWrite')
    BY <2>1, <2>2 DEF CrcAhead, AtWrite
  <2>4. (Answering => Answering') /\ (AtToken => AtToken')
    BY <2>1, <2>2 DEF Answering, AtToken, Coming, Held, Owed
  <2>5. (AtData => AtData') /\ (AtTail => AtTail')
    BY <2>1, <2>2 DEF AtData, AtTail, Coming, Held, Owed
  <2> QED  BY <2>1, <2>2, <2>3, <2>4, <2>5 DEF Flow
<1> QED
  BY <1>2, <1>3, <1>4, <1>5, <1>7, <1>8, <1>9, <1>10, <1>11, <1>12 DEF Next, Driver

LEMMA FlowAlways == Spec => []Inv
<1>1. Init => Inv  BY ControlInit, CardInit, FlowInit DEF Inv
<1>2. Inv /\ [Next]_vars => Inv'
  <2> SUFFICES ASSUME Inv, [Next]_vars PROVE Inv'
    OBVIOUS
  <2>1. ControlOK /\ CardOK /\ (~upset => Flow)  BY DEF Inv
  <2>2. ControlOK' /\ CardOK'  BY <2>1, ControlStep, CardStep
  <2>3. ASSUME ~upset' PROVE ~upset
    BY <2>3 DEF Next, vars, SDInit, SDShutdown, sdReadBlock, sdWriteBlock, sdReadPartialBlock,
                Call, Driver, spi_send_byte, spi_read_byte, PollWrite, Shift
  <2>4. ~upset' => Flow'  BY <2>1, <2>2, <2>3, FlowStep
  <2> QED  BY <2>2, <2>4 DEF Inv
<1> QED  BY <1>1, <1>2, PTL DEF Spec

(***************************************************************************)
(* Answers and reads.                                                      *)
(***************************************************************************)
\* read_r1_response takes no byte of an older answer for the R1 of its command: as long
\* as no answer came after its loop had given up and the receive FIFO dropped
\* nothing of one, a command reaches a card that has nothing to say, over a receive
\* FIFO that holds nothing but 0xFF.
THEOREM AnswersAreFresh == Spec => []NoStaleAnswer
<1>1. Inv => NoStaleAnswer
  <2> SUFFICES ASSUME Inv, ~upset, drv.pc = "send", drv.then = "r1", Len(drv.out) > 1
               PROVE  card.q = <<>> /\ \A i \in DOMAIN rx : rx[i] = FF
    BY DEF NoStaleAnswer
  <2>1. Commanding(drv)  BY DEF Commanding
  <2>2. CrcAhead \/ Answering  BY <2>1 DEF Inv, Flow
  <2>3. ~Harmless(Unsent)
    <3> DEFINE n == Len(drv.out) - 1
    <3>1. /\ drv.out \in Seq(Symbols) /\ tx \in Seq(Symbols) /\ drv.out[n].sym = "crc"
      BY <2>1 DEF Inv, ControlOK, Control
    <3>2. Len(tx) \in Nat /\ Len(drv.out) \in Nat  BY <3>1
    <3>3. n \in 1 .. Len(drv.out)  BY <3>2
    <3> HIDE DEF n
    <3>4. Unsent[Len(tx) + n] = drv.out[n] /\ Len(Unsent) = Len(tx) + Len(drv.out)
      BY <3>1, <3>3, JoinedSymbols DEF Unsent
    <3>5. Len(tx) + n \in 1 .. Len(Unsent)  BY <3>2, <3>3, <3>4
    <3> QED  BY <3>1, <3>4, <3>5 DEF Harmless, Idle
  <2>4. Clear  BY <2>2, <2>3 DEF CrcAhead, Answering
  <2>5. rx \in Seq(Int)  BY DEF Inv, ControlOK
  <2>6. DOMAIN rx = 1 .. Len(rx)  BY <2>5
  <2> QED  BY <2>4, <2>6 DEF Clear, Blank
<1> QED  BY <1>1, FlowAlways, PTL

\* A read that is about to return true has the slice of the block that was asked for in
\* its buffer, for every block, slice, depth of the FIFOs and interleaving, as long as no
\* answer came late and the receive FIFO dropped nothing of one.
THEOREM ReadsAreRight == Spec => []ReadRight
<1>1. Inv => ReadRight
  <2> SUFFICES ASSUME Inv, drv.call = "read", drv.ok, ~upset
               PROVE  drv.buf = SubSeq(Blocks[drv.a], drv.slice[1] + 1, drv.slice[1] + drv.slice[2])
    BY DEF ReadRight
  <2> DEFINE f == drv.slice[1]
             l == drv.slice[2]
             b == Blocks[drv.a]
             s == SubSeq(b, f + 1, f + l)
  <2>1. Control(drv)  BY DEF Inv, ControlOK
  <2>2. Between(drv)  BY <2>1 DEF Control, Between
  <2>3. Sliced(drv, BLOCK)  BY <2>2 DEF Inv, Flow
  <2>4. f \in Nat /\ l \in Nat /\ f + l <= BLOCK /\ BLOCK \in Nat /\ drv.a \in DOMAIN Blocks
    BY <2>1, SliceIs
  <2>5. b \in Seq(0 .. 255) /\ Len(b) = BLOCK  BY <2>4, SdAssumption
  <2>6. b \in Seq(Int)  BY <2>5, Widened
  <2> HIDE DEF f, l, b
  <2>7. /\ drv.buf \in Seq(Int) /\ Len(drv.buf) = l
        /\ \A j \in 1 .. l : drv.buf[j] = b[f + j]
    <3> DEFINE h == IF BLOCK <= f THEN 0 ELSE IF BLOCK >= f + l THEN l ELSE BLOCK - f
    <3>1. h = l  BY <2>4
    <3>2. /\ drv.buf \in Seq(Int) /\ Len(drv.buf) = h
          /\ \A j \in 1 .. h : drv.buf[j] = b[f + j]
      BY <2>3 DEF Sliced, f, l, b
    <3> QED  BY <3>1, <3>2
  <2>8. /\ s \in Seq(Int) /\ Len(s) = l
        /\ \A j \in 1 .. l : s[j] = b[f + j]
    <3> DEFINE m == f + 1
               n == f + l
    <3>1. m \in Nat /\ n \in Nat /\ m >= 1 /\ n - m + 1 = l /\ n <= BLOCK
      BY <2>4
    <3>2. \A j \in 1 .. l : m + j - 1 = f + j  BY <2>4
    <3>3. \A j \in m .. n : b[j] \in Int  BY <2>4, <2>5, <2>6
    <3> HIDE DEF m, n
    <3> DEFINE t == SubSeq(b, m, n)
    <3>4. /\ t \in Seq(Int) /\ Len(t) = IF m <= n THEN n - m + 1 ELSE 0
          /\ \A j \in 1 .. (n - m + 1) : t[j] = b[m + j - 1]
      BY <3>1, <3>3, SubSeqProperties
    <3> HIDE DEF t
    <3>5. Len(t) = l  BY <2>4, <3>1, <3>4
    <3>6. \A j \in 1 .. l : t[j] = b[m + j - 1]  BY <2>4, <3>1, <3>4
    <3>7. \A j \in 1 .. l : t[j] = b[f + j]
      <4> SUFFICES ASSUME NEW j \in 1 .. l PROVE t[j] = b[f + j]
        OBVIOUS
      <4>1. m + j - 1 = f + j  BY <3>2
      <4> QED  BY <3>6, <4>1
    <3> QED  BY <3>4, <3>5, <3>7 DEF t, m, n
  <2> HIDE DEF s
  <2>9. drv.buf = s  BY <2>7, <2>8, SeqEqual
  <2> QED  BY <2>9 DEF s, f, l, b
<1> QED  BY <1>1, FlowAlways, PTL

(***************************************************************************)
(* That calls end: what CallsReturn rests on.                              *)
(***************************************************************************)
\* The place in a block or a tail is one of it.
Counting(d) ==
  /\ d.i \in Nat
  /\ Commanding(d) => d.i = 0
  /\ d.pc = "data" => d.i < BLOCK + 2
  /\ d.pc = "tail" => d.i < TAIL

\* After a step from d the driver is at n.
Forward(n, d) == Counting(n) /\ (n.pc # "idle" => Nearer(n, d))

\* Which command a driver is at says how many are ahead of it.
LEMMA AheadIs ==
  ASSUME NEW d
  PROVE  /\ Current(d) = "CMD0" => Ahead(d) = 2 * OP_TRIES + 4
         /\ Current(d) = "CMD8" => Ahead(d) = 2 * OP_TRIES + 3
         /\ Current(d) = "CMD55" => Ahead(d) = 2 * d.rounds + 2
         /\ Current(d) = "ACMD41" => Ahead(d) = 2 * d.rounds + 1
         /\ Current(d) \notin {"CMD0", "CMD8", "CMD55", "ACMD41"} => Ahead(d) = 0
BY DEF Ahead

LEMMA AheadSame ==
  ASSUME NEW n, NEW d, Current(n) = Current(d), n.rounds = d.rounds
  PROVE  Ahead(n) = Ahead(d)
BY DEF Ahead

LEMMA StageIs ==
  ASSUME NEW d
  PROVE  /\ d.pc = "send" /\ d.then \in InitCommands => Stage(d) = 6
         /\ d.pc = "send" /\ d.then = "r1" => Stage(d) = 5
         /\ d.pc = "r1" => Stage(d) = 4
         /\ d.pc = "token" => Stage(d) = 3
         /\ d.pc = "send" /\ d.then = "resp" => Stage(d) = 3
         /\ d.pc \in {"data", "tail", "resp"} => Stage(d) = 2
         /\ d.pc = "busy" => Stage(d) = 1
         /\ d.pc = "send" /\ d.then = "idle" => Stage(d) = 0
BY DEF Stage, InitCommands

LEMMA RemainingIs ==
  ASSUME NEW d
  PROVE  /\ d.pc = "send" => Remaining(d) = Len(d.out)
         /\ d.pc \in {"r1", "token"} => Remaining(d) = 2 * d.tries + (IF d.owe THEN 0 ELSE 1)
         /\ d.pc = "data" => Remaining(d) = 2 * (BLOCK + 2 - d.i) + (IF d.owe THEN 0 ELSE 1)
         /\ d.pc = "tail" => Remaining(d) = 2 * (TAIL - d.i) + (IF d.owe THEN 0 ELSE 1)
         /\ d.pc \in {"resp", "busy"} => Remaining(d) = d.tries
BY DEF Remaining

\* Where no command is about to be sent, the current one is cmd.
LEMMA CurrentIs ==
  ASSUME NEW d
  PROVE  /\ d.pc # "send" \/ d.then \in {"r1", "resp", "idle"} => Current(d) = d.cmd
         /\ d.pc = "send" /\ d.then \in InitCommands => Current(d) = d.then
BY DEF Current, InitCommands

\* Three ways to be nearer: a later stage of the same command,
LEMMA LaterStage ==
  ASSUME NEW n, NEW d, Current(n) = Current(d), n.rounds = d.rounds, Stage(n) < Stage(d),
         Remaining(n) \in Nat
  PROVE  Nearer(n, d)
BY AheadSame DEF Nearer

\* less to do at the same stage,
LEMMA LessLeft ==
  ASSUME NEW n, NEW d, Current(n) = Current(d), n.rounds = d.rounds, Stage(n) = Stage(d),
         Remaining(n) \in Nat, Remaining(n) < Remaining(d)
  PROVE  Nearer(n, d)
BY AheadSame DEF Nearer

\* or a command closer to the last.
LEMMA FewerAhead ==
  ASSUME NEW n, NEW d, Ahead(n) < Ahead(d), Remaining(n) \in Nat
  PROVE  Nearer(n, d)
BY DEF Nearer

\* The command is closed and the call about to return.
LEMMA ClosedNearer ==
  ASSUME NEW d, d.pc \in {"r1", "token", "data", "tail", "resp", "busy"}, d.i \in Nat,
         NEW n, n.pc = "send", n.then = "idle", n.out = <<Dummy>>, n.cmd = d.cmd,
         n.rounds = d.rounds, n.i \in Nat
  PROVE  Forward(n, d)
<1>1. Current(n) = Current(d)  BY CurrentIs
<1>2. Stage(n) = 0 /\ Stage(d) \in {1, 2, 3, 4}  BY StageIs
<1>3. Remaining(n) = 1
  <2>1. Remaining(n) = Len(<<Dummy>>)  BY RemainingIs
  <2>2. Len(<<Dummy>>) = 1  OBVIOUS
  <2> QED  BY <2>1, <2>2
<1>4. Stage(n) < Stage(d) /\ Remaining(n) \in Nat  BY <1>2, <1>3
<1>5. Nearer(n, d)  BY <1>1, <1>4, LaterStage
<1> QED  BY <1>5 DEF Forward, Counting, Commanding

\* The command is closed and the next one of SDInit about to be sent.
LEMMA OnwardNearer ==
  ASSUME NEW d, NEW n, n.pc = "send", n.then \in InitCommands, n.out = <<Dummy>>, n.i \in Nat,
         Ahead(n) < Ahead(d)
  PROVE  Forward(n, d)
<1>1. Remaining(n) = 1
  <2>1. Remaining(n) = Len(<<Dummy>>)  BY RemainingIs
  <2>2. Len(<<Dummy>>) = 1  OBVIOUS
  <2> QED  BY <2>1, <2>2
<1>2. Nearer(n, d)  BY <1>1, FewerAhead
<1>3. n.then # "r1"  BY DEF InitCommands
<1> QED  BY <1>2, <1>3 DEF Forward, Counting, Commanding

\* A turn of a loop that found nothing.
LEMMA RetryNearer ==
  ASSUME NEW d, Control(d), Counting(d), d.pc \in {"r1", "token"}, d.owe, d.tries > 1,
         NEW n, Settled(n, Retry(d))
  PROVE  Forward(n, d)
<1>1. Shaped(d) /\ d.tries \in Nat  BY DEF Control
<1>2. Same(Retry(d), d, {"tries"}) /\ Retry(d).tries = d.tries - 1
  BY <1>1 DEF Retry, Shaped, Same, Fields
<1>3. /\ n.pc = d.pc /\ n.cmd = d.cmd /\ n.then = d.then /\ n.rounds = d.rounds /\ n.i = d.i
      /\ n.tries = d.tries - 1 /\ ~n.owe
  BY <1>2, SettledFields DEF Same, Fields
<1>4. Current(n) = Current(d) /\ Stage(n) = Stage(d)  BY <1>3, CurrentIs, StageIs
<1>5. Remaining(n) = 2 * (d.tries - 1) + 1 /\ Remaining(d) = 2 * d.tries
  <2>1. Remaining(n) = 2 * n.tries + 1  BY <1>3, RemainingIs
  <2>2. Remaining(d) = 2 * d.tries + 0  BY RemainingIs
  <2> QED  BY <1>1, <1>3, <2>1, <2>2
<1>6. Remaining(n) \in Nat /\ Remaining(n) < Remaining(d)  BY <1>1, <1>5
<1>7. Nearer(n, d)  BY <1>3, <1>4, <1>6, LessLeft
<1> QED  BY <1>3, <1>7 DEF Forward, Counting, Commanding

\* What Deassert leaves, with the byte let go.
Shut(n, d, then) ==
  /\ n.pc = "send" /\ n.then = then /\ n.out = <<Dummy>>
  /\ n.cmd = d.cmd /\ n.rounds = d.rounds /\ n.i = d.i

LEMMA SettledClosed ==
  ASSUME NEW d, Shaped(d), NEW ok, NEW then, NEW n, Settled(n, Deassert(d, ok, then))
  PROVE  Shut(n, d, then)
<1>1. Closed(Deassert(d, ok, then), d, ok, then)  BY DeassertFields
<1> QED  BY <1>1, SettledFields DEF Closed, Shut

\* The R1 has come, or the loop for it has given up: the command goes on, is closed,
\* or gives way to the next one.
LEMMA R1Nearer ==
  ASSUME NEW d, Control(d), Counting(d), d.pc = "r1", NEW b, NEW n, Settled(n, GotR1(d, b))
  PROVE  Forward(n, d)
<1> DEFINE e == GotR1(d, b)
<1>1. /\ Shaped(d) /\ Of(d.call, d.cmd) /\ d.i = 0 /\ d.i \in Nat /\ d.rounds \in Nat
      /\ d.rounds <= OP_TRIES /\ d.call = "SDInit" => d.rounds > 0
  BY SdAssumption DEF Control, Commanding, Counting
<1>2. {TOKEN_TRIES, BUSY_TRIES, OP_TRIES, TAIL, BLOCK, R1_TRIES} \subseteq Nat \ {0} /\ CMD_ARGS \in Nat
  BY SdAssumption
<1>3. Stage(d) = 4 /\ Current(d) = d.cmd  BY StageIs, CurrentIs
<1>4. ASSUME NEW ok, e = Deassert(d, ok, "idle") PROVE Forward(n, d)
  <2>0. Settled(n, Deassert(d, ok, "idle"))  BY <1>4
  <2>1. Shut(n, d, "idle")  BY <1>1, <2>0, SettledClosed, Zenon
  <2> QED  BY <1>1, <2>1, ClosedNearer DEF Shut
<1>5. ASSUME NEW c, Shaped(c), c.i \in Nat, NEW then \in InitCommands, e = Deassert(c, FALSE, then)
      PROVE  /\ Current(n) = then /\ n.rounds = c.rounds
             /\ Ahead(n) < Ahead(d) => Forward(n, d)
  <2>0. Settled(n, Deassert(c, FALSE, then))  BY <1>5
  <2>1. Shut(n, c, then)  BY <1>5, <2>0, SettledClosed, Zenon
  <2>2. Current(n) = then  BY <2>1, CurrentIs DEF Shut
  <2> QED  BY <1>5, <2>1, <2>2, OnwardNearer DEF Shut
<1>6. CASE d.cmd = "CMD17"
  <2>1. CASE b = 0
    <3>1. e = ToToken(d)  BY <1>6, <2>1 DEF GotR1, ToToken
    <3>2. e.pc = "token" /\ e.tries = TOKEN_TRIES /\ Same(e, d, {"pc", "tries"})
      BY <1>1, <3>1 DEF ToToken, Shaped, Fields, Same
    <3>3. /\ n.pc = "token" /\ n.tries = TOKEN_TRIES /\ n.cmd = d.cmd /\ n.rounds = d.rounds
          /\ n.i = d.i /\ ~n.owe
      BY <3>2, SettledFields DEF Same, Fields
    <3>4. Current(n) = Current(d) /\ Stage(n) = 3  BY <1>3, <3>3, StageIs, CurrentIs
    <3>5. Remaining(n) = 2 * TOKEN_TRIES + 1  BY <3>3, RemainingIs
    <3>6. Remaining(n) \in Nat /\ Stage(n) < Stage(d)  BY <1>2, <1>3, <3>4, <3>5
    <3>7. Nearer(n, d)  BY <3>3, <3>4, <3>6, LaterStage
    <3> QED  BY <1>1, <3>3, <3>7 DEF Forward, Counting, Commanding
  <2>2. CASE b # 0
    <3>1. e = Deassert(d, FALSE, "idle")  BY <1>6, <2>2 DEF GotR1
    <3> QED  BY <1>4, <3>1
  <2> QED  BY <2>1, <2>2
<1>7. CASE d.cmd = "CMD24"
  <2>1. CASE b = 0
    <3>1. e = ToWrite(d)  BY <1>7, <2>1 DEF GotR1, ToWrite, Payload
    <3>2. Wrote(e, d)  BY <1>1, <3>1, WriteFields
    <3>3. /\ n.pc = "send" /\ n.then = "resp" /\ n.out = Payload /\ n.cmd = d.cmd
          /\ n.rounds = d.rounds /\ n.i = d.i
      BY <3>2, SettledFields DEF Wrote, Same, Fields
    <3>4. Current(n) = Current(d) /\ Stage(n) = 3  BY <1>3, <3>3, StageIs, CurrentIs
    <3>5. Remaining(n) = BLOCK + 3  BY <3>3, RemainingIs, PayloadIs
    <3>6. Remaining(n) \in Nat /\ Stage(n) < Stage(d)  BY <1>2, <1>3, <3>4, <3>5
    <3>7. Nearer(n, d)  BY <3>3, <3>4, <3>6, LaterStage
    <3> QED  BY <1>1, <3>3, <3>7 DEF Forward, Counting, Commanding
  <2>2. CASE b # 0
    <3>1. e = Deassert(d, FALSE, "idle")  BY <1>7, <2>2 DEF GotR1
    <3> QED  BY <1>4, <3>1
  <2> QED  BY <2>1, <2>2
<1>8. CASE d.cmd = "CMD0"
  <2>1. d.call \in {"SDInit", "SDShutdown"}  BY <1>1, <1>8 DEF Of
  <2>2. CASE d.call = "SDInit" /\ b = 1
    <3>1. e = SDSendCommand(d, "CMD8")  BY <1>8, <2>2 DEF GotR1
    <3>2. Commanded(e, d, "CMD8")  BY <1>1, <3>1, CommandFields
    <3>3. /\ n.pc = "send" /\ n.then = "r1" /\ n.out = Bytes("CMD8", d.a) /\ n.cmd = "CMD8"
          /\ n.i = 0
      BY <3>2, SettledFields DEF Commanded
    <3>4. Len(Bytes("CMD8", d.a)) = CMD_ARGS + 2
      <4>1. d.a \in {0} \cup DOMAIN Blocks /\ "CMD8" \in Commands /\ "CMD8" # "CMD17"
        BY DEF Control, Commands, InitCommands
      <4> QED  BY <4>1, BytesAre
    <3>5. Remaining(n) = CMD_ARGS + 2  BY <3>3, <3>4, RemainingIs
    <3>6. Current(n) = "CMD8"  BY <3>3, CurrentIs
    <3>7. Ahead(n) = 2 * OP_TRIES + 3 /\ Ahead(d) = 2 * OP_TRIES + 4  BY <1>3, <1>8, <3>6, AheadIs
    <3>8. Remaining(n) \in Nat /\ Ahead(n) < Ahead(d)  BY <1>2, <3>5, <3>7
    <3>9. Nearer(n, d)  BY <3>8, FewerAhead
    <3> QED  BY <3>3, <3>9 DEF Forward, Counting, Commanding
  <2>3. CASE d.call = "SDInit" /\ b # 1
    <3>1. e = Deassert(d, FALSE, "idle")  BY <1>8, <2>3 DEF GotR1
    <3> QED  BY <1>4, <3>1
  <2>4. CASE d.call = "SDShutdown" /\ b = 1
    <3>1. e = Deassert(d, TRUE, "idle")  BY <1>8, <2>4 DEF GotR1
    <3> QED  BY <1>4, <3>1
  <2>5. CASE d.call = "SDShutdown" /\ b # 1
    <3>1. e = Return(d, FALSE)  BY <1>8, <2>5 DEF GotR1
    <3>2. Returned(e, d)  BY <3>1, ReturnFields
    <3>3. n.pc = "idle" /\ n.i = 0  BY <3>2, SettledFields DEF Returned
    <3> QED  BY <3>3 DEF Forward, Counting, Commanding
  <2> QED  BY <2>1, <2>2, <2>3, <2>4, <2>5
<1>9. CASE d.cmd \in {"CMD8", "CMD58"}
  <2>1. CASE ~Plain(d.cmd, b)
    <3>1. e = ToTail(d)  BY <1>9, <2>1 DEF GotR1, ToTail, Plain
    <3>2. e.pc = "tail" /\ Same(e, d, {"pc"})
      BY <1>1, <3>1 DEF ToTail, Shaped, Fields, Same
    <3>3. /\ n.pc = "tail" /\ n.cmd = d.cmd /\ n.rounds = d.rounds /\ n.i = 0 /\ ~n.owe
      BY <1>1, <3>2, SettledFields DEF Same, Fields
    <3>4. Current(n) = Current(d) /\ Stage(n) = 2  BY <1>3, <3>3, StageIs, CurrentIs
    <3>5. Remaining(n) = 2 * (TAIL - 0) + 1  BY <3>3, RemainingIs
    <3>6. Remaining(n) \in Nat /\ Stage(n) < Stage(d)  BY <1>2, <1>3, <3>4, <3>5
    <3>7. Nearer(n, d)  BY <3>3, <3>4, <3>6, LaterStage
    <3> QED  BY <1>2, <3>3, <3>7 DEF Forward, Counting, Commanding
  <2>2. CASE Plain(d.cmd, b)
    <3>1. e = Deassert(d, FALSE, "idle")  BY <1>9, <2>2 DEF GotR1, Plain
    <3> QED  BY <1>4, <3>1
  <2> QED  BY <2>1, <2>2
<1>10. CASE d.cmd = "CMD55"
  <2>1. CASE b = 1
    <3>1. e = Deassert(d, FALSE, "ACMD41")  BY <1>10, <2>1 DEF GotR1
    <3>2. "ACMD41" \in InitCommands  BY DEF InitCommands
    <3>3. /\ Current(n) = "ACMD41" /\ n.rounds = d.rounds
          /\ Ahead(n) < Ahead(d) => Forward(n, d)
      BY <1>1, <1>5, <3>1, <3>2
    <3>4. Ahead(n) = 2 * d.rounds + 1 /\ Ahead(d) = 2 * d.rounds + 2
      BY <1>3, <1>10, <3>3, AheadIs
    <3> QED  BY <1>1, <3>3, <3>4
  <2>2. CASE b # 1
    <3>1. e = Deassert(d, FALSE, "idle")  BY <1>10, <2>2 DEF GotR1
    <3> QED  BY <1>4, <3>1
  <2> QED  BY <2>1, <2>2
<1>11. CASE d.cmd = "ACMD41"
  <2>0. Ahead(d) = 2 * d.rounds + 1 /\ d.call = "SDInit"  BY <1>1, <1>3, <1>11, AheadIs DEF Of
  <2>1. CASE b = 0
    <3>1. e = Deassert(d, FALSE, "CMD58")  BY <1>11, <2>1 DEF GotR1
    <3>2. "CMD58" \in InitCommands  BY DEF InitCommands
    <3>3. /\ Current(n) = "CMD58"
          /\ Ahead(n) < Ahead(d) => Forward(n, d)
      BY <1>1, <1>5, <3>1, <3>2
    <3>4. Ahead(n) = 0  BY <3>3, AheadIs
    <3> QED  BY <1>1, <2>0, <3>3, <3>4
  <2>2. CASE b # 0
    <3> DEFINE c == FewerRounds(d)
    <3>1. Shaped(c) /\ c.rounds = d.rounds - 1 /\ c.i = d.i /\ c.cmd = d.cmd
      BY <1>1 DEF FewerRounds, Shaped, Fields
    <3>2. e = Deassert(c, FALSE, IF d.rounds > 1 THEN "CMD55" ELSE "idle")
      BY <1>11, <2>2 DEF GotR1, FewerRounds
    <3> HIDE DEF c
    <3>3. CASE d.rounds > 1
      <4>1. e = Deassert(c, FALSE, "CMD55") /\ "CMD55" \in InitCommands
        BY <3>2, <3>3 DEF InitCommands
      <4>2. /\ Current(n) = "CMD55" /\ n.rounds = c.rounds
            /\ Ahead(n) < Ahead(d) => Forward(n, d)
        BY <1>1, <1>5, <3>1, <4>1
      <4>3. Ahead(n) = 2 * (d.rounds - 1) + 2  BY <3>1, <4>2, AheadIs
      <4> QED  BY <1>1, <2>0, <4>2, <4>3
    <3>4. CASE ~(d.rounds > 1)
      <4>0. e = Deassert(c, FALSE, "idle")  BY <3>2, <3>4
      <4>1. Settled(n, Deassert(c, FALSE, "idle"))  BY <4>0
      <4>2a. Shut(n, c, "idle")  BY <3>1, <4>1, SettledClosed, Zenon
      <4>2. /\ n.pc = "send" /\ n.then = "idle" /\ n.out = <<Dummy>> /\ n.cmd = "ACMD41"
            /\ n.rounds = d.rounds - 1 /\ n.i = d.i
        BY <1>11, <3>1, <4>2a DEF Shut
      <4>3. Current(n) = "ACMD41"  BY <4>2, CurrentIs
      <4>4. Ahead(n) = 2 * (d.rounds - 1) + 1  BY <4>2, <4>3, AheadIs
      <4>5. Ahead(n) < Ahead(d)  BY <1>1, <2>0, <4>4
      <4>6. Remaining(n) = Len(<<Dummy>>)  BY <4>2, RemainingIs
      <4>7. Len(<<Dummy>>) = 1  OBVIOUS
      <4>8. Remaining(n) \in Nat  BY <4>6, <4>7
      <4>9. Nearer(n, d)  BY <4>5, <4>8, FewerAhead
      <4> QED  BY <1>1, <4>2, <4>9 DEF Forward, Counting, Commanding
    <3> QED  BY <3>3, <3>4
  <2> QED  BY <2>1, <2>2
<1> QED
  BY <1>1, <1>6, <1>7, <1>8, <1>9, <1>10, <1>11 DEF Of, InitCommands

\* A byte was read and the dummy behind it sent.
LEMMA DecideNearer ==
  ASSUME NEW d, Control(d), Counting(d), d.pc \in Looks, d.owe, NEW n, Settled(n, Decide(d))
  PROVE  Forward(n, d)
<1> DEFINE b == d.byte
<1>1. /\ Shaped(d) /\ d.tries \in Nat /\ d.i \in Nat /\ d.rounds \in Nat /\ d.rounds <= OP_TRIES
      /\ BLOCK \in Nat /\ TAIL \in Nat /\ OP_TRIES \in Nat
  BY SdAssumption DEF Control, Counting
<1>2. CASE d.pc = "r1"
  <2>1. CASE b = FF /\ d.tries > 1
    <3>1. Settled(n, Retry(d))  BY <1>2, <2>1 DEF Decide
    <3> QED  BY <1>2, <2>1, <3>1, RetryNearer
  <2>2. CASE ~(b = FF /\ d.tries > 1)
    <3>1. Settled(n, GotR1(d, b))  BY <1>2, <2>2 DEF Decide
    <3> QED  BY <1>2, <3>1, R1Nearer
  <2> QED  BY <2>1, <2>2
<1>3. CASE d.pc = "token"
  <2>1. CASE b = FF /\ d.tries > 1
    <3>1. Settled(n, Retry(d))  BY <1>3, <2>1 DEF Decide
    <3> QED  BY <1>3, <2>1, <3>1, RetryNearer
  <2>2. CASE ~(b = FF /\ d.tries > 1) /\ (d.tries = 1 \/ b # TOKEN)
    <3>1. Settled(n, Deassert(d, FALSE, "idle"))  BY <1>3, <2>2 DEF Decide
    <3>2. Shut(n, d, "idle")  BY <1>1, <3>1, SettledClosed, Zenon
    <3> QED  BY <1>1, <1>3, <3>2, ClosedNearer DEF Shut
  <2>3. CASE ~(b = FF /\ d.tries > 1) /\ ~(d.tries = 1 \/ b # TOKEN)
    <3>1. Settled(n, ToData(d))  BY <1>3, <2>3 DEF Decide, ToData
    <3>2. ToData(d).pc = "data" /\ ToData(d).i = 0 /\ Same(ToData(d), d, {"pc", "i"})
      BY <1>1 DEF ToData, Shaped, Fields, Same
    <3>3. n.pc = "data" /\ n.i = 0 /\ n.cmd = d.cmd /\ n.rounds = d.rounds /\ ~n.owe
      BY <3>1, <3>2, SettledFields DEF Same, Fields
    <3>4. Current(n) = Current(d) /\ Stage(n) = 2 /\ Stage(d) = 3
      BY <1>3, <3>3, StageIs, CurrentIs
    <3>5. Remaining(n) = 2 * (BLOCK + 2 - 0) + 1  BY <3>3, RemainingIs
    <3>6. Remaining(n) \in Nat /\ Stage(n) < Stage(d)  BY <1>1, <3>4, <3>5
    <3>7. Nearer(n, d)  BY <3>3, <3>4, <3>6, LaterStage
    <3> QED  BY <1>1, <3>3, <3>7 DEF Forward, Counting, Commanding
  <2> QED  BY <2>1, <2>2, <2>3
<1>4. CASE d.pc = "data"
  <2> DEFINE e == NextPlace(d, IF Wanted(d) THEN Append(d.buf, b) ELSE d.buf)
  <2>1. Decide(d) = IF BlockRead(e) THEN Deassert(e, TRUE, "idle") ELSE e
    BY <1>4 DEF Decide, NextPlace
  <2>2. Shaped(e) /\ Same(e, d, {"i", "buf"}) /\ e.i = d.i + 1  BY <1>1, PlaceFields
  <2>3. e.pc = d.pc /\ e.cmd = d.cmd /\ e.rounds = d.rounds  BY <2>2 DEF Same, Fields
  <2> HIDE DEF e
  <2>4. CASE BlockRead(e)
    <3>1. Settled(n, Deassert(e, TRUE, "idle"))  BY <2>1, <2>4
    <3>2. /\ n.pc = "send" /\ n.then = "idle" /\ n.out = <<Dummy>> /\ n.cmd = d.cmd
          /\ n.rounds = d.rounds /\ n.i = d.i + 1
      <4>1. Shut(n, e, "idle")  BY <2>2, <3>1, SettledClosed, Zenon
      <4> QED  BY <2>2, <2>3, <4>1 DEF Shut
    <3>3. d.i + 1 \in Nat  BY <1>1
    <3> QED  BY <1>1, <1>4, <3>2, <3>3, ClosedNearer
  <2>5. CASE ~BlockRead(e)
    <3>1. Settled(n, e)  BY <2>1, <2>5
    <3>2. n.pc = d.pc /\ n.i = d.i + 1 /\ n.cmd = d.cmd /\ n.rounds = d.rounds /\ ~n.owe
      BY <2>2, <2>3, <3>1, SettledFields
    <3>3. d.i < BLOCK + 2 /\ d.i + 1 # BLOCK + 2
      BY <1>4, <2>2, <2>5 DEF Counting, BlockRead
    <3>4. Current(n) = Current(d) /\ Stage(n) = Stage(d)
      BY <1>4, <3>2, StageIs, CurrentIs
    <3>5. /\ Remaining(n) = 2 * (BLOCK + 2 - (d.i + 1)) + 1
          /\ Remaining(d) = 2 * (BLOCK + 2 - d.i) + 0
      BY <1>4, <3>2, RemainingIs
    <3>6. Remaining(n) \in Nat /\ Remaining(n) < Remaining(d)  BY <1>1, <3>3, <3>5
    <3>7. Nearer(n, d)  BY <3>2, <3>4, <3>6, LessLeft
    <3>8. d.i + 1 \in Nat /\ d.i + 1 < BLOCK + 2  BY <1>1, <3>3
    <3> QED  BY <1>4, <3>2, <3>7, <3>8 DEF Forward, Counting, Commanding
  <2> QED  BY <2>4, <2>5
<1>5. CASE d.pc = "tail"
  <2> DEFINE e == NextPlace(d, Append(d.buf, b))
  <2>1. Decide(d) = IF e.i = TAIL THEN GotTail(e) ELSE e
    BY <1>5 DEF Decide, NextPlace
  <2>2. Shaped(e) /\ Same(e, d, {"i", "buf"}) /\ e.i = d.i + 1  BY <1>1, PlaceFields
  <2>3. e.pc = d.pc /\ e.cmd = d.cmd /\ e.rounds = d.rounds  BY <2>2 DEF Same, Fields
  <2> HIDE DEF e
  <2>4. ASSUME Settled(n, Deassert(e, FALSE, "idle")) PROVE Forward(n, d)
    <3>1. /\ n.pc = "send" /\ n.then = "idle" /\ n.out = <<Dummy>> /\ n.cmd = d.cmd
          /\ n.rounds = d.rounds /\ n.i = d.i + 1
      <4>1. Shut(n, e, "idle")  BY <2>2, <2>4, SettledClosed, Zenon
      <4> QED  BY <2>2, <2>3, <4>1 DEF Shut
    <3>2. d.i + 1 \in Nat  BY <1>1
    <3> QED  BY <1>1, <1>5, <3>1, <3>2, ClosedNearer
  <2>5. CASE e.i = TAIL /\ e.cmd = "CMD8" /\ Echoed(e.buf)
    <3>1. Settled(n, Deassert(e, FALSE, "CMD55"))  BY <2>1, <2>5 DEF GotTail
    <3>2. /\ n.pc = "send" /\ n.then = "CMD55" /\ n.out = <<Dummy>>
          /\ n.rounds = d.rounds /\ n.i = d.i + 1
      <4>1. Shut(n, e, "CMD55")  BY <2>2, <3>1, SettledClosed, Zenon
      <4> QED  BY <2>2, <2>3, <4>1 DEF Shut
    <3>3. "CMD55" \in InitCommands  BY DEF InitCommands
    <3>4. Current(n) = "CMD55" /\ Current(d) = "CMD8"
      BY <1>5, <2>3, <2>5, <3>2, <3>3, CurrentIs
    <3>5. Ahead(n) = 2 * d.rounds + 2 /\ Ahead(d) = 2 * OP_TRIES + 3
      BY <3>2, <3>4, AheadIs
    <3>6. Ahead(n) < Ahead(d) /\ d.i + 1 \in Nat  BY <1>1, <3>5
    <3> QED  BY <3>2, <3>3, <3>6, OnwardNearer
  <2>6. CASE e.i = TAIL /\ e.cmd = "CMD8" /\ ~Echoed(e.buf)
    <3>1. Settled(n, Deassert(e, FALSE, "idle"))  BY <2>1, <2>6 DEF GotTail
    <3> QED  BY <2>4, <3>1
  <2>7. CASE e.i = TAIL /\ e.cmd # "CMD8" /\ HighCapacity(e.buf)
    <3>1. Settled(n, Return(e, TRUE))  BY <2>1, <2>7 DEF GotTail
    <3>2. Returned(Return(e, TRUE), e)  BY ReturnFields
    <3>3. n.pc = "idle" /\ n.i = 0  BY <3>1, <3>2, SettledFields DEF Returned
    <3> QED  BY <3>3 DEF Forward, Counting, Commanding
  <2>8. CASE e.i = TAIL /\ e.cmd # "CMD8" /\ ~HighCapacity(e.buf)
    <3>1. Settled(n, Deassert(e, FALSE, "idle"))  BY <2>1, <2>8 DEF GotTail
    <3> QED  BY <2>4, <3>1
  <2>9. CASE e.i # TAIL
    <3>1. Settled(n, e)  BY <2>1, <2>9
    <3>2. n.pc = d.pc /\ n.i = d.i + 1 /\ n.cmd = d.cmd /\ n.rounds = d.rounds /\ ~n.owe
      BY <2>2, <2>3, <3>1, SettledFields
    <3>3. d.i < TAIL /\ d.i + 1 # TAIL
      BY <1>5, <2>2, <2>9 DEF Counting
    <3>4. Current(n) = Current(d) /\ Stage(n) = Stage(d)
      BY <1>5, <3>2, StageIs, CurrentIs
    <3>5. /\ Remaining(n) = 2 * (TAIL - (d.i + 1)) + 1
          /\ Remaining(d) = 2 * (TAIL - d.i) + 0
      BY <1>5, <3>2, RemainingIs
    <3>6. Remaining(n) \in Nat /\ Remaining(n) < Remaining(d)  BY <1>1, <3>3, <3>5
    <3>7. Nearer(n, d)  BY <3>2, <3>4, <3>6, LessLeft
    <3>8. d.i + 1 \in Nat /\ d.i + 1 < TAIL  BY <1>1, <3>3
    <3> QED  BY <1>5, <3>2, <3>7, <3>8 DEF Forward, Counting, Commanding
  <2> QED  BY <2>5, <2>6, <2>7, <2>8, <2>9
<1> QED  BY <1>2, <1>3, <1>4, <1>5 DEF Looks

\* One byte is in the transmit FIFO, others follow.
LEMMA SentNearer ==
  ASSUME NEW d, Control(d), Counting(d), d.pc = "send", NEW e, Shaped(e), Same(e, d, {"out"}),
         e.out = Tail(d.out), e.out # <<>>
  PROVE  Forward(e, d)
<1>1. e.pc = d.pc /\ e.cmd = d.cmd /\ e.then = d.then /\ e.rounds = d.rounds /\ e.i = d.i
  BY DEF Same, Fields
<1>2. d.out \in Seq(Symbols) /\ d.out # <<>>  BY DEF Control
<1>3. Len(e.out) = Len(d.out) - 1 /\ Len(e.out) \in Nat  BY <1>2
<1>4. Current(e) = Current(d) /\ Stage(e) = Stage(d)  BY <1>1 DEF Current, Stage
<1>5. Remaining(e) = Len(e.out) /\ Remaining(d) = Len(d.out)  BY <1>1, RemainingIs
<1>6. Remaining(e) \in Nat /\ Remaining(e) < Remaining(d)  BY <1>3, <1>5
<1>7. Nearer(e, d)  BY <1>1, <1>4, <1>6, LessLeft
<1> QED  BY <1>1, <1>7 DEF Forward, Counting, Commanding

\* The last byte is in it: a command starts, its answer is awaited, or the call returns.
LEMMA ArriveNearer ==
  ASSUME NEW d, Control(d), Counting(d), d.pc = "send", ~d.owe, NEW e, Shaped(e),
         Same(e, d, {"out"}), e.out = <<>>
  PROVE  Forward(Arrive(e), d)
<1>1. /\ e.pc = d.pc /\ e.cmd = d.cmd /\ e.a = d.a /\ e.owe = d.owe /\ e.then = d.then
      /\ e.rounds = d.rounds /\ e.i = d.i /\ e.tries = d.tries
  BY DEF Same, Fields
<1>2. /\ d.then \in {"CMD0", "CMD55", "ACMD41", "CMD58", "r1", "resp", "idle"}
      /\ d.tries \in Nat /\ CMD_ARGS \in Nat /\ d.i \in Nat
  BY SdAssumption DEF Control, Counting
<1>3. CASE d.then \in {"CMD0", "CMD55", "ACMD41", "CMD58"}
  <2> DEFINE n == Arrive(e)
  <2>1. n = SDSendCommand(e, d.then)  BY <1>1, <1>3 DEF Arrive
  <2>2. Commanded(n, e, d.then)  BY <2>1, CommandFields
  <2> HIDE DEF n
  <2>3. /\ n.pc = "send" /\ n.then = "r1" /\ n.out = Bytes(d.then, d.a) /\ n.cmd = d.then
        /\ n.rounds = d.rounds /\ n.i = 0
    BY <1>1, <2>2 DEF Commanded
  <2>4. Len(Bytes(d.then, d.a)) = CMD_ARGS + 2
    <3>1. d.a \in {0} \cup DOMAIN Blocks /\ d.then \in Commands /\ d.then # "CMD17"
      BY <1>3 DEF Control, Commands, InitCommands
    <3> QED  BY <3>1, BytesAre
  <2>5. Remaining(n) \in Nat  BY <1>2, <2>3, <2>4, RemainingIs
  <2>6. d.then \in InitCommands  BY <1>3 DEF InitCommands
  <2>7. Current(n) = Current(d)  BY <2>3, <2>6, CurrentIs
  <2>8. Stage(n) = 5 /\ Stage(d) = 6  BY <2>3, <2>6, StageIs
  <2>9. Nearer(n, d)  BY <2>3, <2>5, <2>7, <2>8, LaterStage
  <2>10. Forward(n, d)  BY <2>3, <2>9 DEF Forward, Counting, Commanding
  <2> QED  BY <2>10 DEF n
<1>4. CASE d.then = "idle"
  <2> DEFINE n == Return(e, e.ok)
  <2>1. Arrive(e) = n  BY <1>1, <1>4 DEF Arrive
  <2>2. Returned(n, e)  BY ReturnFields
  <2> HIDE DEF n
  <2>3. n.pc = "idle" /\ n.i = 0  BY <2>2 DEF Returned
  <2>4. Forward(n, d)  BY <2>3 DEF Forward, Counting, Commanding
  <2> QED  BY <2>1, <2>4
<1>5. CASE d.then \in {"r1", "resp"}
  <2> DEFINE n == [e EXCEPT !.pc = e.then]
  <2>1. Arrive(e) = n  BY <1>1, <1>5 DEF Arrive
  <2>2. /\ n.pc = d.then /\ n.cmd = d.cmd /\ n.owe = d.owe /\ n.rounds = d.rounds /\ n.i = d.i
        /\ n.tries = d.tries
    BY <1>1 DEF Shaped, Fields
  <2> HIDE DEF n
  <2>3. Current(n) = Current(d)  BY <1>5, <2>2, CurrentIs
  <2>4. Stage(n) < Stage(d)
    <3>1. CASE d.then = "r1"
      <4>1. Stage(n) = 4 /\ Stage(d) = 5  BY <2>2, <3>1, StageIs
      <4> QED  BY <4>1
    <3>2. CASE d.then = "resp"
      <4>1. Stage(n) = 2 /\ Stage(d) = 3  BY <2>2, <3>2, StageIs
      <4> QED  BY <4>1
    <3> QED  BY <1>5, <3>1, <3>2
  <2>5. Remaining(n) \in Nat
    <3>1. CASE d.then = "r1"
      <4>1. Remaining(n) = 2 * d.tries + 1  BY <2>2, <3>1, RemainingIs
      <4> QED  BY <1>2, <4>1
    <3>2. CASE d.then = "resp"
      <4>1. Remaining(n) = d.tries  BY <2>2, <3>2, RemainingIs
      <4> QED  BY <1>2, <4>1
    <3> QED  BY <1>5, <3>1, <3>2
  <2>6. Nearer(n, d)  BY <2>2, <2>3, <2>4, <2>5, LaterStage
  <2>7. Counting(n)  BY <1>2, <1>5, <2>2 DEF Counting, Commanding
  <2>8. Forward(n, d)  BY <2>6, <2>7 DEF Forward
  <2> QED  BY <2>1, <2>8
<1> QED  BY <1>2, <1>3, <1>4, <1>5

\* A byte was read.
LEMMA ReadNearer ==
  ASSUME NEW d, Control(d), Counting(d), d.pc \in Looks, ~d.owe, NEW n, Shaped(n),
         Same(n, d, {"owe", "byte"}), n.owe
  PROVE  Forward(n, d)
<1>1. /\ n.pc = d.pc /\ n.cmd = d.cmd /\ n.then = d.then /\ n.rounds = d.rounds /\ n.i = d.i
      /\ n.tries = d.tries
  BY DEF Same, Fields
<1>2. d.tries \in Nat /\ d.i \in Nat /\ BLOCK \in Nat /\ TAIL \in Nat
  BY SdAssumption DEF Control, Counting
<1>3. Current(n) = Current(d) /\ Stage(n) = Stage(d)  BY <1>1 DEF Current, Stage
<1>4. Remaining(n) \in Nat /\ Remaining(n) < Remaining(d)
  <2>1. CASE d.pc \in {"r1", "token"}
    <3>1. Remaining(n) = 2 * d.tries + 0 /\ Remaining(d) = 2 * d.tries + 1
      BY <1>1, <2>1, RemainingIs
    <3> QED  BY <1>2, <3>1
  <2>2. CASE d.pc = "data"
    <3>1. /\ Remaining(n) = 2 * (BLOCK + 2 - d.i) + 0
          /\ Remaining(d) = 2 * (BLOCK + 2 - d.i) + 1
      BY <1>1, <2>2, RemainingIs
    <3>2. d.i < BLOCK + 2  BY <2>2 DEF Counting
    <3> QED  BY <1>2, <3>1, <3>2
  <2>3. CASE d.pc = "tail"
    <3>1. Remaining(n) = 2 * (TAIL - d.i) + 0 /\ Remaining(d) = 2 * (TAIL - d.i) + 1
      BY <1>1, <2>3, RemainingIs
    <3>2. d.i < TAIL  BY <2>3 DEF Counting
    <3> QED  BY <1>2, <3>1, <3>2
  <2> QED  BY <2>1, <2>2, <2>3 DEF Looks
<1>5. Nearer(n, d)  BY <1>1, <1>3, <1>4, LessLeft
<1> QED  BY <1>1, <1>5 DEF Forward, Counting, Commanding

\* A turn of one of the loops at the end of a write.
LEMMA PollNearer ==
  ASSUME ControlOK, Counting(drv), PollWrite
  PROVE  Forward(drv', drv)
<1> DEFINE d == [drv EXCEPT !.tries = @ - 1]
           f == [d EXCEPT !.pc = "busy", !.tries = BUSY_TRIES]
<1>1. /\ drv.pc \in {"resp", "busy"}
      /\ \/ drv' = d
         \/ drv' = f /\ drv.pc = "resp"
         \/ drv' = Deassert(d, FALSE, "idle")
         \/ drv' = Deassert(d, TRUE, "idle")
  BY DEF PollWrite
<1>2. /\ Shaped(drv) /\ drv.tries \in Nat /\ drv.tries > 0 /\ drv.i \in Nat
      /\ BUSY_TRIES \in Nat
  BY <1>1, SdAssumption DEF ControlOK, Control, Counting
<1>3. /\ Shaped(d) /\ d.pc = drv.pc /\ d.cmd = drv.cmd /\ d.then = drv.then
      /\ d.rounds = drv.rounds /\ d.i = drv.i /\ d.tries = drv.tries - 1
  BY <1>2 DEF Shaped, Fields
<1> HIDE DEF d
<1>4. /\ f.pc = "busy" /\ f.cmd = d.cmd /\ f.rounds = d.rounds /\ f.i = d.i
      /\ f.tries = BUSY_TRIES
  BY <1>3 DEF Shaped, Fields
<1> HIDE DEF f
<1>5. CASE drv' = d
  <2>1. Current(d) = Current(drv) /\ Stage(d) = Stage(drv)  BY <1>1, <1>3 DEF Current, Stage
  <2>2. Remaining(d) = drv.tries - 1 /\ Remaining(drv) = drv.tries
    BY <1>1, <1>3, RemainingIs
  <2>3. Remaining(d) \in Nat /\ Remaining(d) < Remaining(drv)  BY <1>2, <2>2
  <2>4. Nearer(d, drv)  BY <1>3, <2>1, <2>3, LessLeft
  <2>5. Forward(d, drv)  BY <1>1, <1>2, <1>3, <2>4 DEF Forward, Counting, Commanding
  <2> QED  BY <1>5, <2>5
<1>6. CASE drv' = f /\ drv.pc = "resp"
  <2>1. Current(f) = Current(drv) /\ f.rounds = drv.rounds
    BY <1>1, <1>3, <1>4, CurrentIs
  <2>2. Stage(f) = 1 /\ Stage(drv) = 2  BY <1>4, <1>6, StageIs
  <2>3. Remaining(f) = BUSY_TRIES  BY <1>4, RemainingIs
  <2>4. Stage(f) < Stage(drv) /\ Remaining(f) \in Nat  BY <1>2, <2>2, <2>3
  <2>5. Nearer(f, drv)  BY <2>1, <2>4, LaterStage
  <2>6. Forward(f, drv)  BY <1>2, <1>3, <1>4, <2>5 DEF Forward, Counting, Commanding
  <2> QED  BY <1>6, <2>6
<1>7. ASSUME NEW ok, drv' = Deassert(d, ok, "idle") PROVE Forward(drv', drv)
  <2> DEFINE n == Deassert(d, ok, "idle")
  <2>1. Closed(n, d, ok, "idle")  BY <1>3, DeassertFields
  <2> HIDE DEF n
  <2>2. /\ n.pc = "send" /\ n.then = "idle" /\ n.out = <<Dummy>> /\ n.cmd = drv.cmd
        /\ n.rounds = drv.rounds /\ n.i \in Nat
    BY <1>2, <1>3, <2>1 DEF Closed
  <2>3. Forward(n, drv)  BY <1>1, <1>2, <2>2, ClosedNearer
  <2> QED  BY <1>7, <2>3 DEF n
<1>8. CASE drv' = Deassert(d, FALSE, "idle")  BY <1>7, <1>8
<1>9. CASE drv' = Deassert(d, TRUE, "idle")  BY <1>7, <1>9
<1> QED  BY <1>1, <1>5, <1>6, <1>8, <1>9

\* Every step of the driver goes forward.
LEMMA DriverNearer ==
  ASSUME ControlOK, Counting(drv), Driver
  PROVE  Forward(drv', drv)
<1>0. Control(drv) /\ (drv.owe => drv.pc \in Looks)
  BY DEF ControlOK, Reading, Looks
<1>1. CASE spi_send_byte /\ drv.pc = "send" /\ ~drv.owe
  <2> DEFINE d == [drv EXCEPT !.out = Tail(@)]
  <2>1. drv' = IF d.out = <<>> THEN Arrive(d) ELSE d
    BY <1>1 DEF spi_send_byte
  <2>2. Shaped(drv)  BY <1>0 DEF Control
  <2>3. Shaped(d) /\ Same(d, drv, {"out"}) /\ d.out = Tail(drv.out)
    BY <2>2 DEF Shaped, Fields, Same
  <2> HIDE DEF d
  <2>4. CASE d.out = <<>>
    <3>1. Forward(Arrive(d), drv)  BY <1>0, <1>1, <2>3, <2>4, ArriveNearer
    <3> QED  BY <2>1, <2>4, <3>1
  <2>5. CASE d.out # <<>>
    <3>1. Forward(d, drv)  BY <1>0, <1>1, <2>3, <2>5, SentNearer
    <3> QED  BY <2>1, <2>5, <3>1
  <2> QED  BY <2>4, <2>5
<1>2. CASE spi_send_byte /\ drv.owe
  <2>1. drv' = [Decide(drv) EXCEPT !.owe = FALSE, !.byte = FF]
    BY <1>0, <1>2 DEF spi_send_byte, Looks
  <2> DEFINE c == Decide(drv)
  <2>2. Control(c)  BY <1>0, <1>2, DecideControl
  <2> HIDE DEF c
  <2>3. Shaped(c)  BY <2>2 DEF Control
  <2>4. drv' = [c EXCEPT !.owe = FALSE, !.byte = FF]  BY <2>1 DEF c
  <2>5. Settled(drv', c)  BY <2>3, <2>4 DEF Shaped, Fields, Same, Settled
  <2>6. Settled(drv', Decide(drv))  BY <2>5 DEF c
  <2> QED  BY <1>0, <1>2, <2>6, DecideNearer
<1>3. CASE spi_read_byte
  <2>1. /\ drv.pc \in Looks /\ ~drv.owe
        /\ drv' = [drv EXCEPT !.byte = Head(rx), !.owe = TRUE]
    BY <1>3 DEF spi_read_byte, Reading, Looks
  <2>2. Shaped(drv)  BY <1>0 DEF Control
  <2>3. Shaped(drv') /\ Same(drv', drv, {"owe", "byte"}) /\ drv'.owe
    BY <2>1, <2>2 DEF Shaped, Fields, Same
  <2> QED  BY <1>0, <2>1, <2>3, ReadNearer
<1>4. CASE PollWrite  BY <1>4, PollNearer
<1> QED  BY <1>0, <1>1, <1>2, <1>3, <1>4 DEF Driver, spi_send_byte, Looks

\* The places in blocks and tails keep to their ranges.
LEMMA CountingStep == ControlOK /\ Counting(drv) /\ [Next]_vars => Counting(drv)'
<1> SUFFICES ASSUME ControlOK, Counting(drv), [Next]_vars PROVE Counting(drv')
  OBVIOUS
<1>1. CASE SDInit
  <2> DEFINE c == [Fresh EXCEPT !.call = "SDInit", !.rounds = OP_TRIES]
             out == Repeat(Dummy, IDLE_BYTES)
  <2>1. Shaped(c) /\ c.i = 0  BY DEF Fresh, Shaped, Fields
  <2>2. drv' = Send(c, out, "CMD0")  BY <1>1 DEF SDInit, Call
  <2> HIDE DEF c, out
  <2>3. drv'.pc = "send" /\ drv'.then = "CMD0" /\ drv'.i = c.i
    BY <2>1, <2>2, SendFields DEF Same, Fields
  <2> QED  BY <2>1, <2>3 DEF Counting, Commanding
<1>2. ASSUME NEW c, NEW cmd, Opening(c, cmd), Call(SDSendCommand(c, cmd))
      PROVE  Counting(drv')
  <2>1. Shaped(c)  BY <1>2 DEF Opening
  <2>2. Commanded(SDSendCommand(c, cmd), c, cmd)  BY <2>1, CommandFields
  <2>3. drv'.pc = "send" /\ drv'.i = 0  BY <1>2, <2>2 DEF Commanded, Call
  <2> QED  BY <2>3 DEF Counting
<1>3. CASE SDShutdown  BY <1>2, <1>3, Openings
<1>4. CASE \E a \in DOMAIN Blocks : sdReadBlock(a) \/ sdWriteBlock(a)
  BY <1>2, <1>4, Openings
<1>5. CASE \E a \in DOMAIN Blocks, s \in Slices : sdReadPartialBlock(a, s)
  BY <1>2, <1>5, Openings
<1>6. CASE Driver  BY <1>6, DriverNearer DEF Forward
<1>7. CASE Shift
  <2>1. drv' = drv  BY <1>7 DEF Shift
  <2> QED  BY <2>1
<1>8. CASE UNCHANGED vars
  <2>1. drv' = drv  BY <1>8 DEF vars
  <2> QED  BY <2>1
<1> QED  BY <1>1, <1>3, <1>4, <1>5, <1>6, <1>7, <1>8 DEF Next

LEMMA CountingAlways == Spec => [](ControlOK /\ CardOK /\ Counting(drv))
<1>1. Init => Counting(drv)
  <2> SUFFICES ASSUME Init PROVE Counting(drv)
    OBVIOUS
  <2>1. drv.pc = "idle" /\ drv.i = 0  BY DEF Init, Fresh
  <2> QED  BY <2>1 DEF Counting, Commanding
<1>2. Init => ControlOK /\ CardOK /\ Counting(drv)  BY <1>1, ControlInit, CardInit
<1>3. ControlOK /\ CardOK /\ Counting(drv) /\ [Next]_vars
        => (ControlOK /\ CardOK /\ Counting(drv))'
  BY ControlStep, CardStep, CountingStep
<1> QED  BY <1>2, <1>3, PTL DEF Spec

\* CallsAdvance for every depth of the FIFOs, every number of tries and rounds and
\* every block size: each byte that spi_send_byte, spi_read_byte or a loop of
\* sdWriteBlock handles takes its call strictly closer to its end, in a measure
\* without an infinite descent, whatever the card answers.
THEOREM CallsComeToAnEnd == Spec => CallsAdvance
<1> DEFINE Step == Driver /\ drv'.pc # "idle" => Nearer(drv', drv)
<1>1. ControlOK /\ CardOK /\ Counting(drv) /\ [Next]_vars => [Step]_vars
  BY DriverNearer DEF Forward
<1>2. Spec => [][Step]_vars
  <2> HIDE DEF Step
  <2> QED  BY <1>1, CountingAlways, PTL DEF Spec
<1> QED  BY <1>2 DEF CallsAdvance
=============================================================================
