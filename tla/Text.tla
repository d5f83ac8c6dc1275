-------------------------------- MODULE Text --------------------------------
(***************************************************************************)
(* The conversions: numbers to digits (hexutils.c), short and long names   *)
(* of directory entries to strings (FAT32.c), the string functions they    *)
(* use, and the checksum of the boot stage (Crc).  A string is the         *)
(* sequence of the bytes in front of its NUL.  A state is one call and     *)
(* what it returned.                                                       *)
(***************************************************************************)
EXTENDS Crc, SequencesExt, FiniteSetsExt

CONSTANTS
  Words,              \* the numbers to convert, of 32 bits
  ShortNames,         \* the DIR_Name fields: sequences of Base + Ext bytes
  Base, Ext,          \* 8 and 3 on a volume
  LongTexts,          \* the names to store in LFN entries: sequences of UTF-16 units
  Fields,             \* the units of LDIR_Name1, 2 and 3: <<5, 6, 2>> on a volume
  RowSize,            \* MAX_UTF8_CHARS_PER_LFN_PART
  MAX_FILENAME_LEN,
  Images              \* the boot stages to check: sequences of bytes

PadUnit == \hFFFF
Units == Fields[1] + Fields[2] + Fields[3]

ASSUME TextAssumption ==
  /\ \A n \in Words : n \in Nat /\ n \div 65536 < 65536
  /\ Base \in Nat /\ Ext \in Nat \ {0}
  /\ \A n \in ShortNames : n \in [1 .. (Base + Ext) -> 0 .. 255]
  /\ Fields \in [1 .. 3 -> Nat] /\ Units # 0
  /\ RowSize \in Nat /\ Units < RowSize
  /\ MAX_FILENAME_LEN \in Nat /\ Units < MAX_FILENAME_LEN
  /\ \A n \in LongTexts : n \in Seq((0 .. PadUnit) \ {0, PadUnit})
  /\ MAX_FILE_SIZE \in Nat /\ \A i \in Images : i \in Seq(Byte)

VARIABLE call

Space == 32
Dot == 46
Question == 63

\* The part of s in front of the first element of stop.
Before(s, stop) ==
  SubSeq(s, 1, Max({n \in 0 .. Len(s) : \A j \in 1 .. n : s[j] \notin stop}))

First(s, n) == SubSeq(s, 1, IF n < Len(s) THEN n ELSE Len(s))

(***************************************************************************)
(* Numbers.  A digit stands for its character.                             *)
(***************************************************************************)
Sixteens == <<268435456, 16777216, 1048576, 65536, 4096, 256, 16, 1>>

hexToStr(n) == [j \in 1 .. 8 |-> (n \div Sixteens[j]) % 16]
byteToStr(n) == <<(n \div 16) % 16, n % 16>>

byteToDec(n) == <<(n \div 100) % 10, (n \div 10) % 10, n % 10>>

\* Mutant: the last digit is taken for the end.
MoreDigitsTen(n) == n > 9

MoreDigits(n) == n > 0

\* What temp_str collects, from its end.
Digits[m \in Nat] == IF MoreDigits(m) THEN Append(Digits[m \div 10], m % 10) ELSE <<>>

intToDec(n) == IF n = 0 THEN <<0>> ELSE Digits[n]

(***************************************************************************)
(* Names.                                                                  *)
(***************************************************************************)
\* Mutant: the dot is left to the caller.
ExtensionBare(ext) == Before(ext, {Space})

Extension(ext) == IF ext[1] = Space THEN <<>> ELSE <<Dot>> \o Before(ext, {Space})

fat_sfn_to_string(name) ==
  Before(First(name, Base), {Space}) \o Extension(SubSeq(name, Base + 1, Base + Ext))

\* Mutant: the bit that is shifted out is lost.
RotatedLost(sum) == sum \div 2

Rotated(sum) == (IF sum % 2 = 1 THEN 128 ELSE 0) + sum \div 2

fat_sfn_checksum(name) ==
  Loop(Len(name), 0, [k \in 1 .. Len(name) |->
                        [sum \in 0 .. 255 |-> (Rotated(sum) + name[k]) % 256]])

\* Both strings with their NUL: the first place where they differ or end.
strcmp(s, t) ==
  LET x == Append(s, 0)
      y == Append(t, 0)
      at == Min({j \in 1 .. Len(x) : j <= Len(y) /\ (x[j] = 0 \/ y[j] = 0 \/ x[j] # y[j])})
  IN  x[at] - y[at]

strncat(s, t, num) == s \o First(t, num)

\* Mutant: the padding behind a short name is text.
StopUnitsZero == {0}

StopUnits == {0, PadUnit}

\* The string s of out_buffer with the units behind it.
fat_lfn_to_utf8(units, s, max_len) ==
  LET shown == [j \in DOMAIN units |-> IF units[j] < 128 THEN units[j] ELSE Question]
  IN  s \o First(SubSeq(shown, 1, Len(Before(units, StopUnits))), max_len - 1 - Len(s))

\* The three fields of an LFN entry become a row of lfn_buffer.
Row(entry) ==
  LET one == fat_lfn_to_utf8(entry[1], <<>>, MAX_FILENAME_LEN)
      two == fat_lfn_to_utf8(entry[2], one, MAX_FILENAME_LEN)
  IN  fat_lfn_to_utf8(entry[3], two, MAX_FILENAME_LEN)

\* The rows become the name.  Joined are the rows of the name; how many the code
\* takes, lfn_parts_found, is kept by the iterator (FatDir).
Joined(s, row) == IF row = <<>> THEN s ELSE strncat(s, row, MAX_FILENAME_LEN - 1 - Len(s))
Assembled(rows) ==
  Loop(Len(rows), <<>>, [k \in 1 .. Len(rows) |-> [s \in Seq(0 .. 127) |-> Joined(s, rows[k])]])

(***************************************************************************)
(* How a volume stores a long name (external): in entries of Units units,  *)
(* and, when the last entry has room, a 0 and padding behind it.           *)
(***************************************************************************)
Entries(name) ==
  LET n == (Len(name) + Units - 1) \div Units
      unit(j) == IF j <= Len(name) THEN name[j] ELSE IF j = Len(name) + 1 THEN 0 ELSE PadUnit
      field(e, from, len) == [j \in 1 .. len |-> unit((e - 1) * Units + from + j)]
  IN  [e \in 1 .. n |-> <<field(e, 0, Fields[1]), field(e, Fields[1], Fields[2]),
                          field(e, Fields[1] + Fields[2], Fields[3])>>]

(***************************************************************************)
(* One call after the other.                                               *)
(***************************************************************************)
None == [fn |-> "none"]
Init == call = None

Format ==
  \E n \in Words :
    \/ call' = [fn |-> "digits", of |-> n, base |-> 16, out |-> hexToStr(n), room |-> 9]
    \/ n < 256 /\ call' = [fn |-> "digits", of |-> n, base |-> 16, out |-> byteToStr(n), room |-> 3]
    \/ n < 256 /\ call' = [fn |-> "digits", of |-> n, base |-> 10, out |-> byteToDec(n), room |-> 4]
    \/ call' = [fn |-> "digits", of |-> n, base |-> 10, out |-> intToDec(n), room |-> 11]

CompareShort ==
  \E a, b \in ShortNames :
    call' = [fn |-> "short", a |-> a, b |-> b,
             order |-> strcmp(fat_sfn_to_string(a), fat_sfn_to_string(b)),
             sums |-> <<fat_sfn_checksum(a), fat_sfn_checksum(b)>>]

ReadLong ==
  \E name \in LongTexts :
    LET rows == [e \in DOMAIN Entries(name) |-> Row(Entries(name)[e])]
    IN  call' = [fn |-> "long", of |-> name, rows |-> rows, out |-> Assembled(rows)]

Seal == \E data \in Images : call' = [fn |-> "crc", of |-> data, out |-> CrcBytes(data)]

Return == call # None /\ call' = None

Next == \/ call = None /\ (Format \/ CompareShort \/ ReadLong \/ Seal)
        \/ Return

Spec == Init /\ [][Next]_call

(***************************************************************************)
(* Properties.                                                             *)
(***************************************************************************)

\* The number that digits denote.
Value(digits, base) ==
  Loop(Len(digits), 0, [k \in 1 .. Len(digits) |-> [v \in Nat |-> v * base + digits[k]]])

\* The digits written by hexutils.c denote the number, and fit with their NUL
\* into the buffer that uart.c has for them.
NumbersRight ==
  call.fn = "digits" =>
    /\ Value(call.out, call.base) = call.of
    /\ \A j \in DOMAIN call.out : call.out[j] \in 0 .. (call.base - 1)
    /\ Len(call.out) < call.room

\* A field that is padded behind its text only, and has no dot and no NUL in it.
Proper(field) ==
  LET text == Before(field, {Space})
  IN  /\ \A j \in (Len(text) + 1) .. Len(field) : field[j] = Space
      /\ \A j \in DOMAIN field : field[j] \notin {Dot, 0}
ProperName(n) == Proper(First(n, Base)) /\ Proper(SubSeq(n, Base + 1, Base + Ext))

\* get_file, which compares strings, tells short names apart exactly as the
\* directory does, which compares the padded fields.
NamesTellApart ==
  call.fn = "short" /\ ProperName(call.a) /\ ProperName(call.b) =>
    (call.order = 0 <=> call.a = call.b)

\* A short name that differs in one byte has another checksum, so a long name is
\* not given to an entry that was renamed under it by a system that knows no LFN.
SumDetects ==
  call.fn = "short" /\ Cardinality({j \in DOMAIN call.a : call.a[j] # call.b[j]}) = 1 =>
    call.sums[1] # call.sums[2]

\* A long name comes back from its entries as it was stored, with "?" for what is
\* not ASCII, as far as filename has room, and no row or name overflows.
LongNameRight ==
  call.fn = "long" =>
    /\ call.out = First([j \in DOMAIN call.of |-> IF call.of[j] < 128 THEN call.of[j]
                                                   ELSE Question], MAX_FILENAME_LEN - 1)
    /\ \A e \in DOMAIN call.rows : Len(call.rows[e]) < RowSize

\* The four bytes, read as the ROM reads a word, are the remainder that CRC-32
\* defines, with every bit of the register set at first: the table, its use and
\* the order of the bytes agree with the polynomial.
CrcRight ==
  call.fn = "crc" /\ Len(call.of) <= MAX_FILE_SIZE =>
    Polynomial(Reverse(call.out)) =
      Remainder(Xor(Shl(Polynomial(call.of), 32), Shl(0 .. 31, 8 * Len(call.of))),
                8 * Len(call.of) + 32)
=============================================================================
