------------------------------- MODULE MCText -------------------------------
(***************************************************************************)
(* Text with short names of three and two bytes, LFN entries of five units *)
(* and names of up to six bytes; a boot stage of each single byte, which   *)
(* uses every entry of the table once, and longer ones.                    *)
(***************************************************************************)
EXTENDS Text

MCWords == (0 .. 20) \cup {99, 100, 101, 127, 128, 200, 255, 256, 999, 1000, 65535, 65536,
                           999999999, 1000000000, 2147483646, 2147483647}
MCShortNames == [1 .. 5 -> {Space, 64, 65}]
MCLongTexts == UNION {[1 .. n -> {97, 233}] : n \in 0 .. 8}
MCFields == <<2, 2, 1>>
MCNumbers == {<<b>> : b \in 0 .. 255} \cup {<<a, b>> : a, b \in {0, 1, 127, 128, 255}}
               \cup {<<>>, <<1, 2, 3, 4, 5>>, [j \in 1 .. 12 |-> 20 * j], [j \in 1 .. 253 |-> 0]}
MCImages == {[j \in DOMAIN s |-> Bits(s[j])] : s \in MCNumbers}
=============================================================================
