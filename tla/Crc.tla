--------------------------------- MODULE Crc ---------------------------------
(***************************************************************************)
(* The checksum of the second boot stage, as boot2/compCrc32.c computes it *)
(* when the kernel is built.  A byte or word is the set of the numbers of  *)
(* its bits that are 1: so ^ is the symmetric difference, and a shift      *)
(* renumbers the bits.                                                     *)
(***************************************************************************)
EXTENDS Integers, Sequences

CONSTANT MAX_FILE_SIZE   \* the bytes of the boot stage that the ROM checks

Byte == SUBSET (0 .. 7)
Word == SUBSET (0 .. 31)
Bits(n) == {e \in 0 .. 15 : (n \div 2 ^ e) % 2 = 1}
Xor(p, q) == (p \ q) \cup (q \ p)
Shl(p, k) == {e + k : e \in p}
Shr(p, k) == {e - k : e \in {b \in p : b >= k}}

\* A loop of n turns over a value that is c at first; turn k makes turn[k][v] of v.
Loop(n, c, turn) ==
  LET after[k \in 0 .. n] == IF k = 0 THEN c ELSE turn[k][after[k - 1]]
  IN  after[n]

\* The table, with the halves of each word apart.
crc32_table == <<
  <<\h0000, \h0000>>, <<\h04C1, \h1DB7>>, <<\h0982, \h3B6E>>, <<\h0D43, \h26D9>>, <<\h1304, \h76DC>>,
  <<\h17C5, \h6B6B>>, <<\h1A86, \h4DB2>>, <<\h1E47, \h5005>>, <<\h2608, \hEDB8>>, <<\h22C9, \hF00F>>,
  <<\h2F8A, \hD6D6>>, <<\h2B4B, \hCB61>>, <<\h350C, \h9B64>>, <<\h31CD, \h86D3>>, <<\h3C8E, \hA00A>>,
  <<\h384F, \hBDBD>>, <<\h4C11, \hDB70>>, <<\h48D0, \hC6C7>>, <<\h4593, \hE01E>>, <<\h4152, \hFDA9>>,
  <<\h5F15, \hADAC>>, <<\h5BD4, \hB01B>>, <<\h5697, \h96C2>>, <<\h5256, \h8B75>>, <<\h6A19, \h36C8>>,
  <<\h6ED8, \h2B7F>>, <<\h639B, \h0DA6>>, <<\h675A, \h1011>>, <<\h791D, \h4014>>, <<\h7DDC, \h5DA3>>,
  <<\h709F, \h7B7A>>, <<\h745E, \h66CD>>, <<\h9823, \hB6E0>>, <<\h9CE2, \hAB57>>, <<\h91A1, \h8D8E>>,
  <<\h9560, \h9039>>, <<\h8B27, \hC03C>>, <<\h8FE6, \hDD8B>>, <<\h82A5, \hFB52>>, <<\h8664, \hE6E5>>,
  <<\hBE2B, \h5B58>>, <<\hBAEA, \h46EF>>, <<\hB7A9, \h6036>>, <<\hB368, \h7D81>>, <<\hAD2F, \h2D84>>,
  <<\hA9EE, \h3033>>, <<\hA4AD, \h16EA>>, <<\hA06C, \h0B5D>>, <<\hD432, \h6D90>>, <<\hD0F3, \h7027>>,
  <<\hDDB0, \h56FE>>, <<\hD971, \h4B49>>, <<\hC736, \h1B4C>>, <<\hC3F7, \h06FB>>, <<\hCEB4, \h2022>>,
  <<\hCA75, \h3D95>>, <<\hF23A, \h8028>>, <<\hF6FB, \h9D9F>>, <<\hFBB8, \hBB46>>, <<\hFF79, \hA6F1>>,
  <<\hE13E, \hF6F4>>, <<\hE5FF, \hEB43>>, <<\hE8BC, \hCD9A>>, <<\hEC7D, \hD02D>>, <<\h3486, \h7077>>,
  <<\h3047, \h6DC0>>, <<\h3D04, \h4B19>>, <<\h39C5, \h56AE>>, <<\h2782, \h06AB>>, <<\h2343, \h1B1C>>,
  <<\h2E00, \h3DC5>>, <<\h2AC1, \h2072>>, <<\h128E, \h9DCF>>, <<\h164F, \h8078>>, <<\h1B0C, \hA6A1>>,
  <<\h1FCD, \hBB16>>, <<\h018A, \hEB13>>, <<\h054B, \hF6A4>>, <<\h0808, \hD07D>>, <<\h0CC9, \hCDCA>>,
  <<\h7897, \hAB07>>, <<\h7C56, \hB6B0>>, <<\h7115, \h9069>>, <<\h75D4, \h8DDE>>, <<\h6B93, \hDDDB>>,
  <<\h6F52, \hC06C>>, <<\h6211, \hE6B5>>, <<\h66D0, \hFB02>>, <<\h5E9F, \h46BF>>, <<\h5A5E, \h5B08>>,
  <<\h571D, \h7DD1>>, <<\h53DC, \h6066>>, <<\h4D9B, \h3063>>, <<\h495A, \h2DD4>>, <<\h4419, \h0B0D>>,
  <<\h40D8, \h16BA>>, <<\hACA5, \hC697>>, <<\hA864, \hDB20>>, <<\hA527, \hFDF9>>, <<\hA1E6, \hE04E>>,
  <<\hBFA1, \hB04B>>, <<\hBB60, \hADFC>>, <<\hB623, \h8B25>>, <<\hB2E2, \h9692>>, <<\h8AAD, \h2B2F>>,
  <<\h8E6C, \h3698>>, <<\h832F, \h1041>>, <<\h87EE, \h0DF6>>, <<\h99A9, \h5DF3>>, <<\h9D68, \h4044>>,
  <<\h902B, \h669D>>, <<\h94EA, \h7B2A>>, <<\hE0B4, \h1DE7>>, <<\hE475, \h0050>>, <<\hE936, \h2689>>,
  <<\hEDF7, \h3B3E>>, <<\hF3B0, \h6B3B>>, <<\hF771, \h768C>>, <<\hFA32, \h5055>>, <<\hFEF3, \h4DE2>>,
  <<\hC6BC, \hF05F>>, <<\hC27D, \hEDE8>>, <<\hCF3E, \hCB31>>, <<\hCBFF, \hD686>>, <<\hD5B8, \h8683>>,
  <<\hD179, \h9B34>>, <<\hDC3A, \hBDED>>, <<\hD8FB, \hA05A>>, <<\h690C, \hE0EE>>, <<\h6DCD, \hFD59>>,
  <<\h608E, \hDB80>>, <<\h644F, \hC637>>, <<\h7A08, \h9632>>, <<\h7EC9, \h8B85>>, <<\h738A, \hAD5C>>,
  <<\h774B, \hB0EB>>, <<\h4F04, \h0D56>>, <<\h4BC5, \h10E1>>, <<\h4686, \h3638>>, <<\h4247, \h2B8F>>,
  <<\h5C00, \h7B8A>>, <<\h58C1, \h663D>>, <<\h5582, \h40E4>>, <<\h5143, \h5D53>>, <<\h251D, \h3B9E>>,
  <<\h21DC, \h2629>>, <<\h2C9F, \h00F0>>, <<\h285E, \h1D47>>, <<\h3619, \h4D42>>, <<\h32D8, \h50F5>>,
  <<\h3F9B, \h762C>>, <<\h3B5A, \h6B9B>>, <<\h0315, \hD626>>, <<\h07D4, \hCB91>>, <<\h0A97, \hED48>>,
  <<\h0E56, \hF0FF>>, <<\h1011, \hA0FA>>, <<\h14D0, \hBD4D>>, <<\h1993, \h9B94>>, <<\h1D52, \h8623>>,
  <<\hF12F, \h560E>>, <<\hF5EE, \h4BB9>>, <<\hF8AD, \h6D60>>, <<\hFC6C, \h70D7>>, <<\hE22B, \h20D2>>,
  <<\hE6EA, \h3D65>>, <<\hEBA9, \h1BBC>>, <<\hEF68, \h060B>>, <<\hD727, \hBBB6>>, <<\hD3E6, \hA601>>,
  <<\hDEA5, \h80D8>>, <<\hDA64, \h9D6F>>, <<\hC423, \hCD6A>>, <<\hC0E2, \hD0DD>>, <<\hCDA1, \hF604>>,
  <<\hC960, \hEBB3>>, <<\hBD3E, \h8D7E>>, <<\hB9FF, \h90C9>>, <<\hB4BC, \hB610>>, <<\hB07D, \hABA7>>,
  <<\hAE3A, \hFBA2>>, <<\hAAFB, \hE615>>, <<\hA7B8, \hC0CC>>, <<\hA379, \hDD7B>>, <<\h9B36, \h60C6>>,
  <<\h9FF7, \h7D71>>, <<\h92B4, \h5BA8>>, <<\h9675, \h461F>>, <<\h8832, \h161A>>, <<\h8CF3, \h0BAD>>,
  <<\h81B0, \h2D74>>, <<\h8571, \h30C3>>, <<\h5D8A, \h9099>>, <<\h594B, \h8D2E>>, <<\h5408, \hABF7>>,
  <<\h50C9, \hB640>>, <<\h4E8E, \hE645>>, <<\h4A4F, \hFBF2>>, <<\h470C, \hDD2B>>, <<\h43CD, \hC09C>>,
  <<\h7B82, \h7D21>>, <<\h7F43, \h6096>>, <<\h7200, \h464F>>, <<\h76C1, \h5BF8>>, <<\h6886, \h0BFD>>,
  <<\h6C47, \h164A>>, <<\h6104, \h3093>>, <<\h65C5, \h2D24>>, <<\h119B, \h4BE9>>, <<\h155A, \h565E>>,
  <<\h1819, \h7087>>, <<\h1CD8, \h6D30>>, <<\h029F, \h3D35>>, <<\h065E, \h2082>>, <<\h0B1D, \h065B>>,
  <<\h0FDC, \h1BEC>>, <<\h3793, \hA651>>, <<\h3352, \hBBE6>>, <<\h3E11, \h9D3F>>, <<\h3AD0, \h8088>>,
  <<\h2497, \hD08D>>, <<\h2056, \hCD3A>>, <<\h2D15, \hEBE3>>, <<\h29D4, \hF654>>, <<\hC5A9, \h2679>>,
  <<\hC168, \h3BCE>>, <<\hCC2B, \h1D17>>, <<\hC8EA, \h00A0>>, <<\hD6AD, \h50A5>>, <<\hD26C, \h4D12>>,
  <<\hDF2F, \h6BCB>>, <<\hDBEE, \h767C>>, <<\hE3A1, \hCBC1>>, <<\hE760, \hD676>>, <<\hEA23, \hF0AF>>,
  <<\hEEE2, \hED18>>, <<\hF0A5, \hBD1D>>, <<\hF464, \hA0AA>>, <<\hF927, \h8673>>, <<\hFDE6, \h9BC4>>,
  <<\h89B8, \hFD09>>, <<\h8D79, \hE0BE>>, <<\h803A, \hC667>>, <<\h84FB, \hDBD0>>, <<\h9ABC, \h8BD5>>,
  <<\h9E7D, \h9662>>, <<\h933E, \hB0BB>>, <<\h97FF, \hAD0C>>, <<\hAFB0, \h10B1>>, <<\hAB71, \h0D06>>,
  <<\hA632, \h2BDF>>, <<\hA2F3, \h3668>>, <<\hBCB4, \h666D>>, <<\hB875, \h7BDA>>, <<\hB536, \h5D03>>,
  <<\hB1F7, \h40B4>>>>

\* The word that a byte selects.
Table ==
  [b \in Byte |-> LET word == crc32_table[1 + CHOOSE n \in 0 .. 255 : Bits(n) = b]
                  IN  Shl(Bits(word[1]), 16) \cup Bits(word[2])]

\* Mutant: the byte is looked up without the checksum so far.
IndexPlain(crc, byte) == byte

Index(crc, byte) == Xor(Shr(crc, 24), byte)

\* (crc << 8) ^ crc32_table[idx]
NextCrc(crc, byte) == Xor(Shl(crc, 8) \cap 0 .. 31, Table[Index(crc, byte)])

calculate_crc32(data) ==
  Loop(Len(data), 0 .. 31, [k \in 1 .. Len(data) |-> [crc \in Word |-> NextCrc(crc, data[k])]])

\* main: the four bytes that crc.c puts behind the boot stage, lowest first;
\* none for a file that is too large.
CrcBytes(data) ==
  IF Len(data) > MAX_FILE_SIZE THEN <<>>
  ELSE [j \in 1 .. 4 |-> Shr(calculate_crc32(data), 8 * (j - 1)) \cap 0 .. 7]

(***************************************************************************)
(* What CRC-32 is: a word is a polynomial over GF(2), its bits the         *)
(* exponents.  Long division brings down a coefficient at a time.          *)
(***************************************************************************)
CRC32_POLYNOMIAL == {32, 26, 23, 22, 16, 12, 11, 10, 8, 7, 5, 4, 2, 1, 0}
Reduced(r) == IF 32 \in r THEN Xor(r, CRC32_POLYNOMIAL) ELSE r
Brought(r, one) == Reduced(Shl(r, 1) \cup (IF one THEN {0} ELSE {}))

\* The remainder of p, whose exponents are below n.
Remainder(p, n) == Loop(n, {}, [k \in 1 .. n |-> [r \in Word |-> Brought(r, n - k \in p)]])

\* The bytes as one polynomial, the first byte highest.
Polynomial(bytes) == UNION {Shl(bytes[j], 8 * (Len(bytes) - j)) : j \in DOMAIN bytes}

\* The table has at each byte the remainder of the byte behind which 32 bits
\* follow.  TLC computes all 256 of them.
ASSUME TableAssumption == \A b \in Byte : Table[b] = Remainder(Shl(b, 32), 40)
=============================================================================
