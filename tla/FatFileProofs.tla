--------------------------- MODULE FatFileProofs ---------------------------
(***************************************************************************)
(* For every medium, word size, table size and request: the clusters that  *)
(* FatVolume accepts lie in the partition, and the handles and reads of    *)
(* FatFile stay within the file, the buffer and (almost) the data area.    *)
(* FatFile implements FileApi: a read of a sound file that returns true    *)
(* has delivered the file's next bytes.                                    *)
(***************************************************************************)
EXTENDS FatFile, FatVolumeProofs, FiniteSetTheorems

----------------------------------------------------------------------------
(***************************************************************************)
(* The inductive invariant.                                                *)
(***************************************************************************)

Handle == [cluster_start : Words, current_cluster : Words, current_offset : Words,
           file_size : Words, current_file_pos : Words, is_free : BOOLEAN]

\* The offset counts the bytes since the position passed a cluster's end.
HandleOK(h) ==
  /\ h \in Handle
  /\ h.current_offset <= h.current_file_pos
  /\ h.current_file_pos <= h.file_size

HandlesOK == handles \in [Ids -> Handle] /\ \A i \in Ids : HandleOK(handles[i])

Left == rd.before.file_size - rd.before.current_file_pos

ReadType == [phase : {"idle", "loop", "fat"}, id : Ids, n : Nat, before : Handle,
             actual : Words, got : Seq(Nat \X Nat), ok : BOOLEAN]

\* What was delivered is what the position has moved by, and it never exceeds
\* the number of bytes that the read decided on at its start.
ReadOK ==
  /\ rd \in ReadType
  /\ HandleOK(rd.before)
  /\ Len(rd.got) <= rd.actual
  /\ rd.actual <= Left
  /\ Left < WORD \div 2 => rd.actual <= rd.n
  /\ ~Idle => /\ vol.is_initialized
              /\ handles[rd.id].file_size = rd.before.file_size
              /\ handles[rd.id].current_file_pos = rd.before.current_file_pos + Len(rd.got)

Inv == VolumeOK /\ HandlesOK /\ ReadOK

\* The places of s whose byte is from a sector outside an area of the card.
Outside(s, area) == {j \in DOMAIN s : s[j][1] \notin area}

Strays == Cardinality(Outside(rd.got, DataArea))

\* What a read may have delivered from outside the data area so far: at most a
\* sector before its first look-up in the FAT worked, and what it took from a
\* cluster that is not one.
StraysBound ==
  LET h     == handles[rd.id]
      valid == InRange(vol, h.current_cluster)
  IN  /\ rd.phase = "loop" /\ rd.got # <<>> =>
           /\ h.current_offset < vol.bytes_per_cluster
           /\ Strays <= vol.bytes_per_sector + (IF valid THEN 0 ELSE h.current_offset)
      /\ rd.phase = "fat" =>
           Strays <= vol.bytes_per_sector + (IF valid THEN 0 ELSE vol.bytes_per_cluster)
      /\ Strays <= vol.bytes_per_sector + vol.bytes_per_cluster

StraysSoFar ==
  /\ ~vol.is_initialized => rd.got = <<>>
  /\ vol.is_initialized /\ Plausible(vol, medium.bpb) /\ Left < WORD \div 2 => StraysBound

----------------------------------------------------------------------------
\* min() never exceeds an argument that counts as positive, and of a positive
\* second argument it never exceeds the first.
LEMMA MinIs ==
  ASSUME NEW a \in Words, NEW b \in Words, b < WORD \div 2
  PROVE  /\ min(a, b) \in Words
         /\ min(a, b) <= a
         /\ a < WORD \div 2 => min(a, b) <= b
         /\ a > 0 /\ b > 0 => min(a, b) > 0
  BY WordsAre DEF min, Signed

LEMMA MinLeft ==
  ASSUME NEW n \in Nat, n < WORD \div 2, NEW left \in Words
  PROVE  /\ min(n, left) \in Words
         /\ min(n, left) <= left
         /\ left < WORD \div 2 => min(n, left) <= n
<1>1. WORD \in Nat \ {0} /\ left \in Nat /\ left < WORD
  BY WordsAre
<1>2. WORD \div 2 \in Nat /\ WORD \div 2 <= WORD
  BY <1>1
<1>3. n \in Words
  BY <1>1, <1>2, WordsAre
<1>4. CASE left < WORD \div 2
  BY <1>1, <1>2, <1>3, <1>4 DEF min, Signed
<1>5. CASE left >= WORD \div 2
  BY <1>1, <1>2, <1>3, <1>5 DEF min, Signed
<1>6. QED BY <1>1, <1>2, <1>4, <1>5

LEMMA HandleFields ==
  ASSUME NEW h \in Handle
  PROVE  /\ h.cluster_start \in Words /\ h.current_cluster \in Words
         /\ h.current_offset \in Nat /\ h.current_offset < WORD
         /\ h.file_size \in Nat /\ h.file_size < WORD
         /\ h.current_file_pos \in Nat /\ h.current_file_pos < WORD
         /\ h.is_free \in BOOLEAN
  BY WordsAre DEF Handle

LEMMA ReadFields ==
  ASSUME ReadOK
  PROVE  /\ rd.phase \in {"idle", "loop", "fat"} /\ rd.id \in Ids /\ rd.n \in Nat
         /\ rd.before \in Handle /\ rd.actual \in Nat /\ rd.actual < WORD
         /\ rd.got \in Seq(Nat \X Nat) /\ Len(rd.got) \in Nat
         /\ Left \in Nat /\ Left < WORD
<1>1. rd \in ReadType /\ HandleOK(rd.before)
  BY DEF ReadOK
<1>2. /\ rd.phase \in {"idle", "loop", "fat"} /\ rd.id \in Ids /\ rd.n \in Nat
      /\ rd.before \in Handle /\ rd.actual \in Words
      /\ rd.got \in Seq(Nat \X Nat)
  BY <1>1 DEF ReadType
<1>3. Len(rd.got) \in Nat
  BY <1>2
<1>4. Left \in Nat /\ Left < WORD
  <2>1. /\ rd.before.file_size \in Nat /\ rd.before.file_size < WORD
        /\ rd.before.current_file_pos \in Nat
    BY <1>2, HandleFields
  <2>2. rd.before.current_file_pos <= rd.before.file_size
    BY <1>1 DEF HandleOK
  <2>3. QED BY <2>1, <2>2, WordsAre, SMTT(30) DEF Left
<1>5. QED BY <1>2, <1>3, <1>4, WordsAre

LEMMA ZeroedOK == HandleOK(Zeroed)
  BY WordsAre DEF HandleOK, Handle, Zeroed

LEMMA InvInit == Init => Inv
<1> SUFFICES ASSUME Init PROVE Inv
  OBVIOUS
<1>1. VolumeOK
  BY VolumeInit DEF Init
<1>2. HandlesOK
  BY ZeroedOK DEF Init, HandlesOK, HandleOK
<1>3. ReadOK
  <2>1. 0 \in Ids /\ 0 \in Words
    BY FileAssumption, WordsAre DEF Ids
  <2>2. rd = NoRead /\ rd \in ReadType
    BY <2>1, ZeroedOK DEF Init, NoRead, ReadType, HandleOK
  <2>3. rd.before = Zeroed /\ rd.got = <<>> /\ rd.actual = 0 /\ rd.n = 0 /\ Idle
    BY <2>2 DEF NoRead, Idle
  <2>4. Left = 0
    BY <2>3 DEF Left, Zeroed
  <2>5. QED BY <2>2, <2>3, <2>4, ZeroedOK DEF ReadOK
<1>4. QED BY <1>1, <1>2, <1>3 DEF Inv

\* Steps that leave the read alone and do not touch a handle in use by it.
LEMMA ReadStays ==
  ASSUME ReadOK, Idle, UNCHANGED rd
  PROVE  ReadOK'
  BY DEF ReadOK, Idle, Left, ReadType, HandleOK, Handle

LEMMA InitStep == ASSUME Inv, fat32_init PROVE Inv'
<1> USE DEF Inv
<1>1. Idle /\ UNCHANGED rd
  BY DEF fat32_init
<1>2. VolumeOK'
  <2>1. MountFails \/ MountWorks
    BY DEF fat32_init
  <2>2. QED BY <2>1, MountStep
<1>3. HandlesOK'
  <2>1. CASE UNCHANGED handles
    BY <2>1 DEF HandlesOK, HandleOK
  <2>2. CASE handles' = [i \in Ids |-> [handles[i] EXCEPT !.is_free = TRUE]]
    BY <2>2 DEF HandlesOK, HandleOK, Handle
  <2>3. QED BY <2>1, <2>2 DEF fat32_init
<1>4. QED BY <1>1, <1>2, <1>3, ReadStays

LEMMA OpenStep == ASSUME Inv, NEW f \in medium.files, fat32_open(f) PROVE Inv'
<1> USE DEF Inv
<1>1. Idle /\ UNCHANGED <<medium, booted, vol, rd>>
  BY DEF fat32_open
<1>2. f.start \in Words /\ f.size \in Words
  BY FileAssumption DEF VolumeOK
<1>3. \A h \in Handle : HandleOK(Opened(h, f))
  <2> SUFFICES ASSUME NEW h \in Handle PROVE HandleOK(Opened(h, f))
    OBVIOUS
  <2>1. 0 \in Words /\ f.size \in Nat
    BY <1>2, WordsAre
  <2>2. Opened(h, f) \in Handle
    BY <2>1, <1>2 DEF Opened, Handle
  <2>3. /\ Opened(h, f).current_offset = 0 /\ Opened(h, f).current_file_pos = 0
        /\ Opened(h, f).file_size = f.size
    BY DEF Opened, Handle
  <2>4. QED BY <2>1, <2>2, <2>3 DEF HandleOK
<1>4. HandlesOK'
  <2>1. PICK i \in Ids : handles' = [handles EXCEPT ![i] = Opened(@, f)]
    BY DEF fat32_open, Free
  <2>2. HandleOK(Opened(handles[i], f))
    BY <1>3 DEF HandlesOK
  <2>3. QED BY <2>1, <2>2 DEF HandlesOK, HandleOK
<1>5. QED BY <1>1, <1>4, ReadStays DEF VolumeOK

LEMMA CloseStep == ASSUME Inv, NEW i \in Ids, fat32_close(i) PROVE Inv'
<1> USE DEF Inv
<1>1. Idle /\ UNCHANGED <<medium, booted, vol, rd>>
  BY DEF fat32_close
<1>2. HandlesOK'
  <2>1. \A j \in Ids : HandleOK(handles[j])
    BY DEF HandlesOK
  <2>2. handles' = [handles EXCEPT ![i].is_free = TRUE]
    BY DEF fat32_close
  <2>3. HandleOK([handles[i] EXCEPT !.is_free = TRUE])
    BY <2>1 DEF HandleOK, Handle
  <2>4. QED BY <2>1, <2>2, <2>3 DEF HandlesOK, HandleOK
<1>3. QED BY <1>1, <1>2, ReadStays DEF VolumeOK

LEMMA ReadStep ==
  ASSUME Inv, NEW i \in Ids, NEW n \in Nat, n < WORD \div 2, fat32_read(i, n)
  PROVE  Inv'
<1> USE DEF Inv
<1> DEFINE h == handles[i]
           left == h.file_size - h.current_file_pos
<1>1. vol.is_initialized /\ UNCHANGED <<medium, booted, vol, handles>>
  BY DEF fat32_read
<1>2. HandleOK(h) /\ h \in Handle
  BY DEF HandlesOK, HandleOK
<1>3. left \in Nat /\ left < WORD
  <2>1. /\ h.file_size \in Nat /\ h.current_file_pos \in Nat /\ h.file_size < WORD /\ WORD \in Nat
    BY <1>2, HandleFields, WordsAre, VolumeAssumption
  <2>2. h.current_file_pos <= h.file_size
    BY <1>2 DEF HandleOK
  <2> HIDE DEF h
  <2>3. QED BY <2>1, <2>2
<1>4. left % WORD = left /\ left \in Words
  BY <1>3, WordsAre, ModSmall
<1>5. rd' = [phase |-> "loop", id |-> i, n |-> n, before |-> h,
             actual |-> min(n, left), got |-> <<>>, ok |-> FALSE]
  BY <1>4 DEF fat32_read
<1> HIDE DEF h
<1>6. /\ rd'.before = h /\ rd'.actual = min(n, left) /\ rd'.got = <<>> /\ rd'.n = n
      /\ rd'.id = i
  BY <1>5
<1>7. rd' \in ReadType
  <2>1. min(n, left) \in Words
    BY <1>4, MinLeft
  <2>2. <<>> \in Seq(Nat \X Nat)
    OBVIOUS
  <2> HIDE DEF left
  <2>3. QED BY <1>2, <1>5, <2>1, <2>2 DEF ReadType
<1>8. /\ min(n, left) \in Nat /\ min(n, left) <= left
      /\ left < WORD \div 2 => min(n, left) <= n
  BY <1>4, MinLeft, WordsAre
<1>9. /\ handles'[rd'.id].file_size = rd'.before.file_size
      /\ handles'[rd'.id].current_file_pos = rd'.before.current_file_pos + Len(rd'.got)
  BY <1>1, <1>2, <1>6, HandleFields DEF h
<1>10. Left' = left
  BY <1>6 DEF Left
<1> HIDE DEF left
<1>11. ReadOK'
  BY <1>1, <1>2, <1>6, <1>7, <1>8, <1>9, <1>10 DEF ReadOK
<1>12. QED BY <1>1, <1>11 DEF VolumeOK, HandlesOK

\* A read that ends leaves everything else as it is.
LEMMA ReturnStep ==
  ASSUME Inv, NEW ok \in BOOLEAN, Return(ok), UNCHANGED <<medium, booted, vol, handles>>
  PROVE  Inv'
<1> USE DEF Inv
<1>1. rd \in ReadType /\ rd' = [rd EXCEPT !.phase = "idle", !.ok = ok]
  BY DEF ReadOK, Return
<1>2. /\ rd' \in ReadType /\ rd'.phase = "idle" /\ rd'.before = rd.before
      /\ rd'.got = rd.got /\ rd'.actual = rd.actual /\ rd'.n = rd.n
  BY <1>1 DEF ReadType
<1>3. ReadOK'
  BY <1>2 DEF ReadOK, Idle, Left
<1>4. QED BY <1>3 DEF VolumeOK, HandlesOK

\* The next transfer of a read in progress: at least a byte, no more than is
\* wanted, and no further than the end of the sector unless 2^31 bytes are.
LEMMA Transfer ==
  ASSUME Inv, rd.phase = "loop", Len(rd.got) < rd.actual,
         NEW skip, skip = handles[rd.id].current_offset % vol.bytes_per_sector,
         NEW n, n = min(rd.actual - Len(rd.got), LeftInSector(skip))
  PROVE  /\ skip \in Nat /\ skip < vol.bytes_per_sector
         /\ n \in Nat /\ n > 0 /\ n <= rd.actual - Len(rd.got)
         /\ Left < WORD \div 2 => n <= vol.bytes_per_sector - skip
<1> USE DEF Inv
<1> DEFINE a == rd.actual - Len(rd.got)
           b == LeftInSector(skip)
<1>1. /\ vol = Mounted(medium) /\ medium \in Media /\ Partitioned(medium)
  BY DEF ReadOK, Idle, VolumeOK
<1>2. /\ vol.bytes_per_sector \in Nat \ {0} /\ vol.bytes_per_sector < WORD \div 2
      /\ WORD \div 2 \in Nat /\ WORD \div 2 <= WORD /\ WORD \in Nat
  <2>1. vol.bytes_per_sector \in 1 .. (WORD \div 2 - 1)
    BY <1>1, MountedTypes
  <2>2. QED BY <2>1, Half, VolumeAssumption
<1>3. handles[rd.id].current_offset \in Nat
  BY ReadFields, HandleFields DEF HandlesOK
<1>4. skip \in Nat /\ skip < vol.bytes_per_sector
  BY <1>2, <1>3, ModLess
<1>5. a \in Words /\ a > 0 /\ a <= Left
  <2>1. /\ rd.actual \in Nat /\ rd.actual < WORD /\ Len(rd.got) \in Nat
        /\ Left \in Nat /\ rd.actual <= Left
    BY ReadFields DEF ReadOK
  <2>2. a \in Nat /\ a > 0 /\ a < WORD /\ a <= Left
    BY <2>1, <1>2
  <2>3. QED BY <2>2, WordsAre
<1>6. b \in Words /\ b > 0 /\ b < WORD \div 2 /\ b = vol.bytes_per_sector - skip
  <2>1. b = vol.bytes_per_sector - skip
    BY DEF LeftInSector
  <2>2. b \in Nat /\ b > 0 /\ b < WORD \div 2 /\ b < WORD
    BY <2>1, <1>2, <1>4
  <2>3. QED BY <2>1, <2>2, WordsAre
<1> HIDE DEF a, b
<1>7. /\ min(a, b) \in Nat /\ min(a, b) > 0 /\ min(a, b) <= a
      /\ a < WORD \div 2 => min(a, b) <= b
  BY <1>5, <1>6, MinIs, WordsAre
<1>8. Left < WORD \div 2 => a < WORD \div 2
  <2>1. a \in Nat /\ a <= Left /\ Left \in Nat /\ WORD \div 2 \in Nat
    BY <1>2, <1>5, WordsAre, ReadFields
  <2> HIDE DEF Inv
  <2>2. QED BY <2>1
<1>9. QED BY <1>4, <1>6, <1>7, <1>8 DEF a, b

LEMMA SectorNat ==
  ASSUME VolumeOK, vol.is_initialized, NEW c \in Nat, NEW o \in Nat
  PROVE  (fatClusterToLba(vol, c) + o \div vol.bytes_per_sector) % WORD \in Nat
<1>1. vol = Mounted(medium) /\ medium \in Media /\ Partitioned(medium)
  BY DEF VolumeOK
<1>2. /\ vol.bytes_per_sector \in Nat \ {0} /\ vol.data_start_lba \in Nat
      /\ vol.sectors_per_cluster \in Nat
  BY <1>1, MountedTypes, WordsAre
<1>3. fatClusterToLba(vol, c) \in Nat
  <2>1. CASE c < 2
    BY <2>1 DEF fatClusterToLba
  <2>2. CASE ~(c < 2)
    <3>1. (c - 2) * vol.sectors_per_cluster \in Nat
      BY <1>2, <2>2
    <3>2. vol.data_start_lba + (c - 2) * vol.sectors_per_cluster \in Nat
      BY <1>2, <3>1
    <3>3. QED BY <2>2, <3>2, ModLess, VolumeAssumption DEF fatClusterToLba
  <2>3. QED BY <2>1, <2>2
<1>4. o \div vol.bytes_per_sector \in Nat
  BY <1>2, DivMod
<1>5. fatClusterToLba(vol, c) + o \div vol.bytes_per_sector \in Nat
  BY <1>3, <1>4
<1>6. QED BY <1>5, ModLess, VolumeAssumption

\* A piece has as many places as were counted, and with fewer than 2^16 of them
\* each is a byte of the sector.
LEMMA PieceIs ==
  ASSUME NEW lba \in Nat, NEW k \in Nat, NEW n \in Nat
  PROVE  /\ Piece(lba, k, n) \in Seq(Nat \X Nat) /\ Len(Piece(lba, k, n)) = n
         /\ n < UINT16 => \A j \in 1 .. n : Piece(lba, k, n)[j] = <<lba, k + j - 1>>
<1>1. WORD \in Nat /\ Untouched \in Nat \X Nat
  BY WordsAre DEF Untouched
<1>2. \A j \in 1 .. n : <<lba, k + j - 1>> \in Nat \X Nat
  OBVIOUS
<1>3. Piece(lba, k, n) \in [1 .. n -> Nat \X Nat]
  BY <1>1, <1>2 DEF Piece
<1>4. Piece(lba, k, n) \in Seq(Nat \X Nat) /\ Len(Piece(lba, k, n)) = n
  BY <1>3
<1>5. ASSUME n < UINT16, NEW j \in 1 .. n PROVE Piece(lba, k, n)[j] = <<lba, k + j - 1>>
  <2>1. n % UINT16 = n
    BY <1>5, FileAssumption, ModSmall
  <2>2. QED BY <2>1 DEF Piece
<1>6. QED BY <1>4, <1>5

\* A sector's bytes are counted in a uint16_t.
LEMMA SectorShort == ASSUME VolumeOK, vol.is_initialized PROVE vol.bytes_per_sector < UINT16
<1>1. medium \in Media /\ Partitioned(medium) /\ vol = Mounted(medium)
  BY DEF VolumeOK
<1>2. vol.bytes_per_sector = medium.bpb.bytes_per_sector
  BY <1>1, MountedFields
<1>3. QED BY <1>1, <1>2, FileAssumption

LEMMA SectorStep == ASSUME Inv, ReadSector PROVE Inv'
<1> USE DEF Inv
<1> DEFINE h == handles[rd.id]
           skip == h.current_offset % vol.bytes_per_sector
           lba == (fatClusterToLba(vol, h.current_cluster)
                     + h.current_offset \div vol.bytes_per_sector) % WORD
           n == min(rd.actual - Len(rd.got), LeftInSector(skip))
           piece == Piece(lba, skip, n)
<1>1. rd.phase = "loop" /\ Len(rd.got) < rd.actual /\ UNCHANGED <<medium, booted, vol>>
  BY DEF ReadSector
<1>2. /\ skip \in Nat /\ n \in Nat /\ n > 0 /\ n <= rd.actual - Len(rd.got)
  BY <1>1, Transfer
<1>3. PICK p \in {"loop", "fat"} : rd' = [rd EXCEPT !.got = @ \o piece, !.phase = p]
  BY DEF ReadSector
<1>4. handles' = [handles EXCEPT ![rd.id].current_file_pos = @ + n,
                                 ![rd.id].current_offset = @ + n]
  BY DEF ReadSector
<1>5. rd.id \in Ids /\ h \in Handle /\ HandleOK(h) /\ handles \in [Ids -> Handle]
  BY ReadFields DEF HandlesOK
<1>6. lba \in Nat
  <2>1. vol.is_initialized
    BY <1>1 DEF ReadOK, Idle
  <2>2. h.current_cluster \in Nat /\ h.current_offset \in Nat
    BY <1>5, HandleFields, WordsAre
  <2>3. QED BY <2>1, <2>2, SectorNat
<1> HIDE DEF h, lba, skip, n
<1>7. piece \in Seq(Nat \X Nat) /\ Len(piece) = n
  BY <1>2, <1>6, PieceIs
<1> HIDE DEF piece
<1>8. /\ rd.got \o piece \in Seq(Nat \X Nat)
      /\ Len(rd.got \o piece) = Len(rd.got) + n
  <2>1. rd.got \in Seq(Nat \X Nat)
    BY ReadFields
  <2>2. QED BY <2>1, <1>7, Joined
<1>9. /\ rd' \in ReadType /\ rd'.phase = p /\ rd'.before = rd.before
      /\ rd'.got = rd.got \o piece /\ rd'.actual = rd.actual /\ rd'.n = rd.n
      /\ rd'.id = rd.id
  <2>1. rd \in ReadType
    BY DEF ReadOK
  <2>2. QED BY <2>1, <1>3, <1>8 DEF ReadType
<1>10. /\ h.current_file_pos + n <= h.file_size
       /\ h.current_file_pos + n = rd.before.current_file_pos + Len(rd'.got)
       /\ Len(rd'.got) <= rd.actual
       /\ h.file_size = rd.before.file_size
  <2>1. /\ h.file_size = rd.before.file_size
        /\ h.current_file_pos = rd.before.current_file_pos + Len(rd.got)
        /\ rd.actual <= rd.before.file_size - rd.before.current_file_pos
    BY <1>1 DEF ReadOK, Idle, Left, h
  <2>2. /\ rd.before.file_size \in Nat /\ rd.before.current_file_pos \in Nat
        /\ Len(rd.got) \in Nat /\ rd.actual \in Nat
    BY ReadFields, HandleFields
  <2>3. Len(rd'.got) = Len(rd.got) + n
    BY <1>8, <1>9
  <2>4. QED BY <2>1, <2>2, <2>3, <1>2
<1>11. /\ handles' = [handles EXCEPT ![rd.id] = handles'[rd.id]]
       /\ handles'[rd.id] = [h EXCEPT !.current_file_pos = @ + n, !.current_offset = @ + n]
  BY <1>4, <1>5 DEF h
<1>12. /\ HandleOK(handles'[rd.id])
       /\ handles'[rd.id].file_size = h.file_size
       /\ handles'[rd.id].current_file_pos = h.current_file_pos + n
  <2>1. /\ h.current_file_pos \in Nat /\ h.current_offset \in Nat
        /\ h.file_size \in Nat /\ h.file_size < WORD
        /\ h.current_offset <= h.current_file_pos
    BY <1>5, HandleFields DEF HandleOK
  <2>2. h.current_file_pos + n \in Words /\ h.current_offset + n \in Words
    <3>1. /\ h.current_file_pos + n \in Nat /\ h.current_offset + n \in Nat
          /\ h.current_file_pos + n < WORD /\ h.current_offset + n < WORD
      BY <2>1, <1>2, <1>10, VolumeAssumption
    <3>2. QED BY <3>1, WordsAre
  <2>3. /\ handles'[rd.id] \in Handle
        /\ handles'[rd.id].file_size = h.file_size
        /\ handles'[rd.id].current_file_pos = h.current_file_pos + n
        /\ handles'[rd.id].current_offset = h.current_offset + n
    BY <2>2, <1>5, <1>11 DEF Handle
  <2>4. QED BY <2>1, <2>3, <1>2, <1>10 DEF HandleOK
<1>13. HandlesOK'
  BY <1>5, <1>11, <1>12 DEF HandlesOK, HandleOK
<1>14. ReadOK'
  BY <1>1, <1>9, <1>10, <1>12 DEF ReadOK, Left, Idle
<1>15. QED BY <1>1, <1>13, <1>14 DEF VolumeOK

LEMMA ClusterStep == ASSUME Inv, NextCluster PROVE Inv'
<1> USE DEF Inv
<1> DEFINE h == handles[rd.id]
           res == getNextCluster(vol, medium, h.current_cluster)
<1>1. rd.phase = "fat" /\ UNCHANGED <<medium, booted, vol>>
  BY DEF NextCluster
<1>2. CASE res = "SUCCESS"
  <2>1. /\ handles' = [handles EXCEPT ![rd.id].current_cluster = Entry(medium, h.current_cluster),
                                      ![rd.id].current_offset = 0]
        /\ rd' = [rd EXCEPT !.phase = "loop"]
    BY <1>2 DEF NextCluster
  <2>2. rd.id \in Ids /\ h \in Handle /\ HandleOK(h) /\ handles \in [Ids -> Handle]
    BY ReadFields DEF HandlesOK
  <2>3. Entry(medium, h.current_cluster) \in Words
    <3>1. /\ vol = Mounted(medium) /\ medium \in Media /\ Partitioned(medium)
          /\ vol.is_initialized
      BY <1>1 DEF ReadOK, Idle, VolumeOK
    <3>2. InRange(vol, h.current_cluster)
      BY <1>2, <3>1 DEF getNextCluster
    <3>3. h.current_cluster \in Nat
      BY <2>2, HandleFields, WordsAre
    <3>4. QED BY <3>1, <3>2, <3>3, EntryWord
  <2>4. /\ handles' = [handles EXCEPT ![rd.id] = handles'[rd.id]]
        /\ handles'[rd.id] = [h EXCEPT !.current_cluster = Entry(medium, h.current_cluster),
                                       !.current_offset = 0]
    BY <2>1, <2>2
  <2> HIDE DEF h, res
  <2>5. /\ handles'[rd.id] \in Handle
        /\ handles'[rd.id].file_size = h.file_size
        /\ handles'[rd.id].current_file_pos = h.current_file_pos
        /\ handles'[rd.id].current_offset = 0
    <3>1. 0 \in Words
      BY WordsAre
    <3>2. QED BY <2>2, <2>3, <2>4, <3>1 DEF Handle
  <2>6. HandlesOK'
    <3>1. HandleOK(handles'[rd.id])
      BY <2>2, <2>5, HandleFields DEF HandleOK
    <3>2. QED BY <2>2, <2>4, <3>1 DEF HandlesOK, HandleOK
  <2>7. /\ rd' \in ReadType /\ rd'.phase = "loop" /\ rd'.before = rd.before
        /\ rd'.got = rd.got /\ rd'.actual = rd.actual /\ rd'.n = rd.n /\ rd'.id = rd.id
    <3>1. rd \in ReadType
      BY DEF ReadOK
    <3>2. QED BY <3>1, <2>1 DEF ReadType
  <2>8. ReadOK'
    BY <1>1, <2>5, <2>7 DEF ReadOK, Left, Idle, h
  <2>9. QED BY <1>1, <2>6, <2>8 DEF VolumeOK
<1>3. CASE res # "SUCCESS"
  <2>1. PICK ok \in BOOLEAN : Return(ok)
    BY <1>3 DEF NextCluster
  <2>2. UNCHANGED handles
    BY <1>3 DEF NextCluster
  <2>3. QED BY <1>1, <2>1, <2>2, ReturnStep
<1>4. QED BY <1>2, <1>3

LEMMA InvNext == Inv /\ [Next]_vars => Inv'
<1> SUFFICES ASSUME Inv, [Next]_vars PROVE Inv'
  OBVIOUS
<1>1. CASE fat32_init
  BY <1>1, InitStep
<1>2. CASE \E f \in medium.files : fat32_open(f)
  BY <1>2, OpenStep
<1>3. CASE \E i \in Ids : fat32_close(i)
  BY <1>3, CloseStep
<1>4. CASE \E i \in Ids, n \in ReadSizes : fat32_read(i, n)
  BY <1>4, ReadStep, FileAssumption
<1>5. CASE \E i \in Ids : fat32_get_size(i) < WORD \div 2 /\ fat32_read(i, fat32_get_size(i))
  <2>1. PICK i \in Ids : fat32_get_size(i) < WORD \div 2 /\ fat32_read(i, fat32_get_size(i))
    BY <1>5
  <2>2. fat32_get_size(i) \in Nat
    BY HandleFields DEF fat32_get_size, Inv, HandlesOK
  <2>3. QED BY <2>1, <2>2, ReadStep
<1>6. CASE TransferFails
  BY <1>6, ReturnStep DEF TransferFails
<1>7. CASE ReadSector
  BY <1>7, SectorStep
<1>8. CASE NextCluster
  BY <1>8, ClusterStep
<1>9. CASE ReturnTrue
  BY <1>9, ReturnStep DEF ReturnTrue
<1>10. CASE UNCHANGED vars
  BY <1>10 DEF vars, Inv, VolumeOK, HandlesOK, HandleOK, Handle, ReadOK, ReadType, Left, Idle
<1>11. QED BY <1>1, <1>2, <1>3, <1>4, <1>5, <1>6, <1>7, <1>8, <1>9, <1>10 DEF Next, Step

\* The invariant holds whatever is opened, read and closed, and fails.
LEMMA InvAlways == Spec => []Inv
  BY InvInit, InvNext, PTL DEF Spec

----------------------------------------------------------------------------
(***************************************************************************)
(* What follows from the invariant.                                        *)
(***************************************************************************)

\* Every field of a handle and of a read keeps the range of its C type: the
\* sums of fat32_read in 32 bits never wrap.
THEOREM TypeCorrect == Spec => []TypeOK
<1>1. Inv => TypeOK
  <2> SUFFICES ASSUME Inv PROVE TypeOK
    OBVIOUS
  <2>1. medium \in Media /\ booted \in BOOLEAN /\ vol.is_initialized \in BOOLEAN
    BY DEF Inv, VolumeOK
  <2>2. handles \in [Ids -> Handle]
    BY DEF Inv, HandlesOK
  <2>3. /\ rd.phase \in {"idle", "loop", "fat"} /\ rd.id \in Ids
        /\ rd.actual \in Nat /\ rd.actual < WORD
        /\ Len(rd.got) \in Nat /\ Len(rd.got) <= rd.actual
    BY ReadFields DEF Inv, ReadOK
  <2>4. rd.actual \in Words /\ Len(rd.got) \in Words
    <3>1. Len(rd.got) < WORD
      BY <2>3, VolumeAssumption
    <3>2. QED BY <2>3, <3>1, WordsAre
  <2>5. QED BY <2>1, <2>2, <2>3, <2>4 DEF TypeOK, Handle
<1>2. QED BY <1>1, InvAlways, PTL

\* No position passes its file's end and no read overruns the caller's buffer,
\* for every file of less than 2^31 bytes and every request.
THEOREM BoundsKept == Spec => []WithinBounds
<1>1. Inv => WithinBounds
  <2> SUFFICES ASSUME Inv PROVE WithinBounds
    OBVIOUS
  <2>1. \A i \in Ids : handles[i].current_file_pos <= handles[i].file_size
    BY DEF Inv, HandlesOK, HandleOK
  <2>2. /\ Len(rd.got) \in Nat /\ rd.actual \in Nat /\ rd.n \in Nat
        /\ Len(rd.got) <= rd.actual
        /\ Left < WORD \div 2 => rd.actual <= rd.n
    BY ReadFields DEF Inv, ReadOK
  <2>3. Left < WORD \div 2 => Len(rd.got) <= rd.n
    BY <2>2
  <2>4. QED BY <2>1, <2>3 DEF WithinBounds, Left
<1>2. QED BY <1>1, InvAlways, PTL

\* Of every plausible volume, every cluster that getNextCluster accepts lies
\* between the FATs and the partition's end.
THEOREM ClustersKept == Spec => []ClustersInside
<1>1. Inv => ClustersInside
  <2> SUFFICES ASSUME Inv, vol.is_initialized, Plausible(vol, medium.bpb),
                      NEW c \in 2 .. (vol.total_clusters + 1)
               PROVE  /\ fatClusterToLba(vol, c) >= vol.first_fat_lba
                                     + medium.bpb.num_fats * medium.bpb.fat_size_sectors
                      /\ fatClusterToLba(vol, c) + vol.sectors_per_cluster
                           <= vol.volume_start_lba + vol.total_sectors
    BY DEF ClustersInside
  <2>1. medium \in Media /\ Partitioned(medium) /\ vol = Mounted(medium)
    BY DEF Inv, VolumeOK
  <2>2. QED BY <2>1, ClusterPlace, MountedTypes, WordsAre
<1>2. QED BY <1>1, InvAlways, PTL

----------------------------------------------------------------------------
(***************************************************************************)
(* Bytes from outside the data area.                                       *)
(***************************************************************************)

\* What is put behind a sequence adds at most its length to the strays, and
\* none when it lies inside.
LEMMA OutsideJoined ==
  ASSUME NEW s \in Seq(Nat \X Nat), NEW t \in Seq(Nat \X Nat), NEW area
  PROVE  /\ Cardinality(Outside(s, area)) \in Nat
         /\ Cardinality(Outside(s \o t, area)) \in Nat
         /\ Cardinality(Outside(s \o t, area)) <= Cardinality(Outside(s, area)) + Len(t)
         /\ (\A j \in 1 .. Len(t) : t[j][1] \in area) =>
              Cardinality(Outside(s \o t, area)) <= Cardinality(Outside(s, area))
<1> DEFINE A == Outside(s, area)
           B == Outside(s \o t, area)
           T == (Len(s) + 1) .. (Len(s) + Len(t))
<1>1. /\ Len(s) \in Nat /\ Len(t) \in Nat
      /\ DOMAIN s = 1 .. Len(s) /\ DOMAIN (s \o t) = 1 .. (Len(s) + Len(t))
  OBVIOUS
<1>2. \A j \in 1 .. (Len(s) + Len(t)) :
         (s \o t)[j] = IF j <= Len(s) THEN s[j] ELSE t[j - Len(s)]
  OBVIOUS
<1>3. /\ IsFiniteSet(1 .. Len(s)) /\ IsFiniteSet(T) /\ Cardinality(T) = Len(t)
  <2>1. /\ 1 \in Int /\ Len(s) \in Int /\ Len(s) + 1 \in Int /\ Len(s) + Len(t) \in Int
    BY <1>1
  <2>2. IsFiniteSet(1 .. Len(s)) /\ IsFiniteSet(T)
    BY <2>1, FS_Interval
  <2>3. Cardinality(T) = IF Len(s) + 1 > Len(s) + Len(t) THEN 0
                         ELSE (Len(s) + Len(t)) - (Len(s) + 1) + 1
    BY <2>1, FS_Interval
  <2>4. QED BY <2>2, <2>3, <1>1
<1>4. A \subseteq 1 .. Len(s)
  BY <1>1 DEF Outside
<1>5. IsFiniteSet(A) /\ Cardinality(A) \in Nat
  BY <1>3, <1>4, FS_Subset, FS_CardinalityType
<1>6. B \subseteq A \cup T
  BY <1>1, <1>2 DEF Outside
<1>7. IsFiniteSet(A \cup T) /\ Cardinality(A \cup T) <= Cardinality(A) + Len(t)
  <2>1. IsFiniteSet(A \cap T) /\ Cardinality(A \cap T) \in Nat
    BY <1>5, FS_Intersection, FS_CardinalityType
  <2>2. /\ IsFiniteSet(A \cup T)
        /\ Cardinality(A \cup T) = Cardinality(A) + Cardinality(T) - Cardinality(A \cap T)
    BY <1>3, <1>5, FS_Union
  <2>3. QED BY <2>1, <2>2, <1>1, <1>3, <1>5
<1>8. IsFiniteSet(B) /\ Cardinality(B) \in Nat /\ Cardinality(B) <= Cardinality(A \cup T)
  BY <1>6, <1>7, FS_Subset, FS_CardinalityType
<1>9. Cardinality(A \cup T) \in Nat
  BY <1>7, FS_CardinalityType
<1>10. ASSUME \A j \in 1 .. Len(t) : t[j][1] \in area
       PROVE  Cardinality(B) <= Cardinality(A)
  <2>1. B \subseteq A
    BY <1>10, <1>1, <1>2 DEF Outside
  <2>2. QED BY <2>1, <1>5, FS_Subset
<1>11. QED BY <1>1, <1>5, <1>7, <1>8, <1>9, <1>10

\* An offset inside a cluster: the rest of its sector is inside, and so is the
\* sector in a cluster of a plausible volume.
LEMMA InsideCluster ==
  ASSUME NEW bps \in Nat \ {0}, NEW spc \in Nat \ {0}, NEW o \in Nat, o < spc * bps
  PROVE  /\ o \div bps \in Nat /\ o \div bps < spc
         /\ o + (bps - (o % bps)) <= spc * bps
<1> DEFINE q == o \div bps
           r == o % bps
<1>1. q \in Nat /\ r \in Nat /\ r < bps /\ q * bps \in Nat /\ o = q * bps + r
  BY DivMod, ModLess
<1> HIDE DEF q, r
<1>2. q < spc
  <2>1. SUFFICES ASSUME spc <= q PROVE FALSE
    BY <1>1
  <2>2. spc * bps <= q * bps /\ spc * bps \in Nat
    BY <2>1, <1>1, MulMono
  <2>3. QED BY <2>2, <1>1
<1>3. (q + 1) * bps = q * bps + bps /\ (q + 1) * bps <= spc * bps /\ spc * bps \in Nat
  BY <1>1, <1>2, MulMono
<1>4. QED BY <1>1, <1>2, <1>3 DEF q, r

LEMMA SectorInside ==
  ASSUME VolumeOK, vol.is_initialized, Plausible(vol, medium.bpb),
         NEW c \in Nat, InRange(vol, c), NEW o \in Nat, o < vol.bytes_per_cluster
  PROVE  LET s == fatClusterToLba(vol, c) + o \div vol.bytes_per_sector
         IN  s % WORD = s /\ s \in DataArea
<1> DEFINE lba == fatClusterToLba(vol, c)
           q == o \div vol.bytes_per_sector
           spc == vol.sectors_per_cluster
           end == vol.volume_start_lba + vol.total_sectors
<1>1. medium \in Media /\ Partitioned(medium) /\ vol = Mounted(medium)
  BY DEF VolumeOK
<1>2. /\ vol.bytes_per_sector \in Nat \ {0} /\ spc \in Nat \ {0}
      /\ vol.bytes_per_cluster = spc * vol.bytes_per_sector
  BY <1>1, MountedTypes, Half
<1>3. vol.volume_start_lba \in Nat /\ vol.total_sectors \in Nat /\ vol.data_start_lba \in Nat
  BY <1>1, MountedTypes, WordsAre
<1>4. /\ lba \in Nat /\ vol.data_start_lba <= lba /\ lba + spc <= end
  BY <1>1, EntryWord, ClusterPlace
<1>5. q \in Nat /\ q < spc
  BY <1>2, InsideCluster
<1>6. end < WORD
  BY DEF Plausible
<1> HIDE DEF lba, q, spc
<1>7. lba + q \in Nat /\ lba + q < WORD /\ lba + q <= end - 1 /\ vol.data_start_lba <= lba + q
  BY <1>2, <1>3, <1>4, <1>5, <1>6, VolumeAssumption, SMTT(30)
<1>8. (lba + q) % WORD = lba + q
  BY <1>7, ModSmall, VolumeAssumption
<1>9. QED BY <1>3, <1>7, <1>8 DEF DataArea, lba, q

LEMMA NoStrays == ASSUME NEW area PROVE Cardinality(Outside(<<>>, area)) = 0
<1>1. Outside(<<>>, area) = {}
  BY DEF Outside
<1>2. QED BY <1>1, FS_EmptySet

\* The numbers that bound the strays.
LEMMA Sizes ==
  ASSUME VolumeOK, vol.is_initialized
  PROVE  /\ vol.bytes_per_sector \in Nat \ {0} /\ vol.bytes_per_cluster \in Nat \ {0}
         /\ vol.sectors_per_cluster \in Nat \ {0}
         /\ vol.bytes_per_cluster = vol.sectors_per_cluster * vol.bytes_per_sector
  BY MountedTypes, Half DEF VolumeOK

LEMMA NothingYet == VolumeOK /\ rd.got = <<>> /\ rd.phase # "fat" => StraysSoFar
<1> SUFFICES ASSUME VolumeOK, rd.got = <<>>, rd.phase # "fat", vol.is_initialized
             PROVE  StraysBound
  BY DEF StraysSoFar
<1>1. Strays = 0
  BY NoStrays DEF Strays
<1>2. QED BY <1>1, Sizes DEF StraysBound

\* Between two calls only the last conjunct says something.
LEMMA StraysIdle ==
  ASSUME Inv, StraysSoFar, UNCHANGED <<medium, vol>>,
         rd'.phase = "idle", rd'.got = rd.got, rd'.before = rd.before
  PROVE  StraysSoFar'
<1>1. Strays' = Strays /\ Left' = Left
  BY DEF Strays, DataArea, Left
<1>2. QED BY <1>1 DEF StraysSoFar, StraysBound

LEMMA StraysSector == ASSUME Inv, StraysSoFar, ReadSector PROVE StraysSoFar'
<1> USE DEF Inv
<1> DEFINE h == handles[rd.id]
           bps == vol.bytes_per_sector
           bpc == vol.bytes_per_cluster
           skip == h.current_offset % bps
           lba == (fatClusterToLba(vol, h.current_cluster) + h.current_offset \div bps) % WORD
           n == min(rd.actual - Len(rd.got), LeftInSector(skip))
           o == h.current_offset
<1>1. /\ rd.phase = "loop" /\ Len(rd.got) < rd.actual /\ UNCHANGED <<medium, booted, vol>>
      /\ rd' = [rd EXCEPT !.got = @ \o Piece(lba, skip, n),
                          !.phase = IF o + n >= bpc THEN "fat" ELSE "loop"]
      /\ handles' = [handles EXCEPT ![rd.id].current_file_pos = @ + n,
                                    ![rd.id].current_offset = @ + n]
  BY DEF ReadSector
<1>2. vol.is_initialized
  BY <1>1 DEF ReadOK, Idle
<1> SUFFICES ASSUME Plausible(vol, medium.bpb), Left < WORD \div 2 PROVE StraysBound'
  <2>1. rd'.before = rd.before
    BY <1>1 DEF ReadOK, ReadType
  <2>2. QED BY <2>1, <1>1, <1>2 DEF StraysSoFar, Left
<1>3. /\ skip \in Nat /\ skip < bps /\ n \in Nat /\ n > 0 /\ n <= bps - skip
  BY <1>1, Transfer
<1>4. StraysBound
  BY <1>2 DEF StraysSoFar
<1>5. /\ bps \in Nat \ {0} /\ bpc \in Nat \ {0}
      /\ bpc = vol.sectors_per_cluster * bps /\ vol.sectors_per_cluster \in Nat \ {0}
  BY <1>2, Sizes
<1>6. rd.id \in Ids /\ h \in Handle /\ handles \in [Ids -> Handle] /\ rd \in ReadType
  BY ReadFields DEF HandlesOK, ReadOK
<1>7. o \in Nat /\ h.current_cluster \in Nat
  BY <1>6, HandleFields, WordsAre
<1>8. o < bpc => o + n <= bpc
  <2> SUFFICES ASSUME o < bpc PROVE o + n <= bpc
    OBVIOUS
  <2>1. o + (bps - skip) <= bpc
    BY <1>5, <1>7, InsideCluster
  <2>2. QED BY <2>1, <1>3, <1>5, <1>7
<1>9. /\ rd'.id = rd.id /\ rd'.got = rd.got \o Piece(lba, skip, n)
      /\ rd'.phase = IF o + n >= bpc THEN "fat" ELSE "loop"
      /\ handles'[rd.id].current_offset = o + n
      /\ handles'[rd.id].current_cluster = h.current_cluster
  BY <1>1, <1>6 DEF ReadType, Handle
<1> DEFINE valid == InRange(vol, h.current_cluster)
           piece == Piece(lba, skip, n)
<1>10. piece \in Seq(Nat \X Nat) /\ Len(piece) = n /\ \A j \in 1 .. n : piece[j][1] = lba
  <2>1. lba \in Nat
    BY <1>2, <1>7, SectorNat
  <2>2. bps < UINT16
    BY <1>2, SectorShort
  <2> HIDE DEF lba, skip, n, bps
  <2>3. n < UINT16
    BY <2>2, <1>3, <1>5, FileAssumption
  <2>4. skip \in Nat /\ n \in Nat
    BY <1>3, <1>5
  <2>5. /\ piece \in Seq(Nat \X Nat) /\ Len(piece) = n
        /\ \A j \in 1 .. n : piece[j] = <<lba, skip + j - 1>>
    BY <2>1, <2>3, <2>4, PieceIs
  <2>6. QED BY <2>5
<1>11. valid /\ o < bpc => lba \in DataArea
  BY <1>2, <1>7, SectorInside
<1> HIDE DEF piece, lba, n, skip
<1>12. /\ Strays \in Nat /\ Strays' \in Nat /\ Strays' <= Strays + n
       /\ valid /\ o < bpc => Strays' <= Strays
  <2>1. rd.got \in Seq(Nat \X Nat)
    BY ReadFields
  <2>2. Strays' = Cardinality(Outside(rd.got \o piece, DataArea))
    BY <1>1, <1>9 DEF Strays, DataArea, piece
  <2>3. QED BY <2>1, <2>2, <1>10, <1>11, OutsideJoined DEF Strays
<1> SUFFICES /\ rd'.phase = "loop" =>
                  /\ o + n < bpc
                  /\ Strays' <= bps + (IF valid THEN 0 ELSE o + n)
             /\ rd'.phase = "fat" => Strays' <= bps + (IF valid THEN 0 ELSE bpc)
             /\ Strays' <= bps + bpc
  BY <1>1, <1>9 DEF StraysBound
<1>13. /\ rd'.phase = "loop" => o + n < bpc
       /\ rd'.phase = "fat" => o + n >= bpc
       /\ rd'.phase \in {"loop", "fat"}
  BY <1>3, <1>5, <1>7, <1>9
<1> HIDE DEF valid, o, bps, bpc
<1>14. o < bpc => Strays' <= bps + (IF valid THEN 0 ELSE o + n)
  <2>1. CASE rd.got = <<>>
    <3>1. Strays = 0
      BY <2>1, NoStrays DEF Strays
    <3>2. QED BY <3>1, <1>3, <1>5, <1>7, <1>12
  <2>2. CASE rd.got # <<>>
    <3>1. o < bpc /\ Strays <= bps + (IF valid THEN 0 ELSE o)
      BY <1>1, <1>4, <2>2 DEF StraysBound, o, bpc, bps, valid
    <3>2. QED BY <3>1, <1>3, <1>5, <1>7, <1>12
  <2>3. QED BY <2>1, <2>2
<1>15. ~(o < bpc) => Strays' <= bps
  <2> SUFFICES ASSUME ~(o < bpc) PROVE Strays' <= bps
    OBVIOUS
  <2>1. rd.got = <<>>
    BY <1>1, <1>4 DEF StraysBound, o, bpc
  <2>2. Strays = 0
    BY <2>1, NoStrays DEF Strays
  <2>3. QED BY <2>2, <1>3, <1>5, <1>12
<1>16. CASE o < bpc
  BY <1>16, <1>3, <1>5, <1>7, <1>8, <1>12, <1>13, <1>14
<1>17. CASE ~(o < bpc)
  BY <1>17, <1>3, <1>5, <1>7, <1>12, <1>13, <1>15
<1>18. QED BY <1>16, <1>17

LEMMA StraysCluster == ASSUME Inv, StraysSoFar, NextCluster PROVE StraysSoFar'
<1> USE DEF Inv
<1> DEFINE h == handles[rd.id]
           res == getNextCluster(vol, medium, h.current_cluster)
<1>1. rd.phase = "fat" /\ UNCHANGED <<medium, booted, vol>>
  BY DEF NextCluster
<1>2. rd \in ReadType /\ rd.id \in Ids /\ handles \in [Ids -> Handle]
  BY ReadFields DEF ReadOK, HandlesOK
<1>3. CASE res = "SUCCESS"
  <2>1. vol.is_initialized
    BY <1>1 DEF ReadOK, Idle
  <2>2. InRange(vol, h.current_cluster)
    BY <1>3, <2>1 DEF getNextCluster
  <2>3. /\ rd'.phase = "loop" /\ rd'.got = rd.got /\ rd'.before = rd.before /\ rd'.id = rd.id
    BY <1>2, <1>3 DEF NextCluster, ReadType
  <2>4. handles'[rd.id].current_offset = 0
    BY <1>2, <1>3 DEF NextCluster, Handle
  <2>5. Strays' = Strays /\ Left' = Left
    BY <1>1, <2>3 DEF Strays, DataArea, Left
  <2>6. SUFFICES ASSUME StraysBound PROVE StraysBound'
    BY <1>1, <2>1, <2>5 DEF StraysSoFar
  <2>7. Strays <= vol.bytes_per_sector
    BY <1>1, <2>1, <2>2, <2>6, Sizes DEF StraysBound
  <2>8. Strays \in Nat
    BY ReadFields, Joined, OutsideJoined DEF Strays
  <2>9. QED BY <1>1, <2>1, <2>3, <2>4, <2>5, <2>7, <2>8, Sizes DEF StraysBound
<1>4. CASE res # "SUCCESS"
  <2>1. rd'.phase = "idle" /\ rd'.got = rd.got /\ rd'.before = rd.before
    BY <1>2, <1>4 DEF NextCluster, Return, ReadType
  <2>2. QED BY <1>1, <2>1, StraysIdle
<1>5. QED BY <1>3, <1>4

LEMMA StraysNext == Inv /\ StraysSoFar /\ [Next]_vars => StraysSoFar'
<1> SUFFICES ASSUME Inv, StraysSoFar, [Next]_vars PROVE StraysSoFar'
  OBVIOUS
<1>1. rd \in ReadType /\ VolumeOK'
  BY InvNext DEF Inv, ReadOK
<1> DEFINE Fresh == VolumeOK /\ rd.got = <<>> /\ rd.phase # "fat"
<1>0. (Fresh => StraysSoFar)'
  BY NothingYet, PTL
<1>2. CASE fat32_init
  <2>1. ~vol.is_initialized /\ Idle /\ UNCHANGED rd
    BY <1>2 DEF fat32_init, MountFails, MountWorks, Inv, VolumeOK
  <2>2. rd'.got = <<>> /\ rd'.phase = "idle"
    BY <2>1 DEF StraysSoFar, Idle
  <2>3. QED BY <2>2, <1>0, <1>1
<1>3. CASE \/ \E f \in medium.files : fat32_open(f)
           \/ \E i \in Ids : fat32_close(i)
  BY <1>3, StraysIdle DEF fat32_open, fat32_close, Idle
<1>4. CASE \E i \in Ids, n \in Nat : fat32_read(i, n)
  <2>1. rd'.got = <<>> /\ rd'.phase = "loop"
    BY <1>4 DEF fat32_read
  <2>2. QED BY <2>1, <1>0, <1>1
<1>5. CASE TransferFails \/ ReturnTrue
  <2>1. UNCHANGED <<medium, vol>>
    BY <1>5 DEF TransferFails, ReturnTrue
  <2>2. rd'.phase = "idle" /\ rd'.got = rd.got /\ rd'.before = rd.before
    BY <1>1, <1>5 DEF TransferFails, ReturnTrue, Return, ReadType
  <2>3. QED BY <2>1, <2>2, StraysIdle
<1>6. CASE ReadSector
  BY <1>6, StraysSector
<1>7. CASE NextCluster
  BY <1>7, StraysCluster
<1>8. CASE UNCHANGED vars
  BY <1>8 DEF vars, StraysSoFar, StraysBound, Strays, DataArea, Left
<1>9. \A i \in Ids : fat32_get_size(i) \in Nat
  BY HandleFields DEF fat32_get_size, Inv, HandlesOK
<1>10. QED BY <1>2, <1>3, <1>4, <1>5, <1>6, <1>7, <1>8, <1>9, FileAssumption DEF Next, Step

\* Whatever FAT and directory entries the medium holds, one read delivers at
\* most a sector and a cluster of bytes from outside the data area.
THEOREM StraysAreFew == Spec => []StraysLittle
<1>1. Init => StraysSoFar
  <2> SUFFICES ASSUME Init PROVE StraysSoFar
    OBVIOUS
  <2>1. rd.got = <<>> /\ rd.phase # "fat"
    BY DEF Init, NoRead
  <2>2. QED BY <2>1, InvInit, NothingYet DEF Inv
<1>2. StraysSoFar => StraysLittle
  BY DEF StraysSoFar, StraysBound, StraysLittle, Strays, Outside, Left
<1>3. QED BY <1>1, <1>2, InvAlways, StraysNext, PTL DEF Spec

----------------------------------------------------------------------------
(***************************************************************************)
(* Positions, clusters and sectors.                                        *)
(***************************************************************************)

LEMMA Quotient == ASSUME NEW s \in Nat \ {0}, NEW x \in Nat
                  PROVE  x \div s \in Nat /\ (x \div s) * s \in Nat /\ (x \div s) * s <= x
  OBVIOUS

\* Up to the end of a stretch of s bytes, the quotient stays and the rest counts.
LEMMA Within ==
  ASSUME NEW s \in Nat \ {0}, NEW p \in Nat, NEW j \in Nat, (p % s) + j < s
  PROVE  (p + j) \div s = p \div s /\ (p + j) % s = (p % s) + j
<1> DEFINE x == p \div s
           y == p % s
<1>1. x \in Nat /\ y \in Nat /\ p = x * s + y /\ x * s \in Nat /\ y + j < s
  BY DivMod, ModLess
<1> SUFFICES (p + j) \div s = x /\ (p + j) % s = y + j
  OBVIOUS
<1> HIDE DEF x, y
<1>2. y + j \in Nat /\ p + j = x * s + (y + j)
  BY <1>1
<1>3. (x * s + (y + j)) \div s = x /\ (x * s + (y + j)) % s = y + j
  BY <1>1, <1>2, Divided
<1>4. QED BY <1>2, <1>3

\* The number of clusters of a file holds all of it.
LEMMA RoundedUp ==
  ASSUME NEW s \in Nat \ {0}, NEW size \in Nat, NEW k \in Nat,
         (size + s - 1) \div s <= k
  PROVE  size <= k * s
<1> DEFINE t == size + s - 1
           n == t \div s
<1>1. t \in Nat
  OBVIOUS
<1>2. n \in Nat /\ n * s \in Nat /\ t % s < s /\ t = n * s + (t % s) /\ t % s \in Nat
  BY <1>1, DivMod, ModLess
<1> HIDE DEF n
<1>3. n * s <= k * s /\ k * s \in Nat
  BY <1>2, MulMono DEF n
<1> DEFINE r == t % s
<1>4. r \in Nat /\ r < s /\ size + s - 1 = n * s + r
  BY <1>2
<1> HIDE DEF r
<1>5. QED BY <1>2, <1>3, <1>4

----------------------------------------------------------------------------
(***************************************************************************)
(* The read in progress.                                                   *)
(***************************************************************************)

\* Reads of the file the read began on are sure.
Sure(h) == Sound(vol, medium, h.cluster_start, h.file_size) /\ Aligned(vol, medium, h)

\* The handle stands at the end of cluster number k of its chain.
UsedUp(h, k) ==
  /\ k \in Nat
  /\ h.current_offset = vol.bytes_per_cluster
  /\ h.current_file_pos = (k + 1) * vol.bytes_per_cluster
  /\ h.current_cluster = Chain(vol, medium, h.cluster_start)[k]

Progress ==
  /\ ~vol.is_initialized => rd = NoRead
  /\ rd.phase = "fat" => Len(rd.got) > 0
  /\ ~Idle => /\ ~handles[rd.id].is_free
              /\ handles[rd.id].cluster_start = rd.before.cluster_start
              /\ rd.n < WORD \div 2
              /\ rd.actual = min(rd.n, Left)
  /\ ~Idle /\ Sure(rd.before) =>
       /\ Exact
       /\ rd.phase = "loop" => Aligned(vol, medium, handles[rd.id])
       /\ rd.phase = "fat" => \E k \in Nat : UsedUp(handles[rd.id], k)

\* The byte j behind a position that its handle is aligned with, up to the end
\* of the sector.
LEMMA ByteAt ==
  ASSUME VolumeOK, vol.is_initialized, NEW start, NEW p \in Nat, NEW j \in Nat,
         ((p % vol.bytes_per_cluster) % vol.bytes_per_sector) + j < vol.bytes_per_sector
  PROVE  LET o == p % vol.bytes_per_cluster
         IN  ByteOf(vol, medium, start, p + j)
               = <<fatClusterToLba(vol, Chain(vol, medium, start)[p \div vol.bytes_per_cluster])
                     + o \div vol.bytes_per_sector,
                   (o % vol.bytes_per_sector) + j>>
<1> DEFINE bps == vol.bytes_per_sector
           bpc == vol.bytes_per_cluster
           o == p % bpc
<1>1. /\ bps \in Nat \ {0} /\ bpc \in Nat \ {0} /\ vol.sectors_per_cluster \in Nat \ {0}
      /\ bpc = vol.sectors_per_cluster * bps
  BY Sizes
<1>2. o \in Nat /\ o < bpc
  BY <1>1, ModLess
<1>3. (o % bps) \in Nat /\ (o % bps) + j < bps
  BY <1>1, <1>2, ModLess
<1>4. o + (bps - (o % bps)) <= bpc
  BY <1>1, <1>2, InsideCluster, ZenonT(60)
<1>5. o + j < bpc
  <2> DEFINE r == o % bps
  <2>1. r \in Nat /\ r + j < bps /\ o + (bps - r) <= bpc
    BY <1>3, <1>4
  <2> HIDE DEF o, r
  <2>2. QED BY <2>1, <1>1, <1>2
<1>6. (p + j) \div bpc = p \div bpc /\ (p + j) % bpc = o + j
  BY <1>1, <1>5, Within
<1>7. (o + j) \div bps = o \div bps /\ (o + j) % bps = (o % bps) + j
  BY <1>1, <1>2, <1>3, Within
<1>8. QED BY <1>6, <1>7 DEF ByteOf

LEMMA NextInRange ==
  ASSUME NEW v, NEW m, NEW c, v.is_initialized,
         getNextCluster(v, m, c) \in {"SUCCESS", "END_OF_CHAIN"}
  PROVE  InRange(v, c)
<1> SUFFICES ASSUME ~InRange(v, c) PROVE FALSE
  OBVIOUS
<1>1. getNextCluster(v, m, c) = "INVALID_CLUSTER"
  BY DEF getNextCluster
<1>2. QED BY <1>1

\* The clusters of a sound file that the position has not passed are in range.
LEMMA SoundCluster ==
  ASSUME VolumeOK, vol.is_initialized, NEW start \in Words, NEW size \in Nat,
         Sound(vol, medium, start, size), NEW p \in Nat, p < size
  PROVE  LET c == Chain(vol, medium, start)[p \div vol.bytes_per_cluster]
         IN  c \in Nat /\ InRange(vol, c)
<1> DEFINE bpc == vol.bytes_per_cluster
           k == p \div bpc
           n == (size + bpc - 1) \div bpc
           f == Chain(vol, medium, start)
<1>1. bpc \in Nat \ {0}
  BY Sizes
<1>2. k \in Nat /\ k * bpc \in Nat /\ k * bpc <= p
  BY <1>1, Quotient
<1>3. n \in Nat
  <2>1. size + bpc - 1 \in Nat
    BY <1>1
  <2>2. QED BY <1>1, <2>1, Quotient
<1>4. k < n
  <2> SUFFICES ASSUME n <= k PROVE FALSE
    BY <1>2, <1>3
  <2>1. size <= k * bpc
    BY <1>1, <1>2, RoundedUp
  <2>2. QED BY <2>1, <1>2
<1>5. getNextCluster(vol, medium, f[k]) \in {"SUCCESS", "END_OF_CHAIN"}
  <2>1. /\ \A i \in 0 .. (n - 2) : getNextCluster(vol, medium, f[i]) = "SUCCESS"
        /\ n > 0 => getNextCluster(vol, medium, f[n - 1]) \in {"SUCCESS", "END_OF_CHAIN"}
    BY DEF Sound
  <2> HIDE DEF k, n, f
  <2>2. k \in 0 .. (n - 2) \/ (k = n - 1 /\ n > 0)
    BY <1>2, <1>3, <1>4
  <2>3. QED BY <2>1, <2>2
<1>6. InRange(vol, f[k])
  BY <1>5, NextInRange
<1>7. f \in [Nat -> Words]
  BY ChainLinks DEF VolumeOK
<1>8. QED BY <1>2, <1>6, <1>7, WordsAre

LEMMA ProgressInit == Init => Progress
<1> SUFFICES ASSUME Init PROVE Progress
  OBVIOUS
<1>1. rd = NoRead /\ Idle
  BY DEF Init, NoRead, Idle
<1>2. rd.phase # "fat"
  BY <1>1 DEF NoRead
<1>3. QED BY <1>1, <1>2 DEF Progress

\* Between two calls nothing of it is left but the first conjunct.
LEMMA ProgressIdle ==
  ASSUME rd'.phase = "idle", vol'.is_initialized \/ rd' = NoRead
  PROVE  Progress'
  BY DEF Progress, Idle

LEMMA ProgressRead ==
  ASSUME Inv, Progress, NEW i \in Ids, NEW n \in Nat, n < WORD \div 2, fat32_read(i, n)
  PROVE  Progress'
<1> USE DEF Inv
<1> DEFINE h == handles[i]
           left == h.file_size - h.current_file_pos
<1>1. vol.is_initialized /\ UNCHANGED <<medium, booted, vol, handles>> /\ ~h.is_free
  BY DEF fat32_read
<1>2. left \in Nat /\ left < WORD
  BY HandleFields, WordsAre, SMTT(30) DEF HandlesOK, HandleOK
<1>3. left % WORD = left
  BY <1>2, WordsAre, ModSmall
<1>4. /\ rd'.phase = "loop" /\ rd'.id = i /\ rd'.n = n /\ rd'.before = h
      /\ rd'.actual = min(n, left) /\ rd'.got = <<>>
  BY <1>3 DEF fat32_read
<1>5. Exact'
  BY <1>4 DEF Exact
<1>6. Left' = left
  BY <1>4 DEF Left
<1>7. Sure(rd.before)' => Aligned(vol, medium, handles[rd.id])'
  BY <1>1, <1>4 DEF Sure
<1>8. QED BY <1>1, <1>4, <1>5, <1>6, <1>7 DEF Progress, Idle

\* What a transfer changes.
LEMMA SectorFields ==
  ASSUME Inv, ReadSector
  PROVE  LET h    == handles[rd.id]
             skip == h.current_offset % vol.bytes_per_sector
             lba  == (fatClusterToLba(vol, h.current_cluster)
                        + h.current_offset \div vol.bytes_per_sector) % WORD
             n    == min(rd.actual - Len(rd.got), LeftInSector(skip))
             g    == handles'[rd.id]
         IN  /\ rd.phase = "loop" /\ Len(rd.got) < rd.actual
             /\ UNCHANGED <<medium, booted, vol>> /\ vol.is_initialized
             /\ rd'.id = rd.id /\ rd'.n = rd.n /\ rd'.before = rd.before /\ rd'.actual = rd.actual
             /\ rd'.got = rd.got \o Piece(lba, skip, n)
             /\ rd'.phase = IF h.current_offset + n >= vol.bytes_per_cluster THEN "fat" ELSE "loop"
             /\ g.current_file_pos = h.current_file_pos + n
             /\ g.current_offset = h.current_offset + n
             /\ g.current_cluster = h.current_cluster /\ g.cluster_start = h.cluster_start
             /\ g.file_size = h.file_size /\ g.is_free = h.is_free
             /\ \A i \in Ids : i # rd.id => handles'[i] = handles[i]
<1>1. rd.id \in Ids /\ handles \in [Ids -> Handle] /\ rd \in ReadType
  BY ReadFields DEF Inv, HandlesOK, ReadOK
<1>2. rd.phase = "loop" /\ vol.is_initialized
  BY DEF ReadSector, Inv, ReadOK, Idle
<1>3. QED BY <1>1, <1>2 DEF ReadSector, ReadType, Handle

LEMMA ProgressSector == ASSUME Inv, Progress, ReadSector PROVE Progress'
<1> USE DEF Inv
<1> DEFINE h == handles[rd.id]
           g == handles'[rd.id]
           bps == vol.bytes_per_sector
           bpc == vol.bytes_per_cluster
           o == h.current_offset
           skip == o % bps
           lba == (fatClusterToLba(vol, h.current_cluster) + o \div bps) % WORD
           n == min(rd.actual - Len(rd.got), LeftInSector(skip))
           piece == Piece(lba, skip, n)
           pos == h.current_file_pos
           start == rd.before.cluster_start
           size == rd.before.file_size
           f == Chain(vol, medium, start)
<1>1. /\ rd.phase = "loop" /\ Len(rd.got) < rd.actual /\ UNCHANGED <<medium, booted, vol>>
      /\ vol.is_initialized
      /\ rd'.id = rd.id /\ rd'.n = rd.n /\ rd'.before = rd.before /\ rd'.actual = rd.actual
      /\ rd'.got = rd.got \o piece
      /\ rd'.phase = IF o + n >= bpc THEN "fat" ELSE "loop"
      /\ g.current_file_pos = pos + n /\ g.current_offset = o + n
      /\ g.current_cluster = h.current_cluster /\ g.cluster_start = h.cluster_start
      /\ g.file_size = h.file_size /\ g.is_free = h.is_free
  BY SectorFields
<1>2. /\ skip \in Nat /\ skip < bps /\ n \in Nat /\ n > 0 /\ n <= rd.actual - Len(rd.got)
      /\ Left < WORD \div 2 => n <= bps - skip
  BY <1>1, Transfer
<1>3. /\ bps \in Nat \ {0} /\ bpc \in Nat \ {0} /\ vol.sectors_per_cluster \in Nat \ {0}
      /\ bpc = vol.sectors_per_cluster * bps
  BY <1>1, Sizes
<1>4. /\ rd.id \in Ids /\ h \in Handle /\ o \in Nat /\ pos \in Nat
      /\ h.current_cluster \in Nat /\ start \in Words /\ size \in Nat
      /\ rd.before.current_file_pos \in Nat
      /\ rd.actual \in Nat /\ Len(rd.got) \in Nat
  BY ReadFields, HandleFields, WordsAre DEF HandlesOK
<1>5. /\ h.file_size = size /\ pos = rd.before.current_file_pos + Len(rd.got)
      /\ rd.actual <= Left /\ Left = size - rd.before.current_file_pos
      /\ h.cluster_start = start /\ ~h.is_free
      /\ rd.n < WORD \div 2 /\ rd.actual = min(rd.n, Left)
  BY <1>1 DEF ReadOK, Progress, Idle, Left
<1>6. lba \in Nat
  BY <1>1, <1>4, SectorNat
<1> HIDE DEF lba, skip, n
<1>7. /\ piece \in Seq(Nat \X Nat) /\ Len(piece) = n
      /\ n < UINT16 => \A j \in 1 .. n : piece[j] = <<lba, skip + j - 1>>
  BY <1>2, <1>6, PieceIs
<1> HIDE DEF piece
<1>8. rd.got \in Seq(Nat \X Nat) /\ Len(rd'.got) = Len(rd.got) + n
  <2>1. rd.got \in Seq(Nat \X Nat)
    BY ReadFields
  <2>2. Len(rd.got \o piece) = Len(rd.got) + n
    BY <2>1, <1>7, Joined
  <2>3. QED BY <2>1, <2>2, <1>1
<1>9. ~Idle' /\ Left' = Left /\ (rd'.phase = "fat" => Len(rd'.got) > 0)
  BY <1>1, <1>2, <1>4, <1>8 DEF Idle, Left
<1>10. ASSUME Sure(rd.before)'
       PROVE  /\ Exact'
              /\ rd'.phase = "loop" => Aligned(vol, medium, handles[rd.id])'
              /\ rd'.phase = "fat" => (\E k \in Nat : UsedUp(handles[rd.id], k))'
  <2>1. Sound(vol, medium, start, size) /\ Sure(rd.before)
    BY <1>1, <1>10 DEF Sure
  <2>2. Exact /\ Aligned(vol, medium, h)
    BY <2>1, <1>1 DEF Progress, Idle
  <2>3. pos < size
    BY <1>1, <1>4, <1>5, SMTT(30)
  <2>4. o = pos % bpc /\ h.current_cluster = f[pos \div bpc]
    BY <2>2, <2>3, <1>4, <1>5 DEF Aligned
  <2>5. Plausible(vol, medium.bpb) /\ size < WORD \div 2
    BY <2>1 DEF Sound
  <2>6. n <= bps - skip
    <3>1. Left < WORD \div 2
      BY <2>5, <1>4, <1>5, Half
    <3>2. QED BY <3>1, <1>2
  <2>7. o < bpc /\ o + n <= bpc
    <3>1. o < bpc
      BY <2>4, <1>3, <1>4, ModLess
    <3>2. o + (bps - skip) <= bpc
      BY <3>1, <1>3, <1>4, InsideCluster, ZenonT(60) DEF skip
    <3> HIDE DEF bpc, bps, o
    <3>3. QED BY <3>1, <3>2, <2>6, <1>2, <1>3, <1>4
  <2>8. lba = fatClusterToLba(vol, f[pos \div bpc]) + o \div bps
    <3>1. InRange(vol, h.current_cluster)
      BY <2>1, <2>3, <2>4, <1>1, <1>4, SoundCluster
    <3>2. QED BY <3>1, <2>4, <2>5, <2>7, <1>1, <1>4, SectorInside, SMTT(30) DEF lba
  <2>0. /\ bpc \in Nat \ {0} /\ pos \in Nat /\ o \in Nat /\ n \in Nat /\ Len(rd.got) \in Nat
        /\ vol.is_initialized
    BY <1>1, <1>2, <1>3, <1>4
  <2>9. Exact'
    <3> DEFINE from == rd.before.current_file_pos
    <3> SUFFICES ASSUME NEW j \in DOMAIN rd'.got
                 PROVE  rd'.got[j] = ByteOf(vol, medium, start, from + j - 1)
      BY <1>1 DEF Exact
    <3>1. j \in 1 .. (Len(rd.got) + n) /\ rd'.got = rd.got \o piece
      BY <1>1, <1>7, <1>8
    <3>2. CASE j <= Len(rd.got)
      <4>1. j \in DOMAIN rd.got /\ rd'.got[j] = rd.got[j]
        BY <3>1, <3>2, <1>7, <1>8
      <4>2. QED BY <4>1, <2>2 DEF Exact
    <3>3. CASE j > Len(rd.got)
      <4> DEFINE i == j - Len(rd.got)
      <4>1. i \in 1 .. n /\ i - 1 \in Nat /\ rd'.got[j] = piece[i]
        <5>1. i \in 1 .. n /\ i - 1 \in Nat /\ ~(j <= Len(rd.got))
          BY <3>1, <3>3, <2>0, SMTT(30)
        <5>2. (rd.got \o piece)[j] = piece[i]
          BY <3>1, <5>1, <1>7, <1>8, Joined
        <5>3. QED BY <3>1, <5>1, <5>2
      <4>2. from + j - 1 = pos + (i - 1)
        BY <3>1, <1>4, <1>5, SMTT(30)
      <4> HIDE DEF i
      <4>3. (o % bps) + (i - 1) < bps /\ skip = o % bps /\ skip \in Nat
        BY <4>1, <2>6, <1>2, <1>3 DEF skip
      <4>4. ByteOf(vol, medium, start, pos + (i - 1)) = <<lba, (o % bps) + (i - 1)>>
        <5>1. ((pos % bpc) % bps) + (i - 1) < bps
          BY <4>3, <2>4
        <5> HIDE DEF o
        <5>2. ByteOf(vol, medium, start, pos + (i - 1))
                = <<fatClusterToLba(vol, f[pos \div bpc]) + (pos % bpc) \div bps,
                    ((pos % bpc) % bps) + (i - 1)>>
          BY <4>1, <5>1, <2>0, ByteAt
        <5>3. QED BY <5>2, <2>4, <2>8
      <4>5. piece[i] = <<lba, skip + (i - 1)>>
        <5>1. skip + i - 1 = skip + (i - 1)
          BY <4>1, <4>3
        <5>2. bps < UINT16 /\ UINT16 \in Nat
          BY <1>1, SectorShort, FileAssumption
        <5>3. n < UINT16
          BY <5>2, <2>6, <1>2, <1>3
        <5>4. QED BY <4>1, <5>1, <5>3, <1>7
      <4>6. QED BY <4>1, <4>2, <4>3, <4>4, <4>5
    <3>4. QED BY <3>1, <3>2, <3>3, <1>4
  <2> DEFINE k == pos \div bpc
  <2>10. CASE o + n < bpc
    <3>1. rd'.phase = "loop"
      BY <2>10, <1>1, <1>2, <1>3, <1>4, SMTT(30)
    <3>2. (pos + n) \div bpc = k /\ (pos + n) % bpc = o + n
      <4>1. (pos % bpc) + n < bpc
        BY <2>4, <2>10
      <4>2. (pos + n) \div bpc = pos \div bpc /\ (pos + n) % bpc = (pos % bpc) + n
        BY <4>1, <2>0, Within
      <4>3. QED BY <4>2, <2>4
    <3>3. Aligned(vol, medium, g)
      BY <3>2, <2>4, <1>1, <1>5 DEF Aligned
    <3>4. QED BY <3>1, <3>3, <2>9, <1>1
  <2>11. CASE o + n = bpc
    <3>1. rd'.phase = "fat"
      BY <2>11, <1>1, <1>2, <1>3, <1>4
    <3>2. PICK x \in Nat : x = pos \div bpc
      BY <1>3, <1>4, Quotient
    <3>3. x * bpc \in Nat /\ pos = x * bpc + (pos % bpc)
      BY <3>2, <1>3, <1>4, DivMod
    <3> HIDE DEF bpc, o, pos
    <3>4. pos + n = (x + 1) * bpc
      <4>1. (x + 1) * bpc = x * bpc + bpc
        BY <3>2, <1>3
      <4>2. QED BY <4>1, <3>3, <2>0, <2>4, <2>11
    <3>5. g.current_cluster = Chain(vol, medium, g.cluster_start)[x]
      BY <2>4, <3>2, <1>1, <1>5
    <3>6. UsedUp(handles[rd.id], x)'
      BY <3>2, <3>4, <3>5, <2>11, <1>1 DEF UsedUp, bpc
    <3>7. QED BY <3>1, <3>2, <3>6, <2>9
  <2>12. o + n < bpc \/ o + n = bpc
    <3> HIDE DEF bpc, o
    <3>1. QED BY <2>7, <1>2, <1>3, <1>4, SMTT(30)
  <2>13. QED BY <2>10, <2>11, <2>12
<1>11. QED BY <1>1, <1>5, <1>9, <1>10 DEF Progress

LEMMA ClusterFields ==
  ASSUME Inv, NextCluster,
         getNextCluster(vol, medium, handles[rd.id].current_cluster) = "SUCCESS"
  PROVE  LET h == handles[rd.id]
             g == handles'[rd.id]
         IN  /\ rd.phase = "fat" /\ UNCHANGED <<medium, booted, vol>> /\ vol.is_initialized
             /\ rd'.id = rd.id /\ rd'.n = rd.n /\ rd'.before = rd.before
             /\ rd'.actual = rd.actual /\ rd'.got = rd.got /\ rd'.phase = "loop"
             /\ g.current_file_pos = h.current_file_pos /\ g.current_offset = 0
             /\ g.current_cluster = Entry(medium, h.current_cluster)
             /\ g.cluster_start = h.cluster_start
             /\ g.file_size = h.file_size /\ g.is_free = h.is_free
             /\ \A i \in Ids : i # rd.id => handles'[i] = handles[i]
<1>1. rd.id \in Ids /\ handles \in [Ids -> Handle] /\ rd \in ReadType
  BY ReadFields DEF Inv, HandlesOK, ReadOK
<1>2. rd.phase = "fat" /\ vol.is_initialized
  BY DEF NextCluster, Inv, ReadOK, Idle
<1>3. /\ handles' = [handles EXCEPT
                      ![rd.id].current_cluster = Entry(medium, handles[rd.id].current_cluster),
                      ![rd.id].current_offset = 0]
      /\ rd' = [rd EXCEPT !.phase = "loop"]
      /\ UNCHANGED <<medium, booted, vol>>
  BY DEF NextCluster
<1>4. QED BY <1>1, <1>2, <1>3 DEF ReadType, Handle

\* The next cluster of the chain, at its first byte.
LEMMA ProgressCluster ==
  ASSUME Inv, Progress, NextCluster,
         getNextCluster(vol, medium, handles[rd.id].current_cluster) = "SUCCESS"
  PROVE  Progress'
<1> USE DEF Inv
<1> DEFINE h == handles[rd.id]
           g == handles'[rd.id]
           bpc == vol.bytes_per_cluster
           start == rd.before.cluster_start
           f == Chain(vol, medium, start)
<1>1. /\ rd.phase = "fat" /\ UNCHANGED <<medium, booted, vol>> /\ vol.is_initialized
      /\ rd'.id = rd.id /\ rd'.n = rd.n /\ rd'.before = rd.before
      /\ rd'.actual = rd.actual /\ rd'.got = rd.got /\ rd'.phase = "loop"
      /\ g.current_file_pos = h.current_file_pos /\ g.current_offset = 0
      /\ g.current_cluster = Entry(medium, h.current_cluster)
      /\ g.cluster_start = h.cluster_start
      /\ g.file_size = h.file_size /\ g.is_free = h.is_free
  BY ClusterFields
<1>2. /\ h.cluster_start = start /\ ~h.is_free
      /\ rd.n < WORD \div 2 /\ rd.actual = min(rd.n, Left) /\ Left' = Left
  BY <1>1 DEF Progress, Idle, Left
<1>3. ASSUME Sure(rd.before)'
      PROVE  Exact' /\ Aligned(vol, medium, handles[rd.id])'
  <2>1. Sure(rd.before)
    BY <1>1, <1>3 DEF Sure
  <2>2. Exact /\ \E k \in Nat : UsedUp(h, k)
    BY <2>1, <1>1 DEF Progress, Idle
  <2>3. PICK k \in Nat : UsedUp(h, k)
    BY <2>2
  <2>4. bpc \in Nat \ {0} /\ start \in Words
    BY <1>1, Sizes, ReadFields, HandleFields
  <2>5. h.current_file_pos = (k + 1) * bpc + 0 /\ h.current_cluster = f[k]
    BY <2>3, <2>4, <1>2 DEF UsedUp
  <2>6. h.current_file_pos \div bpc = k + 1 /\ h.current_file_pos % bpc = 0
    BY <2>4, <2>5, Divided
  <2>7. f[k + 1] = Entry(medium, h.current_cluster)
    <3>1. InRange(vol, f[k])
      BY <2>5, <1>1, NextInRange
    <3>2. medium \in Media /\ Partitioned(medium) /\ vol = Mounted(medium)
      BY <1>1 DEF VolumeOK
    <3>3. QED BY <3>1, <3>2, <2>4, <2>5, ChainLinks, SMTT(30)
  <2>8. Aligned(vol, medium, g)
    BY <2>6, <2>7, <1>1, <1>2 DEF Aligned
  <2>9. QED BY <2>2, <2>8, <1>1 DEF Exact
<1>4. QED BY <1>1, <1>2, <1>3 DEF Progress, Idle

LEMMA ProgressNext == Inv /\ Progress /\ [Next]_vars => Progress'
<1> SUFFICES ASSUME Inv, Progress, [Next]_vars PROVE Progress'
  OBVIOUS
<1>1. rd \in ReadType /\ rd.phase \in {"idle", "loop", "fat"}
  BY ReadFields DEF Inv, ReadOK
<1>2. CASE fat32_init
  <2>1. Idle /\ UNCHANGED rd /\ ~vol.is_initialized
    BY <1>2 DEF fat32_init, MountFails, MountWorks, Inv, VolumeOK, NoVolume
  <2>2. rd' = NoRead /\ rd'.phase = "idle"
    BY <2>1 DEF Progress, Idle
  <2>3. QED BY <2>2, ProgressIdle
<1>3. CASE \/ \E f \in medium.files : fat32_open(f)
           \/ \E i \in Ids : fat32_close(i)
  <2>1. Idle /\ UNCHANGED <<vol, rd>>
    BY <1>3 DEF fat32_open, fat32_close
  <2>2. rd'.phase = "idle" /\ (vol'.is_initialized \/ rd' = NoRead)
    BY <2>1 DEF Progress, Idle
  <2>3. QED BY <2>2, ProgressIdle
<1>4. CASE \E i \in Ids, n \in Nat : n < WORD \div 2 /\ fat32_read(i, n)
  BY <1>4, ProgressRead
<1>5. CASE TransferFails \/ ReturnTrue \/ (NextCluster /\ rd'.phase # "loop")
  <2>1. rd'.phase = "idle" /\ ~Idle /\ UNCHANGED vol
    BY <1>1, <1>5 DEF TransferFails, ReturnTrue, NextCluster, Return, Idle, ReadType
  <2>2. vol'.is_initialized
    BY <2>1 DEF Inv, ReadOK
  <2>3. QED BY <2>1, <2>2, ProgressIdle
<1>6. CASE ReadSector
  BY <1>6, ProgressSector
<1>7. CASE NextCluster /\ rd'.phase = "loop"
  <2>1. getNextCluster(vol, medium, handles[rd.id].current_cluster) = "SUCCESS"
    BY <1>1, <1>7 DEF NextCluster, Return, ReadType
  <2>2. QED BY <1>7, <2>1, ProgressCluster
<1>8. CASE UNCHANGED vars
  BY <1>8 DEF vars, Progress, Sure, Exact, UsedUp, Left, Idle
<1>9. \A i \in Ids : fat32_get_size(i) \in Nat
  BY HandleFields DEF fat32_get_size, Inv, HandlesOK
<1>10. QED BY <1>2, <1>3, <1>4, <1>5, <1>6, <1>7, <1>8, <1>9, FileAssumption DEF Next, Step

LEMMA ProgressAlways == Spec => [](Inv /\ Progress)
  BY InvInit, InvNext, ProgressInit, ProgressNext, PTL DEF Spec

----------------------------------------------------------------------------
(***************************************************************************)
(* Every step is one of FileApi, or changes nothing that it sees.          *)
(***************************************************************************)

\* The handle that an identifier stands for: during a read, as it was before.
Stands(i) == IF ~Idle /\ i = rd.id THEN rd.before ELSE handles[i]

LEMMA OpenIs == AbsOpen = [i \in InUse |-> AbsHandle(vol, medium, Stands(i))]
  BY DEF AbsOpen, Stands

LEMMA OpenSame ==
  ASSUME UNCHANGED <<medium, vol>>, InUse' = InUse, \A i \in InUse : Stands(i)' = Stands(i)
  PROVE  AbsOpen' = AbsOpen
<1>1. AbsOpen' = [i \in InUse' |-> AbsHandle(vol', medium', Stands(i)')]
  BY DEF AbsOpen, Stands
<1>2. QED BY <1>1, OpenIs

LEMMA RefInit == Init => Abs!AInit
<1> SUFFICES ASSUME Init PROVE Abs!AInit
  OBVIOUS
<1>1. rd = NoRead /\ Idle /\ ~vol.is_initialized
  BY DEF Init, VolInit, NoVolume, NoRead, Idle
<1>2. InUse = {}
  BY <1>1 DEF InUse
<1>3. AbsOpen = [i \in {} |-> 0]
  BY <1>2 DEF AbsOpen
<1>4. AbsBusy = [id |-> -1, n |-> 0] /\ AbsOut = [from |-> 0, count |-> 0, exact |-> TRUE, ok |-> FALSE]
  BY <1>1 DEF AbsBusy, AbsOut
<1>5. QED BY <1>3, <1>4 DEF Abs!AInit, Abs!NoRead, Abs!NoBytes

LEMMA RefMount ==
  ASSUME Inv, Progress, fat32_init
  PROVE  UNCHANGED <<AbsOpen, AbsBusy, AbsOut>>
<1>1. Idle /\ UNCHANGED rd /\ ~vol.is_initialized /\ vol = NoVolume
  BY DEF fat32_init, MountFails, MountWorks, Inv, VolumeOK, NoVolume
<1>2. rd = NoRead
  BY <1>1 DEF Progress
<1>3. InUse = {} /\ InUse' = {}
  <2>1. CASE MountFails
    <3>1. ~vol'.is_initialized
      <4>1. CASE UNCHANGED vol
        BY <1>1, <4>1
      <4>2. CASE vol' = parseMBR(vol, medium)
        BY <1>1, <4>2 DEF NoVolume, parseMBR
      <4>3. QED BY <2>1, <4>1, <4>2 DEF MountFails
    <3>2. QED BY <1>1, <3>1 DEF InUse
  <2>2. CASE handles' = [i \in Ids |-> [handles[i] EXCEPT !.is_free = TRUE]]
    <3>1. \A i \in Ids : handles'[i].is_free
      BY <2>2 DEF Inv, HandlesOK, Handle
    <3>2. QED BY <1>1, <3>1 DEF InUse
  <2>3. QED BY <2>1, <2>2 DEF fat32_init
<1>4. AbsOpen' = AbsOpen
  BY <1>3 DEF AbsOpen
<1>5. QED BY <1>1, <1>2, <1>4 DEF AbsBusy, AbsOut, Idle

\* Without a step of a read, the last result stays.
LEMMA CallIdle ==
  ASSUME Idle, UNCHANGED <<medium, vol, rd>>
  PROVE  /\ UNCHANGED <<AbsBusy, AbsOut>> /\ AbsBusy = Abs!NoRead
         /\ \A i : Stands(i) = handles[i] /\ Stands(i)' = handles'[i]
  BY DEF AbsBusy, AbsOut, Idle, Exact, Stands, Abs!NoRead

LEMMA SoundBoolean ==
  ASSUME NEW v, NEW m, NEW c, NEW n PROVE Sound(v, m, c, n) \in BOOLEAN
  BY DEF Sound

LEMMA AlignedBoolean ==
  ASSUME NEW v, NEW m, NEW h PROVE Aligned(v, m, h) \in BOOLEAN
  BY DEF Aligned

LEMMA RefOpen ==
  ASSUME Inv, NEW f \in medium.files, fat32_open(f)
  PROVE  \E i \in DOMAIN AbsOpen' : Abs!Open(i, AbsOpen'[i])
<1> USE DEF Inv
<1>1. Idle /\ vol.is_initialized /\ UNCHANGED <<medium, booted, vol, rd>>
  BY DEF fat32_open
<1>2. PICK i \in Free : handles' = [handles EXCEPT ![i] = Opened(@, f)]
  BY DEF fat32_open
<1>3. i \in Ids /\ handles[i].is_free /\ handles \in [Ids -> Handle]
  BY DEF Free, HandlesOK
<1>4. f \in [start : Words, size : Words]
  BY FileAssumption DEF VolumeOK
<1> DEFINE g == Opened(handles[i], f)
           a == AbsHandle(vol, medium, g)
<1>5. /\ g.cluster_start = f.start /\ g.current_cluster = f.start /\ g.current_offset = 0
      /\ g.file_size = f.size /\ g.current_file_pos = 0 /\ ~g.is_free
  BY <1>3 DEF Opened, Handle
<1>6. handles'[i] = g /\ \A j \in Ids : j # i => handles'[j] = handles[j]
  BY <1>2, <1>3
<1> HIDE DEF g
<1>7. InUse' = InUse \cup {i} /\ i \notin InUse
  BY <1>1, <1>3, <1>5, <1>6 DEF InUse
<1>8. AbsOpen' = Abs!Handle(AbsOpen, i, a)
  <2>1. AbsOpen' = [j \in InUse' |-> AbsHandle(vol, medium, handles'[j])]
    BY <1>1, CallIdle DEF AbsOpen, Idle
  <2>2. AbsOpen = [j \in InUse |-> AbsHandle(vol, medium, handles[j])]
    BY <1>1 DEF AbsOpen
  <2>3. InUse \subseteq Ids
    BY DEF InUse
  <2>4. QED BY <2>1, <2>2, <2>3, <1>6, <1>7 DEF Abs!Handle
<1>9. a.pos = 0 /\ a.start = f.start /\ a.size = f.size
  BY <1>5 DEF AbsHandle
<1>10. Aligned(vol, medium, g)
  <2>1. vol.bytes_per_cluster \in Nat \ {0}
    BY <1>1, Sizes
  <2>2. 0 % vol.bytes_per_cluster = 0 /\ 0 \div vol.bytes_per_cluster = 0
    BY <2>1
  <2>3. Chain(vol, medium, f.start)[0] = f.start
    BY <1>1, <1>4, ChainLinks DEF VolumeOK
  <2>4. QED BY <2>2, <2>3, <1>5 DEF Aligned
<1>11. a.sure = ([start |-> a.start, size |-> a.size] \in AbsSound)
  <2> DEFINE S == Sound(vol, medium, f.start, f.size)
  <2>1. a.sure = S
    <3>1. a.sure = (S /\ Aligned(vol, medium, g))
      BY <1>5 DEF AbsHandle
    <3>2. S \in BOOLEAN
      BY SoundBoolean
    <3> HIDE DEF S, a
    <3>3. QED BY <3>1, <3>2, <1>10
  <2>2. [start |-> a.start, size |-> a.size] = f
    BY <1>4, <1>9
  <2>3. AbsSound = {x \in medium.files : Sound(vol, medium, x.start, x.size)}
    BY <1>1 DEF AbsSound
  <2>4. (f \in AbsSound) = S
    <3>1. (f \in AbsSound) <=> S
      BY <2>3
    <3>2. S \in BOOLEAN
      BY SoundBoolean
    <3> HIDE DEF S
    <3>3. QED BY <3>1, <3>2
  <2>5. QED BY <2>1, <2>2, <2>4
<1> HIDE DEF a
<1>12. i \in DOMAIN AbsOpen' /\ AbsOpen'[i] = a
  BY <1>8 DEF Abs!Handle
<1>13. i \in Ids \ DOMAIN AbsOpen
  BY <1>3, <1>7 DEF AbsOpen
<1>14. UNCHANGED <<AbsBusy, AbsOut>> /\ AbsBusy = Abs!NoRead
  BY <1>1, CallIdle
<1>15. Abs!Open(i, a)
  BY <1>8, <1>9, <1>11, <1>13, <1>14 DEF Abs!Open
<1>16. QED BY <1>12, <1>15

LEMMA RefClose ==
  ASSUME Inv, NEW i \in Ids, fat32_close(i)
  PROVE  \/ i \in DOMAIN AbsOpen /\ Abs!Close(i)
         \/ UNCHANGED <<AbsOpen, AbsBusy, AbsOut>>
<1>1. /\ Idle /\ UNCHANGED <<medium, booted, vol, rd>>
      /\ handles' = [handles EXCEPT ![i].is_free = TRUE]
  BY DEF fat32_close
<1>2. handles \in [Ids -> Handle]
  BY DEF Inv, HandlesOK
<1>3. handles'[i].is_free /\ \A j \in Ids : j # i => handles'[j] = handles[j]
  BY <1>1, <1>2 DEF Handle
<1>4. InUse' = InUse \ {i} /\ InUse \subseteq Ids
  BY <1>1, <1>3 DEF InUse
<1>5. /\ AbsOpen' = [j \in InUse' |-> AbsHandle(vol, medium, handles'[j])]
      /\ AbsOpen = [j \in InUse |-> AbsHandle(vol, medium, handles[j])]
  BY <1>1 DEF AbsOpen, Idle
<1>6. AbsOpen' = [j \in DOMAIN AbsOpen \ {i} |-> AbsOpen[j]]
  BY <1>3, <1>4, <1>5
<1>7. UNCHANGED <<AbsBusy, AbsOut>> /\ AbsBusy = Abs!NoRead
  BY <1>1, CallIdle
<1>8. CASE i \in InUse
  BY <1>5, <1>6, <1>7, <1>8 DEF Abs!Close
<1>9. CASE i \notin InUse
  <2>1. AbsOpen' = AbsOpen
    BY <1>5, <1>6, <1>9
  <2>2. QED BY <2>1, <1>7
<1>10. QED BY <1>8, <1>9

LEMMA RefRead ==
  ASSUME Inv, NEW i \in Ids, NEW n \in Nat, fat32_read(i, n)
  PROVE  i \in DOMAIN AbsOpen /\ Abs!Begin(i, AbsBusy'.n)
<1>1. /\ Idle /\ vol.is_initialized /\ ~handles[i].is_free
      /\ UNCHANGED <<medium, booted, vol, handles>>
      /\ rd'.phase = "loop" /\ rd'.id = i /\ rd'.n = n /\ rd'.before = handles[i]
  BY DEF fat32_read
<1>2. InUse' = InUse /\ i \in InUse
  BY <1>1 DEF InUse
<1>3. AbsOpen' = AbsOpen
  BY <1>1, <1>2, OpenSame DEF Stands, Idle
<1>4. AbsBusy = Abs!NoRead /\ AbsBusy' = [id |-> i, n |-> n] /\ AbsOut' = Abs!NoBytes
  BY <1>1 DEF AbsBusy, AbsOut, Idle, Abs!NoRead, Abs!NoBytes
<1>5. QED BY <1>2, <1>3, <1>4 DEF Abs!Begin, AbsOpen

\* The transfers of a read and its look-ups that work.
LEMMA RefBusy ==
  ASSUME Inv, \/ ReadSector
              \/ NextCluster /\ getNextCluster(vol, medium, handles[rd.id].current_cluster) = "SUCCESS"
  PROVE  UNCHANGED <<AbsOpen, AbsBusy, AbsOut>>
<1>1. /\ ~Idle /\ ~Idle' /\ UNCHANGED <<medium, booted, vol>>
      /\ rd'.id = rd.id /\ rd'.n = rd.n /\ rd'.before = rd.before
      /\ handles'[rd.id].is_free = handles[rd.id].is_free
      /\ \A i \in Ids : i # rd.id => handles'[i] = handles[i]
  BY SectorFields, ClusterFields DEF Idle
<1>2. InUse' = InUse /\ InUse \subseteq Ids
  BY <1>1 DEF InUse
<1>3. AbsOpen' = AbsOpen
  BY <1>1, <1>2, OpenSame DEF Stands
<1>4. QED BY <1>1, <1>3 DEF AbsBusy, AbsOut

\* A read that ends: its identifier stands for the handle as it is now.
LEMMA ReturnFields ==
  ASSUME Inv, Progress, ~Idle, NEW ok \in BOOLEAN, Return(ok),
         UNCHANGED <<medium, booted, vol, handles>>,
         ok \/ rd.actual > 0
  PROVE  LET i == rd.id
             h == AbsHandle(vol, medium, rd.before)
             g == AbsHandle(vol, medium, handles[i])
         IN  /\ AbsBusy = [id |-> i, n |-> rd.n] /\ AbsBusy # Abs!NoRead /\ AbsBusy' = Abs!NoRead
             /\ i \in DOMAIN AbsOpen /\ AbsOpen[i] = h
             /\ AbsOpen' = [AbsOpen EXCEPT ![i] = g]
             /\ AbsOut' = [from |-> rd.before.current_file_pos, count |-> Len(rd.got),
                           exact |-> Exact, ok |-> ok]
             /\ h.start = g.start /\ h.size = g.size
             /\ h.pos = rd.before.current_file_pos /\ h.size = rd.before.file_size
             /\ g.pos = h.pos + Len(rd.got) /\ g.pos \in h.pos .. h.size
             /\ h.sure = Sure(rd.before) /\ h.sure \in BOOLEAN
             /\ g.sure \in BOOLEAN
             /\ g = [h EXCEPT !.pos = g.pos, !.sure = g.sure]
<1> USE DEF Inv
<1> DEFINE i == rd.id
           h == AbsHandle(vol, medium, rd.before)
           g == AbsHandle(vol, medium, handles[i])
<1>1. /\ vol.is_initialized /\ ~handles[i].is_free
      /\ handles[i].cluster_start = rd.before.cluster_start
      /\ handles[i].file_size = rd.before.file_size
      /\ handles[i].current_file_pos = rd.before.current_file_pos + Len(rd.got)
  BY DEF ReadOK, Progress
<1>2. i \in Ids /\ i \in Nat /\ rd \in ReadType /\ Len(rd.got) \in Nat
  BY ReadFields, FileAssumption DEF ReadOK, Ids
<1>3. rd' = [rd EXCEPT !.phase = "idle", !.ok = ok]
  BY DEF Return
<1>4. /\ rd'.phase = "idle" /\ rd'.id = i /\ rd'.n = rd.n /\ rd'.before = rd.before
      /\ rd'.got = rd.got /\ rd'.actual = rd.actual /\ rd'.ok = ok
  BY <1>2, <1>3 DEF ReadType
<1>5. rd' # NoRead
  <2>1. CASE ok
    <3>1. NoRead.ok = FALSE
      BY DEF NoRead
    <3>2. QED BY <2>1, <3>1, <1>4
  <2>2. CASE rd.actual > 0
    <3>1. rd.actual # 0
      BY <2>2, ReadFields
    <3>2. QED BY <3>1, <1>4 DEF NoRead
  <2>3. QED BY <2>1, <2>2
<1>6. Idle' /\ Exact' = Exact
  BY <1>4 DEF Idle, Exact
<1>7. /\ AbsBusy = [id |-> i, n |-> rd.n] /\ AbsBusy' = Abs!NoRead
      /\ AbsOut' = [from |-> rd.before.current_file_pos, count |-> Len(rd.got),
                    exact |-> Exact, ok |-> ok]
  BY <1>4, <1>5, <1>6 DEF AbsBusy, AbsOut, Abs!NoRead
<1>8. AbsBusy # Abs!NoRead
  BY <1>2, <1>7 DEF Abs!NoRead
<1>9. InUse' = InUse /\ i \in InUse
  BY <1>1, <1>2 DEF InUse
<1>10. /\ AbsOpen = [j \in InUse |-> AbsHandle(vol, medium, IF j = i THEN rd.before ELSE handles[j])]
       /\ AbsOpen' = [j \in InUse |-> AbsHandle(vol, medium, handles[j])]
  BY <1>6, <1>9 DEF AbsOpen
<1>11. AbsOpen[i] = h /\ i \in DOMAIN AbsOpen /\ AbsOpen' = [AbsOpen EXCEPT ![i] = g]
  BY <1>9, <1>10
<1>12. /\ h.start = g.start /\ h.size = g.size
       /\ h.pos = rd.before.current_file_pos /\ h.size = rd.before.file_size
       /\ g.pos = h.pos + Len(rd.got)
  BY <1>1 DEF AbsHandle
<1>13. g.pos \in h.pos .. h.size
  <2>1. /\ rd.before.current_file_pos \in Nat /\ rd.before.file_size \in Nat
        /\ handles[i].current_file_pos \in Nat
        /\ handles[i].current_file_pos <= handles[i].file_size
    BY <1>2, ReadFields, HandleFields DEF HandlesOK, HandleOK
  <2>2. QED BY <2>1, <1>1, <1>2, <1>12
<1>14. h.sure = Sure(rd.before) /\ h.sure \in BOOLEAN /\ g.sure \in BOOLEAN
  BY DEF AbsHandle, Sure
<1>15. g = [h EXCEPT !.pos = g.pos, !.sure = g.sure]
  <2>1. /\ h = [start |-> h.start, size |-> h.size, pos |-> h.pos, sure |-> h.sure]
        /\ g = [start |-> g.start, size |-> g.size, pos |-> g.pos, sure |-> g.sure]
    BY DEF AbsHandle
  <2> HIDE DEF g, h
  <2>2. [h EXCEPT !.pos = g.pos, !.sure = g.sure]
          = [start |-> h.start, size |-> h.size, pos |-> g.pos, sure |-> g.sure]
    <3> DEFINE x == [h EXCEPT !.pos = g.pos]
    <3>1. x = [start |-> h.start, size |-> h.size, pos |-> g.pos, sure |-> h.sure]
      BY <2>1
    <3>2. [h EXCEPT !.pos = g.pos, !.sure = g.sure] = [x EXCEPT !.sure = g.sure]
      OBVIOUS
    <3> HIDE DEF x
    <3>3. [x EXCEPT !.sure = g.sure]
            = [start |-> h.start, size |-> h.size, pos |-> g.pos, sure |-> g.sure]
      BY <3>1
    <3>4. QED BY <3>2, <3>3
  <2>3. QED BY <2>1, <2>2, <1>12
<1>16. QED BY <1>7, <1>8, <1>11, <1>12, <1>13, <1>14, <1>15

LEMMA RefFail ==
  ASSUME Inv, Progress, ~Idle, Return(FALSE), UNCHANGED <<medium, booted, vol, handles>>,
         rd.actual > 0
  PROVE  Abs!Fail
<1> DEFINE i == rd.id
           h == AbsHandle(vol, medium, rd.before)
           g == AbsHandle(vol, medium, handles[i])
<1>1. /\ AbsBusy = [id |-> i, n |-> rd.n] /\ AbsBusy # Abs!NoRead /\ AbsBusy' = Abs!NoRead
      /\ i \in DOMAIN AbsOpen /\ AbsOpen[i] = h
      /\ AbsOpen' = [AbsOpen EXCEPT ![i] = g]
      /\ AbsOut' = [from |-> rd.before.current_file_pos, count |-> Len(rd.got),
                    exact |-> Exact, ok |-> FALSE]
      /\ g.pos \in h.pos .. h.size
      /\ h.sure = Sure(rd.before) /\ g.sure \in BOOLEAN
      /\ g = [h EXCEPT !.pos = g.pos, !.sure = g.sure]
  BY ReturnFields
<1>2. h.sure => AbsOut'.exact
  BY <1>1 DEF Progress
<1>3. ~AbsOut'.ok /\ AbsBusy.id = i
  BY <1>1
<1> HIDE DEF g, h
<1>4. AbsOpen' = [AbsOpen EXCEPT ![i].pos = g.pos, ![i].sure = g.sure]
  BY <1>1
<1>5. \E p \in h.pos .. h.size, s \in BOOLEAN :
        AbsOpen' = [AbsOpen EXCEPT ![i].pos = p, ![i].sure = s]
  BY <1>1, <1>4
<1>6. /\ AbsBusy # Abs!NoRead /\ AbsBusy' = Abs!NoRead /\ AbsOpen[AbsBusy.id] = h
  BY <1>1, <1>3
<1> HIDE DEF i
<1>7. QED BY <1>2, <1>3, <1>5, <1>6 DEF Abs!Fail

LEMMA RefSucceed ==
  ASSUME Inv, Progress, ~Idle, Return(TRUE), UNCHANGED <<medium, booted, vol, handles>>,
         Sure(rd.before) => /\ Len(rd.got) = rd.actual
                            /\ Aligned(vol, medium, handles[rd.id])
  PROVE  Abs!Succeed
<1> DEFINE i == rd.id
           h == AbsHandle(vol, medium, rd.before)
           g == AbsHandle(vol, medium, handles[i])
           n == Abs!Least(rd.n, Abs!Left(h))
<1>1. /\ AbsBusy = [id |-> i, n |-> rd.n] /\ AbsBusy # Abs!NoRead /\ AbsBusy' = Abs!NoRead
      /\ i \in DOMAIN AbsOpen /\ AbsOpen[i] = h
      /\ AbsOpen' = [AbsOpen EXCEPT ![i] = g]
      /\ AbsOut' = [from |-> rd.before.current_file_pos, count |-> Len(rd.got),
                    exact |-> Exact, ok |-> TRUE]
      /\ h.pos = rd.before.current_file_pos /\ h.size = rd.before.file_size
      /\ g.pos = h.pos + Len(rd.got) /\ g.pos \in h.pos .. h.size
      /\ h.sure = Sure(rd.before) /\ h.sure \in BOOLEAN /\ g.sure \in BOOLEAN
      /\ g = [h EXCEPT !.pos = g.pos, !.sure = g.sure]
  BY ReturnFields
<1>2. ASSUME Sure(rd.before)
      PROVE  /\ Len(rd.got) = n /\ Exact = TRUE /\ g.sure = TRUE
             /\ h.sure = TRUE
  <2>1. Exact = TRUE
    <3>1. Exact
      BY <1>2 DEF Progress
    <3>2. Exact \in BOOLEAN
      BY DEF Exact
    <3>3. QED BY <3>1, <3>2
  <2>2. Sound(vol, medium, rd.before.cluster_start, rd.before.file_size)
    BY <1>2 DEF Sure
  <2>3. g.sure = TRUE
    <3>1. /\ handles[i].cluster_start = rd.before.cluster_start
          /\ handles[i].file_size = rd.before.file_size
      BY DEF Inv, ReadOK, Progress
    <3>2. g.sure = (Sound(vol, medium, rd.before.cluster_start, rd.before.file_size)
                      /\ Aligned(vol, medium, handles[i]))
      BY <3>1 DEF AbsHandle
    <3>3. QED BY <3>2, <2>2, <1>2, SoundBoolean, AlignedBoolean
  <2>4. Len(rd.got) = n
    <3>1. rd.actual = min(rd.n, Left) /\ rd.n < WORD \div 2 /\ rd.n \in Nat
      BY ReadFields DEF Inv, Progress
    <3>2. Left \in Nat /\ Left < WORD \div 2 /\ WORD \div 2 \in Nat
      <4>1. rd.before.file_size < WORD \div 2
        BY <2>2 DEF Sound
      <4>2. /\ rd.before.file_size \in Nat /\ rd.before.current_file_pos \in Nat
            /\ Left \in Nat
        BY ReadFields, HandleFields DEF Inv
      <4>3. QED BY <4>1, <4>2, Half DEF Left
    <3>3. rd.actual = IF rd.n < Left THEN rd.n ELSE Left
      BY <3>1, <3>2 DEF min, Signed
    <3>4. Abs!Left(h) = Left
      BY <1>1 DEF Abs!Left, Left
    <3>5. QED BY <3>3, <3>4, <1>2 DEF Abs!Least
  <2>5. h.sure = TRUE
    BY <1>1, <1>2
  <2>6. QED BY <2>1, <2>3, <2>4, <2>5
<1> HIDE DEF g, h, n
<1>3. AbsBusy.id = i /\ AbsBusy.n = rd.n
  BY <1>1
<1>4. AbsOpen' = [AbsOpen EXCEPT ![i].pos = g.pos, ![i].sure = g.sure]
  BY <1>1
<1>5. ASSUME h.sure
      PROVE  /\ AbsOut' = [from |-> h.pos, count |-> n, exact |-> TRUE, ok |-> TRUE]
             /\ AbsOpen' = [AbsOpen EXCEPT ![i].pos = @ + n]
  <2>1. Sure(rd.before)
    BY <1>1, <1>5
  <2>2. /\ AbsOut' = [from |-> h.pos, count |-> n, exact |-> TRUE, ok |-> TRUE]
        /\ g.pos = h.pos + n /\ g.sure = h.sure
    BY <2>1, <1>1, <1>2
  <2>3. g = [h EXCEPT !.pos = @ + n]
    BY <2>2, <1>1 DEF h, AbsHandle
  <2>4. QED BY <2>2, <2>3, <1>1
<1>6. \E p \in h.pos .. h.size, s \in BOOLEAN :
        AbsOpen' = [AbsOpen EXCEPT ![i].pos = p, ![i].sure = s]
  BY <1>1, <1>4
<1>7. /\ AbsBusy # Abs!NoRead /\ AbsBusy' = Abs!NoRead /\ AbsOpen[AbsBusy.id] = h
      /\ Abs!Least(AbsBusy.n, Abs!Left(h)) = n
  BY <1>1, <1>3 DEF n
<1> HIDE DEF i
<1>8. QED BY <1>3, <1>5, <1>6, <1>7 DEF Abs!Succeed

\* The FAT ends a sound file's chain only behind the file's last byte.
LEMMA EndsAtEnd ==
  ASSUME Inv, Progress, rd.phase = "fat", Sure(rd.before),
         getNextCluster(vol, medium, handles[rd.id].current_cluster) = "END_OF_CHAIN"
  PROVE  handles[rd.id].current_file_pos = handles[rd.id].file_size /\ Len(rd.got) = rd.actual
<1> USE DEF Inv
<1> DEFINE h == handles[rd.id]
           bpc == vol.bytes_per_cluster
           size == rd.before.file_size
           n == (size + bpc - 1) \div bpc
           f == Chain(vol, medium, rd.before.cluster_start)
<1>1. /\ vol.is_initialized /\ h.file_size = size
      /\ h.current_file_pos = rd.before.current_file_pos + Len(rd.got)
      /\ h.cluster_start = rd.before.cluster_start
      /\ Len(rd.got) <= rd.actual /\ rd.actual <= Left
  BY DEF ReadOK, Progress, Idle
<1>2. PICK k \in Nat : UsedUp(h, k)
  BY DEF Progress, Idle
<1>3. h.current_file_pos = (k + 1) * bpc /\ h.current_cluster = f[k]
  BY <1>1, <1>2 DEF UsedUp
<1>4. /\ bpc \in Nat \ {0} /\ size \in Nat /\ h.current_file_pos \in Nat
      /\ rd.before.current_file_pos \in Nat /\ Len(rd.got) \in Nat /\ rd.actual \in Nat
      /\ h.current_file_pos <= size
  <2>1. bpc \in Nat \ {0}
    BY <1>1, Sizes
  <2>2. QED BY <2>1, <1>1, ReadFields, HandleFields DEF HandlesOK, HandleOK
<1>5. n \in Nat
  <2>1. size + bpc - 1 \in Nat
    BY <1>4
  <2>2. QED BY <1>4, <2>1, Quotient
<1>6. ~(k \in 0 .. (n - 2))
  <2>1. \A j \in 0 .. (n - 2) : getNextCluster(vol, medium, f[j]) = "SUCCESS"
    BY DEF Sure, Sound
  <2> HIDE DEF n, f
  <2>2. QED BY <2>1, <1>3
<1>7. n <= k + 1
  <2> HIDE DEF n
  <2>1. QED BY <1>5, <1>6
<1>8. size <= (k + 1) * bpc
  BY <1>4, <1>7, RoundedUp
<1>9. QED BY <1>1, <1>3, <1>4, <1>8 DEF Left

LEMMA RefNext == Inv /\ Progress /\ [Next]_vars => [Abs!ANext]_(Abs!avars)
<1> SUFFICES ASSUME Inv, Progress, [Next]_vars PROVE [Abs!ANext]_(Abs!avars)
  OBVIOUS
<1> USE DEF Abs!avars
<1>1. CASE fat32_init
  BY <1>1, RefMount
<1>2. CASE \E f \in medium.files : fat32_open(f)
  BY <1>2, RefOpen DEF Abs!ANext
<1>3. CASE \E i \in Ids : fat32_close(i)
  BY <1>3, RefClose DEF Abs!ANext
<1>4. CASE \E i \in Ids, n \in Nat : fat32_read(i, n)
  BY <1>4, RefRead DEF Abs!ANext
<1>5. CASE TransferFails
  <2>1. ~Idle /\ Return(FALSE) /\ UNCHANGED <<medium, booted, vol, handles>>
    BY <1>5 DEF TransferFails, Idle
  <2>2. rd.actual > 0
    <3>1. Len(rd.got) \in Nat /\ rd.actual \in Nat /\ Len(rd.got) <= rd.actual
      BY ReadFields DEF Inv, ReadOK
    <3>2. Len(rd.got) < rd.actual \/ Len(rd.got) > 0
      BY <1>5 DEF TransferFails, Progress
    <3>3. QED BY <3>1, <3>2
  <2>3. QED BY <2>1, <2>2, RefFail DEF Abs!ANext
<1>6. CASE ReturnTrue
  <2>1. ~Idle /\ Return(TRUE) /\ UNCHANGED <<medium, booted, vol, handles>> /\ rd.phase = "loop"
    BY <1>6 DEF ReturnTrue, Idle
  <2>2. Len(rd.got) = rd.actual
    BY <1>6, ReadFields DEF ReturnTrue, Inv, ReadOK
  <2>3. Sure(rd.before) => Aligned(vol, medium, handles[rd.id])
    BY <2>1 DEF Progress
  <2>4. QED BY <2>1, <2>2, <2>3, RefSucceed DEF Abs!ANext
<1>7. CASE ReadSector
  BY <1>7, RefBusy
<1>8. CASE NextCluster
  <2> DEFINE res == getNextCluster(vol, medium, handles[rd.id].current_cluster)
  <2>1. ~Idle /\ UNCHANGED <<medium, booted, vol>> /\ rd.phase = "fat"
    BY <1>8 DEF NextCluster, Idle
  <2>2. CASE res = "SUCCESS"
    BY <1>8, <2>2, RefBusy
  <2>3. CASE res = "END_OF_CHAIN"
    <3>1. Return(TRUE) /\ UNCHANGED handles
      BY <1>8, <2>3 DEF NextCluster
    <3>2. Sure(rd.before) => /\ Len(rd.got) = rd.actual
                             /\ Aligned(vol, medium, handles[rd.id])
      BY <2>1, <2>3, EndsAtEnd DEF Aligned
    <3>3. QED BY <2>1, <3>1, <3>2, RefSucceed DEF Abs!ANext
  <2>4. CASE res \notin {"SUCCESS", "END_OF_CHAIN"}
    <3>1. Return(FALSE) /\ UNCHANGED handles
      BY <1>8, <2>4 DEF NextCluster
    <3>2. rd.actual > 0
      BY <2>1, ReadFields DEF Inv, ReadOK, Progress
    <3>3. QED BY <2>1, <3>1, <3>2, RefFail DEF Abs!ANext
  <2>5. QED BY <2>2, <2>3, <2>4
<1>9. CASE UNCHANGED vars
  <2>1. /\ UNCHANGED <<medium, vol, rd, handles>> /\ Idle' = Idle /\ InUse' = InUse
        /\ Exact' = Exact
    BY <1>9 DEF vars, Idle, InUse, Exact
  <2>2. AbsOpen' = AbsOpen
    BY <2>1 DEF AbsOpen
  <2>3. QED BY <2>1, <2>2 DEF AbsBusy, AbsOut
<1>10. \A i \in Ids : fat32_get_size(i) \in Nat
  BY HandleFields DEF fat32_get_size, Inv, HandlesOK
<1>11. QED BY <1>1, <1>2, <1>3, <1>4, <1>5, <1>6, <1>7, <1>8, <1>9, <1>10, FileAssumption
           DEF Next, Step

\* The file table implements FileApi: in whatever order files are opened, read
\* and closed and transfers fail, a read of a sound file that returns true has
\* delivered exactly the file's next bytes, as many as asked for and left.
THEOREM FilesImplementApi == Spec => ImplementsFileApi
<1>1. Init => Abs!AInit
  BY RefInit
<1>2. (Inv /\ Progress) /\ [Next]_vars => [Abs!ANext]_(Abs!avars)
  BY RefNext
<1>3. QED BY <1>1, <1>2, ProgressAlways, PTL DEF Spec, ImplementsFileApi, Abs!ASpec

----------------------------------------------------------------------------
(***************************************************************************)
(* That reads end: what ReadsReturn rests on.                              *)
(***************************************************************************)

\* What ReadsAdvance says of one step.
AdvanceStep == ~Idle /\ ~Idle' => ToDo' \in Nat /\ ToDo' < ToDo

LEMMA SectorAdvances == ASSUME Inv, ReadSector PROVE ToDo' \in Nat /\ ToDo' < ToDo
<1> DEFINE h == handles[rd.id]
           skip == h.current_offset % vol.bytes_per_sector
           lba == (fatClusterToLba(vol, h.current_cluster)
                     + h.current_offset \div vol.bytes_per_sector) % WORD
           n == min(rd.actual - Len(rd.got), LeftInSector(skip))
           piece == Piece(lba, skip, n)
<1>1. /\ rd.phase = "loop" /\ Len(rd.got) < rd.actual /\ rd'.actual = rd.actual
      /\ rd'.got = rd.got \o piece
  BY SectorFields
<1>2. skip \in Nat /\ n \in Nat /\ n > 0 /\ n <= rd.actual - Len(rd.got)
  BY <1>1, Transfer DEF Inv
<1>3. rd.actual \in Nat /\ Len(rd.got) \in Nat /\ rd.got \in Seq(Nat \X Nat)
  BY ReadFields DEF Inv
<1>4. lba \in Nat
  <2>1. h \in Handle /\ vol.is_initialized
    BY <1>1, ReadFields DEF Inv, HandlesOK, ReadOK, Idle
  <2>2. h.current_cluster \in Nat /\ h.current_offset \in Nat
    BY <2>1, HandleFields, WordsAre
  <2>3. QED BY <2>1, <2>2, SectorNat DEF Inv
<1> HIDE DEF skip, lba, n, h
<1>5. piece \in Seq(Nat \X Nat) /\ Len(piece) = n
  BY <1>2, <1>4, PieceIs
<1> HIDE DEF piece
<1>6. Len(rd'.got) = Len(rd.got) + n
  <2>1. Len(rd.got \o piece) = Len(rd.got) + Len(piece)
    BY <1>3, <1>5, Joined
  <2>2. QED BY <1>1, <1>5, <2>1
<1>7. ToDo' \in Nat /\ ToDo' < ToDo
  <2>1. ToDo = 2 * (rd.actual - Len(rd.got)) + 0
    BY <1>1 DEF ToDo
  <2>2. ToDo' = 2 * (rd.actual - (Len(rd.got) + n)) + (IF rd'.phase = "fat" THEN 1 ELSE 0)
    BY <1>1, <1>6 DEF ToDo
  <2>3. QED BY <1>2, <1>3, <2>1, <2>2
<1>8. QED BY <1>7

LEMMA ReadAdvances == Inv /\ [Next]_vars => [AdvanceStep]_vars
<1> SUFFICES ASSUME Inv, Next, ~Idle, ~Idle' PROVE ToDo' \in Nat /\ ToDo' < ToDo
  BY DEF AdvanceStep
<1>1. ReadSector \/ NextCluster \/ TransferFails \/ ReturnTrue
  BY DEF Next, Step, fat32_init, fat32_open, fat32_close, fat32_read
<1>2. ASSUME NEW ok, Return(ok) PROVE FALSE
  <2>1. rd \in ReadType
    BY DEF Inv, ReadOK
  <2>2. QED BY <1>2, <2>1 DEF Return, Idle, ReadType
<1>3. CASE ReadSector
  BY <1>3, SectorAdvances
<1>4. CASE NextCluster
  <2>1. getNextCluster(vol, medium, handles[rd.id].current_cluster) = "SUCCESS"
    BY <1>2, <1>4 DEF NextCluster
  <2>2. rd.phase = "fat" /\ rd'.actual = rd.actual /\ rd'.got = rd.got /\ rd'.phase = "loop"
    BY <1>4, <2>1, ClusterFields
  <2>3. rd.actual \in Nat /\ Len(rd.got) \in Nat /\ Len(rd.got) <= rd.actual
    BY ReadFields DEF Inv, ReadOK
  <2>4. QED BY <2>2, <2>3 DEF ToDo
<1>5. CASE TransferFails \/ ReturnTrue
  BY <1>2, <1>5 DEF TransferFails, ReturnTrue
<1>6. QED BY <1>1, <1>3, <1>4, <1>5

\* On every medium, sound, damaged or circular, and for files of every size, each
\* step of a read that does not end it brings its end nearer: fat32_read makes no
\* more transfers than two for each byte it decided to read.
THEOREM ReadsEnd == Spec => ReadsAdvance
<1>1. Inv /\ [Next]_vars => [AdvanceStep]_vars
  BY ReadAdvances
<1>2. QED BY <1>1, InvAlways, PTL DEF Spec, ReadsAdvance, AdvanceStep
=============================================================================
