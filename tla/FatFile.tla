------------------------------ MODULE FatFile ------------------------------
(***************************************************************************)
(* The open files of src/driver/fs/FAT32.c: fat32_init, fat32_open,        *)
(* fat32_read and fat32_close on the table open_file_handles.              *)
(*                                                                         *)
(* A read is one step per transfer from the card, because each may fail:   *)
(* a part of a sector, or the FAT entry of the cluster that is used up.    *)
(* A byte on the card is <<sector, byte in the sector>>; the caller's      *)
(* buffer is the sequence of the bytes counted.  The path lookup           *)
(* (get_file) is a choice of an existing file, or of failure.  Calls that  *)
(* return at once and change nothing (an identifier out of range or free,  *)
(* an uninitialised volume) are not steps.                                 *)
(***************************************************************************)
EXTENDS FatVolume, FiniteSets

CONSTANTS
  MAX_OPEN_FILES,  \* the size of the table
  UINT16,          \* 2^16, the range of sdReadPartialBlock's length
  ReadSizes        \* byte counts that callers pass to fat32_read

ASSUME FileAssumption ==
  /\ MAX_OPEN_FILES \in Nat \ {0}
  /\ UINT16 \in Nat \ {0} /\ \A m \in Media : m.bpb.bytes_per_sector < UINT16
  /\ ReadSizes \subseteq Nat /\ \A n \in ReadSizes : n < WORD \div 2
  /\ \A m \in Media : m.files \subseteq [start : Words, size : Words]

VARIABLES
  handles,  \* open_file_handles
  rd        \* the fat32_read in progress, or the last one

vars == <<medium, booted, vol, handles, rd>>

Ids == 0 .. (MAX_OPEN_FILES - 1)

\* A handle as the C runtime leaves it: zero, which is not free.
Zeroed == [cluster_start |-> 0, current_cluster |-> 0, current_offset |-> 0,
           file_size |-> 0, current_file_pos |-> 0, is_free |-> FALSE]

NoRead == [phase |-> "idle", id |-> 0, n |-> 0, before |-> Zeroed,
           actual |-> 0, got |-> <<>>, ok |-> FALSE]

Init ==
  /\ VolInit
  /\ handles = [i \in Ids |-> Zeroed]
  /\ rd = NoRead

Idle == rd.phase = "idle"

\* kernel_main calls it once and ignores its result.
fat32_init ==
  /\ Idle
  /\ \/ MountFails /\ UNCHANGED handles
     \/ MountWorks /\ handles' = [i \in Ids |-> [handles[i] EXCEPT !.is_free = TRUE]]
  /\ UNCHANGED rd

Free == {i \in Ids : handles[i].is_free}

\* Mutant: a handle that is used again keeps the offset it had.
OpenedStale(h, f) ==
  [h EXCEPT !.cluster_start = f.start, !.current_cluster = f.start,
            !.file_size = f.size, !.current_file_pos = 0, !.is_free = FALSE]

Opened(h, f) ==
  [h EXCEPT !.cluster_start = f.start, !.current_cluster = f.start, !.current_offset = 0,
            !.file_size = f.size, !.current_file_pos = 0, !.is_free = FALSE]

\* get_file has found f, a file of the medium; the lowest free handle is taken.
\* Without a free handle, or a file, the call returns -1.
fat32_open(f) ==
  /\ Idle /\ vol.is_initialized
  /\ \E i \in Free :
       /\ \A j \in Free : i <= j
       /\ handles' = [handles EXCEPT ![i] = Opened(@, f)]
  /\ UNCHANGED <<medium, booted, vol, rd>>

fat32_close(i) ==
  /\ Idle
  /\ handles' = [handles EXCEPT ![i].is_free = TRUE]
  /\ UNCHANGED <<medium, booted, vol, rd>>

\* No look at is_free: a closed identifier still has the last file's size.
fat32_get_size(i) == handles[i].file_size

\* min() takes ints: from 2^31 on an argument counts as negative.
Signed(x) == IF x >= WORD \div 2 THEN x - WORD ELSE x
\* Mutant: the comparison is the wrong way round.
minSwapped(a, b) == IF Signed(a) > Signed(b) THEN a ELSE b

min(a, b) == IF Signed(a) < Signed(b) THEN a ELSE b

fat32_read(i, n) ==
  /\ Idle /\ vol.is_initialized /\ ~handles[i].is_free
  /\ rd' = [phase |-> "loop", id |-> i, n |-> n, before |-> handles[i],
            actual |-> min(n, (handles[i].file_size - handles[i].current_file_pos) % WORD),
            got |-> <<>>, ok |-> FALSE]
  /\ UNCHANGED <<medium, booted, vol, handles>>

Return(ok) == rd' = [rd EXCEPT !.phase = "idle", !.ok = ok]

\* A place of the buffer that a transfer counts and does not write: no sector.
Untouched == <<WORD, 0>>

\* Mutant: the last byte of a transfer is not counted.
PieceShort(lba, k, n) ==
  [j \in 1 .. (n - 1) |-> IF j <= n % UINT16 THEN <<lba, k + j - 1>> ELSE Untouched]

\* The bytes k, ..., k+n-1 of what the card sends of the sector at lba.  The caller
\* counts n of them; sdReadPartialBlock is asked for as many as a uint16_t holds.
Piece(lba, k, n) ==
  [j \in 1 .. n |-> IF j <= n % UINT16 THEN <<lba, k + j - 1>> ELSE Untouched]

\* Mutant: the bytes already taken from the sector for those left in it.
LeftInSectorTaken(skip) == skip

LeftInSector(skip) == vol.bytes_per_sector - skip

\* The loop's next transfer: up to the end of the sector or of the request.
ReadSector ==
  LET h    == handles[rd.id]
      skip == h.current_offset % vol.bytes_per_sector
      lba  == (fatClusterToLba(vol, h.current_cluster)
               + h.current_offset \div vol.bytes_per_sector) % WORD
      n    == min(rd.actual - Len(rd.got), LeftInSector(skip))
  IN  /\ rd.phase = "loop" /\ Len(rd.got) < rd.actual
      /\ rd' = [rd EXCEPT !.got = @ \o Piece(lba, skip, n),
                          !.phase = IF h.current_offset + n >= vol.bytes_per_cluster
                                      THEN "fat" ELSE "loop"]
      /\ handles' = [handles EXCEPT ![rd.id].current_file_pos = @ + n,
                                    ![rd.id].current_offset = @ + n]
      /\ UNCHANGED <<medium, booted, vol>>

\* The cluster is used up: find the next one before looking whether more is wanted.
NextCluster ==
  LET h   == handles[rd.id]
      res == getNextCluster(vol, medium, h.current_cluster)
  IN  /\ rd.phase = "fat"
      /\ \/ /\ res = "SUCCESS"
            /\ handles' = [handles EXCEPT ![rd.id].current_cluster = Entry(medium, h.current_cluster),
                                          ![rd.id].current_offset = 0]
            /\ rd' = [rd EXCEPT !.phase = "loop"]
         \/ res = "END_OF_CHAIN" /\ Return(TRUE) /\ UNCHANGED handles
         \/ res \notin {"SUCCESS", "END_OF_CHAIN"} /\ Return(FALSE) /\ UNCHANGED handles
      /\ UNCHANGED <<medium, booted, vol>>

\* sdReadPartialBlock returned false, for a sector of the file or of the FAT.
\* (Without a cluster in range the FAT is not read.)
TransferFails ==
  /\ \/ rd.phase = "loop" /\ Len(rd.got) < rd.actual
     \/ rd.phase = "fat" /\ InRange(vol, handles[rd.id].current_cluster)
  /\ Return(FALSE)
  /\ UNCHANGED <<medium, booted, vol, handles>>

ReturnTrue ==
  /\ rd.phase = "loop" /\ Len(rd.got) >= rd.actual
  /\ Return(TRUE)
  /\ UNCHANGED <<medium, booted, vol, handles>>

\* The CPU goes on with the read once a transfer has worked.
Step == ReadSector \/ NextCluster \/ ReturnTrue

Next ==
  \/ fat32_init
  \/ \E f \in medium.files : fat32_open(f)
  \/ \E i \in Ids : fat32_close(i)
  \/ \E i \in Ids, n \in ReadSizes : fat32_read(i, n)
  \/ \E i \in Ids : fat32_get_size(i) < WORD \div 2 /\ fat32_read(i, fat32_get_size(i))
  \/ TransferFails
  \/ Step

Spec == Init /\ [][Next]_vars
FairSpec == Spec /\ WF_vars(Step)

(***************************************************************************)
(* Properties.                                                             *)
(***************************************************************************)

\* Every field of a handle and of the read in progress has its C type.
TypeOK ==
  /\ medium \in Media /\ booted \in BOOLEAN /\ vol.is_initialized \in BOOLEAN
  /\ handles \in [Ids -> [cluster_start : Words, current_cluster : Words,
                          current_offset : Words, file_size : Words,
                          current_file_pos : Words, is_free : BOOLEAN]]
  /\ rd.phase \in {"idle", "loop", "fat"} /\ rd.id \in Ids
  /\ rd.actual \in Words /\ Len(rd.got) \in Words

\* A position never passes the end of the file, so the subtraction that bounds
\* a read does not wrap; and a read puts no more into the caller's buffer than
\* was asked for, as long as fewer than 2^31 bytes of the file are left (from
\* there on min() takes the rest of the file for a negative number).
WithinBounds ==
  /\ \A i \in Ids : handles[i].current_file_pos <= handles[i].file_size
  /\ rd.before.file_size - rd.before.current_file_pos < WORD \div 2 =>
       Len(rd.got) <= rd.n

\* The data area, from the first sector behind the FATs to the partition's last.
DataArea == vol.data_start_lba .. (vol.volume_start_lba + vol.total_sectors - 1)

\* getNextCluster passes on a FAT entry of 1 or behind the last cluster, and a
\* handle whose look-up failed reads on behind its cluster.  Within one read a
\* caller is given no more bytes from outside the data area than a sector and a
\* cluster: the look-up that follows is refused.  (Again with fewer than 2^31
\* bytes left: min() gives the whole rest to one transfer otherwise.)
StraysLittle ==
  vol.is_initialized /\ Plausible(vol, medium.bpb)
    /\ rd.before.file_size - rd.before.current_file_pos < WORD \div 2 =>
    Cardinality({j \in DOMAIN rd.got : rd.got[j][1] \notin DataArea})
      <= vol.bytes_per_sector + vol.bytes_per_cluster

\* Where byte p of the file that starts at cluster c is on the card.
ByteOf(v, m, c, p) ==
  LET o == p % v.bytes_per_cluster
  IN  <<fatClusterToLba(v, Chain(v, m, c)[p \div v.bytes_per_cluster])
          + o \div v.bytes_per_sector,
        o % v.bytes_per_sector>>

\* A directory entry that its cluster chain bears out: from each of its clusters
\* the FAT leads on to the next, and the last one is good too.
Sound(v, m, start, size) ==
  LET n == (size + v.bytes_per_cluster - 1) \div v.bytes_per_cluster
      next(k) == getNextCluster(v, m, Chain(v, m, start)[k])
  IN  /\ Plausible(v, m.bpb)
      /\ size < WORD \div 2
      /\ \A k \in 0 .. (n - 2) : next(k) = "SUCCESS"
      /\ n > 0 => next(n - 1) \in {"SUCCESS", "END_OF_CHAIN"}

\* The handle's cluster and offset are those of its position.  Not so once a
\* look-up in the FAT failed: the position has moved on, the cluster has not.
Aligned(v, m, h) ==
  \/ h.current_file_pos = h.file_size
  \/ /\ h.current_offset = h.current_file_pos % v.bytes_per_cluster
     /\ h.current_cluster
          = Chain(v, m, h.cluster_start)[h.current_file_pos \div v.bytes_per_cluster]

Exact == \A j \in DOMAIN rd.got :
           rd.got[j] = ByteOf(vol, medium, rd.before.cluster_start, rd.before.current_file_pos + j - 1)

InUse == IF vol.is_initialized THEN {i \in Ids : ~handles[i].is_free} ELSE {}

AbsHandle(v, m, h) ==
  [start |-> h.cluster_start, size |-> h.file_size, pos |-> h.current_file_pos,
   sure |-> Sound(v, m, h.cluster_start, h.file_size) /\ Aligned(v, m, h)]

\* A handle that is being read from still stands where the read began.
AbsOpen ==
  [i \in InUse |-> AbsHandle(vol, medium, IF ~Idle /\ i = rd.id THEN rd.before ELSE handles[i])]

AbsBusy == IF Idle THEN [id |-> -1, n |-> 0] ELSE [id |-> rd.id, n |-> rd.n]

AbsOut == IF Idle /\ rd # NoRead
            THEN [from |-> rd.before.current_file_pos, count |-> Len(rd.got),
                  exact |-> Exact, ok |-> rd.ok]
            ELSE [from |-> 0, count |-> 0, exact |-> TRUE, ok |-> FALSE]

AbsSound == IF vol.is_initialized
              THEN {f \in medium.files : Sound(vol, medium, f.start, f.size)} ELSE {}

Abs == INSTANCE FileApi WITH sound <- AbsSound, open <- AbsOpen, busy <- AbsBusy, out <- AbsOut

\* The file table implements the abstract one: whatever is opened, closed and
\* read in whatever order, with any transfer failing, a successful read of a
\* sound file delivers exactly the next bytes of the file.
ImplementsFileApi == Abs!ASpec

\* What a read has to do at most: a transfer and a look-up in the FAT for each byte.
ToDo == 2 * (rd.actual - Len(rd.got)) + (IF rd.phase = "fat" THEN 1 ELSE 0)

\* Every turn of a read's loop that does not end it brings it nearer to its end,
\* on damaged and circular chains and for files of any size too: no transfer is
\* empty, and no look-up follows another without one.
ReadsAdvance == [][~Idle /\ ~Idle' => ToDo' \in Nat /\ ToDo' < ToDo]_vars

\* Every read returns, on damaged and circular cluster chains too.
ReadsReturn == ~Idle ~> Idle
=============================================================================
