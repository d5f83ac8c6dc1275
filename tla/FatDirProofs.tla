---------------------------- MODULE FatDirProofs ----------------------------
(***************************************************************************)
(* For every medium, word size and path: the iterator keeps its types, a   *)
(* listing is complete, and a lookup gives the file its path leads to.     *)
(***************************************************************************)
EXTENDS FatDir, FatVolumeProofs, FiniteSetTheorems, SequenceTheorems

----------------------------------------------------------------------------
(***************************************************************************)
(* Types.                                                                  *)
(***************************************************************************)

Iterator == [cluster : Words, sector : Words, entry : Nat, valid : BOOLEAN,
             buffer : Int, lfn_checksum : 0 .. (BYTE - 1)]

IterOK ==
  /\ iter \in Iterator
  /\ iter.entry <= (IF vol.is_initialized THEN PerSector ELSE 0)
  /\ iter.valid => iter.buffer \in Words

NamesOK == parts \in 0 .. (BYTE - 1) /\ DOMAIN rows = 1 .. MAX_LFN_PARTS

Shaped(d) ==
  d = [kind |-> d.kind, phase |-> d.phase, path |-> d.path, left |-> d.left, start |-> d.start,
       res |-> d.res, info |-> d.info, seen |-> d.seen, clean |-> d.clean]

JobOK ==
  /\ Shaped(job)
  /\ job.kind \in {"none", "list", "find"} /\ job.phase \in {"done", "got", "turn"}
  /\ job.start \in Words
  /\ job.kind # "none" => vol.is_initialized
  /\ job.kind = "none" => job.phase = "done"
  /\ job.phase = "turn" => job.res = "SUCCESS"
  /\ job.kind = "list" /\ job.phase = "done" => job.res # "SUCCESS"
  /\ job.kind = "find" /\ job.phase # "turn" /\ job.res = "SUCCESS" => IsEntry(job.info.entry)

\* The types of all the variables.
Typed == VolumeOK /\ IterOK /\ NamesOK /\ JobOK

LEMMA Bytes == BYTE \in Nat /\ 0 \in 0 .. (BYTE - 1) /\ BYTE # 0
  BY DEF BYTE

LEMMA Geometry ==
  ASSUME VolumeOK, vol.is_initialized
  PROVE  /\ PerSector \in Nat \ {0}
         /\ vol.sectors_per_cluster \in Nat \ {0} /\ vol.sectors_per_cluster < WORD
         /\ vol.root_dir_cluster \in Words /\ vol.total_clusters \in Nat
         /\ medium \in Media /\ Partitioned(medium) /\ vol = Mounted(medium)
         /\ \A l \in Words, j \in 1 .. PerSector : IsEntry(medium.sectors[l][j])
<1>1. medium \in Media /\ Partitioned(medium) /\ vol = Mounted(medium)
  BY DEF VolumeOK
<1>2. vol.bytes_per_sector = medium.bpb.bytes_per_sector
  BY <1>1, MountedFields
<1>3. /\ vol.sectors_per_cluster \in Nat \ {0} /\ vol.sectors_per_cluster \in Words
      /\ vol.root_dir_cluster \in Words /\ vol.total_clusters \in Nat
      /\ vol.bytes_per_sector \in 1 .. (WORD \div 2 - 1)
  BY <1>1, MountedTypes
<1>4. vol.sectors_per_cluster < WORD
  BY <1>3, WordsAre
<1>5. vol.bytes_per_sector \in Nat
  BY <1>3, Half
<1>6. vol.bytes_per_sector >= 32
  BY <1>1, <1>2, SectorAssumption
<1>7. \A x \in Nat : x >= 32 => x \div 32 \in Nat \ {0}
  OBVIOUS
<1>8. PerSector \in Nat \ {0}
  BY <1>5, <1>6, <1>7 DEF PerSector
<1>9. \A l \in Words, j \in 1 .. PerSector : IsEntry(medium.sectors[l][j])
  BY <1>1, <1>2, SectorAssumption DEF PerSector
<1>10. QED BY <1>1, <1>3, <1>4, <1>8, <1>9

LEMMA IterFields ==
  ASSUME NEW it \in Iterator
  PROVE  /\ it.cluster \in Words /\ it.sector \in Words /\ it.entry \in Nat
         /\ it.valid \in BOOLEAN /\ it.buffer \in Int /\ it.lfn_checksum \in 0 .. (BYTE - 1)
  BY DEF Iterator

LEMMA FreshFields ==
  ASSUME NEW c \in Words
  PROVE  /\ Fresh(c) \in Iterator /\ Fresh(c).entry = 0 /\ ~Fresh(c).valid
         /\ Fresh(c).cluster = c /\ Fresh(c).sector = WORD - 1 /\ Fresh(c).lfn_checksum = 0
<1>1. WORD - 1 \in Words
  BY WordsAre
<1>2. QED BY <1>1, Bytes DEF Fresh, Iterator, NoBuffer

\* The next cluster of one that has a next.
LEMMA NextCluster ==
  ASSUME VolumeOK, vol.is_initialized, NEW c \in Words, getNextCluster(vol, medium, c) = "SUCCESS"
  PROVE  InRange(vol, c) /\ c \in 2 .. (vol.total_clusters + 1) /\ Entry(medium, c) \in Words
<1>1. InRange(vol, c)
  BY DEF getNextCluster
<1>2. QED BY <1>1, Geometry, WordsAre, EntryWord

LEMMA AdvancedFields ==
  ASSUME IterOK
  PROVE  /\ Advanced \in Iterator /\ Advanced.entry = 0 /\ Advanced.cluster = iter.cluster
         /\ Advanced.sector = (iter.sector + 1) % WORD /\ Advanced.buffer = iter.buffer
         /\ Advanced.valid = iter.valid /\ Advanced.lfn_checksum = iter.lfn_checksum
<1>1. iter \in Iterator /\ iter.sector \in Nat
  BY WordsAre, IterFields DEF IterOK
<1>2. (iter.sector + 1) % WORD \in Words
  BY <1>1, WordsAre
<1>3. QED BY <1>1, <1>2 DEF Advanced, Iterator

LEMMA MovedFields ==
  ASSUME VolumeOK, vol.is_initialized, IterOK, NeedsCluster => Link = "SUCCESS"
  PROVE  /\ Moved \in Iterator /\ Moved.entry = 0 /\ Moved.buffer = iter.buffer
         /\ Moved.valid = iter.valid /\ Moved.lfn_checksum = iter.lfn_checksum
         /\ Moved.cluster = IF NeedsCluster THEN Entry(medium, iter.cluster) ELSE iter.cluster
         /\ Moved.sector = IF NeedsCluster THEN 0 ELSE Advanced.sector
<1>1. iter.cluster \in Words
  BY IterFields DEF IterOK
<1>2. CASE NeedsCluster
  <2>1. Entry(medium, iter.cluster) \in Words /\ 0 \in Words
    BY <1>1, <1>2, NextCluster, WordsAre DEF Link
  <2>2. Moved = [Advanced EXCEPT !.cluster = Entry(medium, iter.cluster), !.sector = 0]
    BY <1>2 DEF Moved
  <2> HIDE DEF Advanced
  <2>3. QED BY <1>2, <2>1, <2>2, AdvancedFields DEF Iterator
<1>3. CASE ~NeedsCluster
  BY <1>3, AdvancedFields DEF Moved
<1>4. QED BY <1>2, <1>3

LEMMA LbaWord ==
  ASSUME VolumeOK, vol.is_initialized, NEW it \in Iterator PROVE Lba(it) \in Words
<1>1. it.cluster \in Nat /\ it.sector \in Nat
  BY IterFields, WordsAre
<1>2. vol.data_start_lba \in Nat /\ vol.sectors_per_cluster \in Nat
  BY Geometry, MountedTypes, WordsAre
<1>3. fatClusterToLba(vol, it.cluster) \in Nat
  <2>1. CASE it.cluster < 2
    BY <2>1 DEF fatClusterToLba
  <2>2. CASE ~(it.cluster < 2)
    <3>1. vol.data_start_lba + (it.cluster - 2) * vol.sectors_per_cluster \in Int
      BY <1>1, <1>2
    <3>2. QED BY <2>2, <3>1, WordsAre DEF fatClusterToLba
  <2>3. QED BY <2>1, <2>2
<1>4. QED BY <1>1, <1>3, WordsAre DEF Lba

\* The iterator whose sector is in the buffer, at an entry of it.
LEMMA LoadedFields ==
  ASSUME VolumeOK, vol.is_initialized, IterOK, NeedsSector /\ NeedsCluster => Link = "SUCCESS"
  PROVE  /\ Loaded \in Iterator /\ Loaded.entry < PerSector /\ Loaded.valid
         /\ Loaded.buffer \in Words /\ Loaded.lfn_checksum = iter.lfn_checksum
         /\ IsEntry(medium.sectors[Loaded.buffer][Loaded.entry + 1])
<1> DEFINE P == PerSector
<1>0. P \in Nat \ {0}
  BY Geometry
<1>1. iter \in Iterator /\ iter.entry \in Nat /\ iter.valid \in BOOLEAN
  BY IterFields DEF IterOK
<1>2. /\ Loaded \in Iterator /\ Loaded.entry < P /\ Loaded.valid
      /\ Loaded.buffer \in Words /\ Loaded.lfn_checksum = iter.lfn_checksum
  <2>1. CASE NeedsSector
    <3>1. Moved \in Iterator /\ Moved.entry = 0 /\ Moved.lfn_checksum = iter.lfn_checksum
      BY <2>1, MovedFields
    <3>2. Lba(Moved) \in Words /\ Lba(Moved) \in Int
      BY <3>1, LbaWord, WordsAre
    <3>3. Loaded = [Moved EXCEPT !.buffer = Lba(Moved), !.valid = TRUE]
      BY <2>1 DEF Loaded
    <3> HIDE DEF P
    <3>4. /\ Loaded \in Iterator /\ Loaded.entry = Moved.entry /\ Loaded.valid
          /\ Loaded.buffer = Lba(Moved) /\ Loaded.lfn_checksum = Moved.lfn_checksum
      <4> DEFINE m == Moved
                 l == Lba(m)
                 q == Loaded
      <4>1. m \in Iterator /\ l \in Int /\ q = [m EXCEPT !.buffer = l, !.valid = TRUE]
        BY <3>1, <3>2, <3>3
      <4> HIDE DEF m, l, q
      <4>2. /\ q \in Iterator /\ q.entry = m.entry /\ q.valid /\ q.buffer = l
            /\ q.lfn_checksum = m.lfn_checksum
        BY <4>1 DEF Iterator
      <4>3. QED BY <4>2 DEF m, l, q
    <3>5. QED BY <3>1, <3>2, <3>4, <1>0
  <2>2. CASE ~NeedsSector
    <3>1. Loaded = iter /\ iter.valid /\ ~(iter.entry >= P)
      BY <2>2 DEF Loaded, NeedsSector
    <3> HIDE DEF P
    <3>2. QED BY <3>1, <1>0, <1>1 DEF IterOK
  <2>3. QED BY <2>1, <2>2
<1>3. Loaded.entry + 1 \in 1 .. P
  <2>1. Loaded.entry \in Nat
    BY <1>2, IterFields
  <2> HIDE DEF P
  <2>2. QED BY <2>1, <1>0, <1>2
<1>4. IsEntry(medium.sectors[Loaded.buffer][Loaded.entry + 1])
  BY <1>2, <1>3, Geometry
<1>5. QED BY <1>2, <1>4

\* Past the entry, with the checksum k.
Past(it, k) == [Passed(it) EXCEPT !.lfn_checksum = k]

LEMMA PastFields ==
  ASSUME NEW it \in Iterator, NEW k \in 0 .. (BYTE - 1)
  PROVE  /\ Past(it, k) \in Iterator /\ Past(it, k).entry = it.entry + 1
         /\ Past(it, k).valid = it.valid /\ Past(it, k).buffer = it.buffer
         /\ Past(it, k).cluster = it.cluster /\ Past(it, k).sector = it.sector
         /\ Past(it, k).lfn_checksum = k
<1> DEFINE q == Past(it, k)
<1>1. it.entry + 1 \in Nat
  BY IterFields
<1>2. q = [cluster |-> it.cluster, sector |-> it.sector, entry |-> it.entry + 1,
           valid |-> it.valid, buffer |-> it.buffer, lfn_checksum |-> k]
  <2>1. Passed(it) = [cluster |-> it.cluster, sector |-> it.sector, entry |-> it.entry + 1,
                      valid |-> it.valid, buffer |-> it.buffer, lfn_checksum |-> it.lfn_checksum]
    BY DEF Passed, Iterator
  <2>2. QED BY <2>1 DEF Past
<1> HIDE DEF q
<1>3. q \in Iterator
  BY <1>1, <1>2, IterFields DEF Iterator
<1>4. q.valid = it.valid
  BY <1>2
<1>5. /\ q.entry = it.entry + 1 /\ q.buffer = it.buffer
      /\ q.cluster = it.cluster /\ q.sector = it.sector /\ q.lfn_checksum = k
  BY <1>2
<1>6. QED BY <1>3, <1>4, <1>5 DEF q

LEMMA PlainPast == ASSUME NEW it \in Iterator PROVE Passed(it) = Past(it, it.lfn_checksum)
  BY DEF Past, Passed, Iterator

LEMMA TypedInit == Init => Typed
<1> SUFFICES ASSUME Init PROVE Typed
  OBVIOUS
<1>1. VolumeOK
  BY VolumeInit DEF Init
<1>2. IterOK
  <2>1. 0 \in Words
    BY WordsAre
  <2>2. vol.is_initialized = FALSE
    BY DEF Init, VolInit, NoVolume
  <2>3. QED BY <2>1, <2>2, FreshFields DEF Init, IterOK
<1>3. NamesOK
  BY Bytes DEF Init, NamesOK
<1>4. JobOK
  <2>1. 0 \in Words
    BY WordsAre
  <2>2. QED BY <2>1 DEF Init, JobOK, NoJob, Shaped
<1>5. QED BY <1>1, <1>2, <1>3, <1>4 DEF Typed

LEMMA TypedMount == ASSUME Typed, fat32_init PROVE Typed'
<1>1. /\ VolumeOK /\ (MountFails \/ MountWorks) /\ iter' = iter /\ parts' = parts
      /\ rows' = rows /\ job' = job
  BY DEF Typed, fat32_init
<1>2. VolumeOK'
  BY <1>1, MountStep
<1>3. ~booted
  BY <1>1 DEF MountFails, MountWorks
<1>4. vol = NoVolume /\ ~vol.is_initialized
  BY <1>1, <1>3 DEF VolumeOK, NoVolume
<1>5. job.kind = "none"
  BY <1>4 DEF Typed, JobOK
<1>6. IterOK'
  <2>1. iter \in Iterator /\ iter.entry = 0 /\ (iter.valid => iter.buffer \in Words)
    BY <1>4, IterFields DEF Typed, IterOK
  <2>2. vol'.is_initialized => PerSector' \in Nat \ {0}
    <3>1. (VolumeOK /\ vol.is_initialized => PerSector \in Nat \ {0})'
      BY Geometry, PTL
    <3>2. QED BY <3>1, <1>2
  <2>3. iter.entry <= (IF vol'.is_initialized THEN PerSector' ELSE 0)
    BY <2>1, <2>2
  <2>4. QED BY <1>1, <2>1, <2>3 DEF IterOK
<1>7. NamesOK'
  BY <1>1 DEF Typed, NamesOK
<1>8. JobOK'
  BY <1>1, <1>5 DEF Typed, JobOK
<1>9. QED BY <1>2, <1>6, <1>7, <1>8 DEF Typed

LEMMA EnterNames == ASSUME Enter PROVE NamesOK'
  BY DirAssumption DEF Enter, NamesOK

LEMMA VolumeSame ==
  ASSUME VolumeOK, UNCHANGED <<medium, booted, vol>>
  PROVE  VolumeOK' /\ PerSector' = PerSector
  BY DEF VolumeOK, PerSector

LEMMA FreshOK ==
  ASSUME VolumeOK, vol.is_initialized, UNCHANGED <<medium, booted, vol>>, NEW c \in Words,
         iter' = Fresh(c)
  PROVE  IterOK'
<1>1. PerSector' \in Nat /\ vol'.is_initialized
  BY Geometry, VolumeSame
<1>2. QED BY <1>1, FreshFields DEF IterOK

LEMMA IterSame ==
  ASSUME VolumeOK, IterOK, UNCHANGED <<medium, booted, vol, iter>> PROVE IterOK'
  BY VolumeSame DEF IterOK

LEMMA TypedStart ==
  ASSUME Typed, NEW c \in medium.dirs, fat_init_root_dir_iterator(c) PROVE Typed'
<1>1. /\ vol.is_initialized /\ iter' = Fresh(c) /\ UNCHANGED <<medium, booted, vol, parts, rows>>
      /\ job' = [NoJob EXCEPT !.kind = "list", !.phase = "got", !.start = c]
  BY DEF fat_init_root_dir_iterator
<1>2. c \in Words
  BY SectorAssumption DEF Typed, VolumeOK
<1>3. VolumeOK' /\ IterOK'
  BY <1>1, <1>2, VolumeSame, FreshOK DEF Typed
<1>4. NamesOK'
  BY <1>1 DEF Typed, NamesOK
<1>5. JobOK'
  BY <1>1, <1>2 DEF NoJob, JobOK, Shaped
<1>6. QED BY <1>3, <1>4, <1>5 DEF Typed

LEMMA TypedFind == ASSUME Typed, NEW path \in Paths, get_file(path) PROVE Typed'
<1>1. /\ vol.is_initialized /\ iter' = Fresh(vol.root_dir_cluster) /\ Enter
      /\ UNCHANGED <<medium, booted, vol>>
      /\ job' = [NoJob EXCEPT !.kind = "find", !.phase = "turn", !.path = path,
                              !.left = Skip(path), !.start = vol.root_dir_cluster]
  BY DEF get_file
<1>2. vol.root_dir_cluster \in Words
  BY <1>1, Geometry DEF Typed
<1>3. VolumeOK' /\ IterOK'
  BY <1>1, <1>2, VolumeSame, FreshOK DEF Typed
<1>4. NamesOK'
  BY <1>1, EnterNames
<1>5. JobOK'
  BY <1>1, <1>2 DEF NoJob, JobOK, Shaped
<1>6. QED BY <1>3, <1>4, <1>5 DEF Typed

LEMMA TypedNext == ASSUME Typed, fat_read_next_dir_entry PROVE Typed'
<1>1. /\ Enter /\ UNCHANGED <<medium, booted, vol, iter>> /\ job.kind = "list"
      /\ job.res = "SUCCESS" /\ job' = [job EXCEPT !.phase = "turn"]
  BY DEF fat_read_next_dir_entry
<1>2. VolumeOK' /\ IterOK' /\ NamesOK'
  BY <1>1, VolumeSame, IterSame, EnterNames DEF Typed
<1>3. JobOK'
  BY <1>1 DEF Typed, JobOK, Shaped
<1>4. QED BY <1>2, <1>3 DEF Typed

LEMMA TypedListed == ASSUME Typed, Listed PROVE Typed'
<1>1. /\ UNCHANGED <<medium, booted, vol, iter, parts, rows>> /\ job.kind = "list"
      /\ job.res # "SUCCESS" /\ job' = [job EXCEPT !.phase = "done", !.res = job.res]
  BY DEF Listed, Finish
<1>2. VolumeOK' /\ IterOK' /\ NamesOK'
  BY <1>1, VolumeSame, IterSame DEF Typed, NamesOK
<1>3. JobOK'
  BY <1>1 DEF Typed, JobOK, Shaped
<1>4. QED BY <1>2, <1>3 DEF Typed

\* The entry that the next turn takes.
Under == medium.sectors[Loaded.buffer][Loaded.entry + 1]

\* What the iterator gives for a file or directory e.
InfoOf(e) == [name |-> NameOf(e), entry |-> e]

\* What a turn does: it moves past the entry, and returns the end of the
\* directory, or what is shown of it, or goes on.
LEMMA TakeShape ==
  ASSUME Typed, TakeEntry
  PROVE  /\ job.phase = "turn" /\ vol.is_initialized /\ IsEntry(Under)
         /\ NeedsSector /\ NeedsCluster => Link = "SUCCESS"
         /\ UNCHANGED <<medium, booted, vol>> /\ NamesOK'
         /\ \E k \in 0 .. (BYTE - 1) : iter' = Past(Loaded, k)
                                        /\ (Under.kind = "sfn" => k = 0)
                                        /\ (Under.kind \in {"end", "deleted"} => k = iter.lfn_checksum)
         /\ \/ Under.kind = "end" /\ Got("NO_MORE_ENTRIES", NoInfo)
            \/ Under.kind # "end" /\ ~Shown(Under) /\ job' = job
            \/ Shown(Under) /\ Got("SUCCESS", InfoOf(Under))
<1>1. /\ job.phase = "turn" /\ (NeedsSector /\ NeedsCluster => Link = "SUCCESS")
      /\ UNCHANGED <<medium, booted, vol>>
  BY DEF TakeEntry
<1>2. vol.is_initialized
  BY <1>1 DEF Typed, JobOK
<1>3. Loaded \in Iterator /\ Loaded.lfn_checksum = iter.lfn_checksum /\ IsEntry(Under)
  BY <1>1, <1>2, LoadedFields DEF Typed, Under
<1>4. iter.lfn_checksum \in 0 .. (BYTE - 1) /\ 0 \in 0 .. (BYTE - 1)
  BY Bytes, IterFields DEF Typed, IterOK
<1>5. Passed(Loaded) = Past(Loaded, iter.lfn_checksum)
  BY <1>3, PlainPast
<1>6. \/ EndMark(Under) /\ iter' = Passed(Loaded) /\ UNCHANGED <<parts, rows>>
           /\ Got("NO_MORE_ENTRIES", NoInfo)
      \/ Under.kind = "deleted" /\ iter' = Passed(Loaded) /\ UNCHANGED <<parts, rows, job>>
      \/ Under.kind = "lfn" /\ TakePiece(Under)
      \/ Under.kind = "sfn" /\ TakeShort(Under)
  BY DEF TakeEntry, Under
<1> DEFINE Moves == /\ NamesOK'
                    /\ \E k \in 0 .. (BYTE - 1) :
                          /\ iter' = Past(Loaded, k)
                          /\ Under.kind = "sfn" => k = 0
                          /\ Under.kind \in {"end", "deleted"} => k = iter.lfn_checksum
           Gives == \/ Under.kind = "end" /\ Got("NO_MORE_ENTRIES", NoInfo)
                    \/ Under.kind # "end" /\ ~Shown(Under) /\ job' = job
                    \/ Shown(Under) /\ Got("SUCCESS", InfoOf(Under))
<1>7. CASE /\ EndMark(Under) /\ iter' = Passed(Loaded) /\ UNCHANGED <<parts, rows>>
           /\ Got("NO_MORE_ENTRIES", NoInfo)
  <2>1. Under.kind = "end"
    BY <1>7 DEF EndMark
  <2>2. Moves
    BY <1>4, <1>5, <1>7, <2>1 DEF Typed, NamesOK
  <2>3. QED BY <1>1, <1>2, <1>3, <1>7, <2>1, <2>2
<1>8. CASE Under.kind = "deleted" /\ iter' = Passed(Loaded) /\ UNCHANGED <<parts, rows, job>>
  <2>1. Moves
    BY <1>4, <1>5, <1>8 DEF Typed, NamesOK
  <2>2. Gives
    BY <1>8 DEF Shown
  <2>3. QED BY <1>1, <1>2, <1>3, <2>1, <2>2
<1>9. CASE Under.kind = "lfn" /\ TakePiece(Under)
  <2> DEFINE k == IF ~KeepsPiece(Under) THEN 0
                  ELSE IF Under.last THEN Under.sum ELSE Loaded.lfn_checksum
  <2>1. k \in 0 .. (BYTE - 1)
    BY <1>3, <1>4 DEF IsEntry
  <2>2. iter' = Past(Loaded, k)
    <3>1. Passed(Loaded).lfn_checksum = Loaded.lfn_checksum
      BY <1>3 DEF Passed, Iterator
    <3>2. QED BY <1>9, <3>1 DEF TakePiece, Past
  <2> HIDE DEF k
  <2>3. NamesOK'
    <3>1. parts \in Int /\ BYTE \in Nat \ {0}
      BY Bytes DEF Typed, NamesOK
    <3>2. (parts + 1) % BYTE \in 0 .. (BYTE - 1)
      BY <3>1
    <3>3. QED BY <1>4, <1>9, <3>2 DEF TakePiece, Typed, NamesOK
  <2>4. Gives
    BY <1>9 DEF TakePiece, Shown
  <2>5. QED BY <1>1, <1>2, <1>3, <1>9, <2>1, <2>2, <2>3, <2>4
<1>10. CASE Under.kind = "sfn" /\ TakeShort(Under)
  <2>1. iter' = Past(Loaded, 0) /\ parts' = 0 /\ rows' = rows
    BY <1>10 DEF TakeShort, Past
  <2>2. NamesOK'
    BY <1>4, <2>1 DEF Typed, NamesOK
  <2>3. Gives
    BY <1>3, <1>10 DEF TakeShort, Shown, InfoOf, IsEntry
  <2>4. QED BY <1>1, <1>2, <1>3, <1>4, <1>10, <2>1, <2>2, <2>3
<1>11. QED BY <1>6, <1>7, <1>8, <1>9, <1>10

LEMMA PastOK ==
  ASSUME VolumeOK, vol.is_initialized, IterOK, NeedsSector /\ NeedsCluster => Link = "SUCCESS",
         UNCHANGED <<medium, booted, vol>>, NEW k \in 0 .. (BYTE - 1), iter' = Past(Loaded, k)
  PROVE  IterOK'
<1> DEFINE q == Past(Loaded, k)
<1>1. /\ q \in Iterator /\ q.entry = Loaded.entry + 1 /\ q.buffer = Loaded.buffer
      /\ Loaded.buffer \in Words /\ Loaded.entry < PerSector /\ Loaded.entry \in Nat
  BY LoadedFields, PastFields, IterFields
<1>2. PerSector' = PerSector /\ vol'.is_initialized /\ PerSector \in Nat
  BY VolumeSame, Geometry
<1> HIDE DEF q
<1>3. q.entry <= PerSector
  BY <1>1, <1>2
<1>4. QED BY <1>1, <1>2, <1>3 DEF IterOK, q

LEMMA TypedTake == ASSUME Typed, TakeEntry PROVE Typed'
<1>1. /\ job.phase = "turn" /\ vol.is_initialized /\ IsEntry(Under)
      /\ (NeedsSector /\ NeedsCluster => Link = "SUCCESS")
      /\ UNCHANGED <<medium, booted, vol>> /\ NamesOK'
  BY TakeShape
<1>2. PICK k \in 0 .. (BYTE - 1) : iter' = Past(Loaded, k)
  BY TakeShape
<1>3. VolumeOK' /\ IterOK'
  BY <1>1, <1>2, VolumeSame, PastOK DEF Typed
<1>4. JobOK'
  <2>1. CASE job' = job
    BY <1>1, <2>1 DEF Typed, JobOK
  <2>2. CASE Got("NO_MORE_ENTRIES", NoInfo)
    BY <1>1, <2>2 DEF Typed, JobOK, Got, Shaped
  <2>3. CASE Got("SUCCESS", InfoOf(Under))
    <3>1. InfoOf(Under).entry = Under
      BY DEF InfoOf
    <3> HIDE DEF InfoOf
    <3>2. /\ job'.kind = job.kind /\ job'.phase = "got" /\ job'.res = "SUCCESS"
          /\ job'.info = InfoOf(Under) /\ job'.start = job.start /\ Shaped(job')
      BY <2>3 DEF Typed, JobOK, Got, Shaped
    <3>3. QED BY <1>1, <3>1, <3>2 DEF Typed, JobOK
  <2>4. QED BY <2>1, <2>2, <2>3, TakeShape
<1>5. QED BY <1>1, <1>3, <1>4 DEF Typed

\* What ends a directory without its end mark.
LEMMA LinkFails ==
  ASSUME VolumeOK, vol.is_initialized, NEW c, getNextCluster(vol, medium, c) # "SUCCESS"
  PROVE  getNextCluster(vol, medium, c) \in {"INVALID_CLUSTER", "BAD_CLUSTER", "END_OF_CHAIN"}
  BY DEF getNextCluster

LEMMA TypedEnds == ASSUME Typed, ChainEnds PROVE Typed'
<1>1. /\ job.phase = "turn" /\ Link # "SUCCESS" /\ iter' = Advanced /\ Got(Link, NoInfo)
      /\ UNCHANGED <<medium, booted, vol, parts, rows>>
  BY DEF ChainEnds
<1>2. vol.is_initialized
  BY <1>1 DEF Typed, JobOK
<1>3. VolumeOK' /\ NamesOK' /\ PerSector' \in Nat
  BY <1>1, <1>2, VolumeSame, Geometry DEF Typed, NamesOK
<1>4. IterOK'
  <2> DEFINE q == Advanced
  <2>1. q \in Iterator /\ q.entry = 0 /\ (q.valid => q.buffer \in Words)
    BY AdvancedFields DEF Typed, IterOK
  <2> HIDE DEF q
  <2>2. QED BY <1>1, <1>2, <1>3, <2>1 DEF IterOK, q
<1>5. JobOK'
  BY <1>1 DEF Typed, JobOK, Got, Shaped
<1>6. QED BY <1>3, <1>4, <1>5 DEF Typed

LEMMA TypedFails == ASSUME Typed, LoadFails PROVE Typed'
<1>1. /\ job.phase = "turn" /\ UNCHANGED <<medium, booted, vol, parts, rows>>
      /\ \/ iter' = Advanced
         \/ (NeedsCluster => Link = "SUCCESS") /\ iter' = Moved
      /\ job' = [job EXCEPT !.phase = "got", !.res = "READ_FAIL", !.info = NoInfo, !.clean = FALSE]
  BY DEF LoadFails
<1>2. vol.is_initialized
  BY <1>1 DEF Typed, JobOK
<1>3. VolumeOK' /\ NamesOK' /\ PerSector' \in Nat
  BY <1>1, <1>2, VolumeSame, Geometry DEF Typed, NamesOK
<1>4. IterOK'
  <2>1. iter' \in Iterator /\ iter'.entry = 0 /\ (iter'.valid => iter'.buffer \in Words)
    <3>1. CASE iter' = Advanced
      <4> DEFINE q == Advanced
      <4>1. q \in Iterator /\ q.entry = 0 /\ (q.valid => q.buffer \in Words)
        BY AdvancedFields DEF Typed, IterOK
      <4> HIDE DEF q
      <4>2. QED BY <3>1, <4>1 DEF q
    <3>2. CASE (NeedsCluster => Link = "SUCCESS") /\ iter' = Moved
      <4> DEFINE q == Moved
      <4>1. q \in Iterator /\ q.entry = 0 /\ (q.valid => q.buffer \in Words)
        BY <1>2, <3>2, MovedFields DEF Typed, IterOK
      <4> HIDE DEF q
      <4>2. QED BY <3>2, <4>1 DEF q
    <3>3. QED BY <1>1, <3>1, <3>2
  <2>2. QED BY <1>1, <1>2, <1>3, <2>1 DEF IterOK
<1>5. JobOK'
  BY <1>1 DEF Typed, JobOK, Shaped
<1>6. QED BY <1>3, <1>4, <1>5 DEF Typed

LEMMA TypedCompare == ASSUME Typed, Compare PROVE Typed'
<1>1. job.kind = "find" /\ job.phase = "got" /\ UNCHANGED <<medium, booted, vol>>
  BY DEF Compare
<1>2. vol.is_initialized
  BY <1>1 DEF Typed, JobOK
<1>3. VolumeOK'
  BY <1>1, VolumeSame DEF Typed
<1>4. CASE /\ Matches /\ ~Final /\ job.info.entry.dir /\ iter' = Fresh(job.info.entry.start)
           /\ job' = [job EXCEPT !.phase = "turn", !.left = Skip(Tail(@)),
                                 !.start = job.info.entry.start] /\ Enter
  <2>1. job.res = "SUCCESS" /\ job.info.entry.start \in Words
    BY <1>1, <1>4 DEF Matches, Typed, JobOK, IsEntry
  <2>2. IterOK' /\ NamesOK'
    BY <1>1, <1>2, <1>4, <2>1, FreshOK, EnterNames DEF Typed
  <2>3. JobOK'
    BY <1>1, <1>2, <1>4, <2>1 DEF Typed, JobOK, Shaped
  <2>4. QED BY <1>3, <2>2, <2>3 DEF Typed
<1>5. CASE /\ Matches /\ Final /\ UNCHANGED <<iter, parts, rows>>
           /\ Finish(IF job.info.entry.dir THEN "FILE_NOT_FOUND" ELSE "SUCCESS")
  <2>1. IterOK' /\ NamesOK'
    BY <1>1, <1>5, IterSame DEF Typed, NamesOK
  <2>2. job.res = "SUCCESS" /\ IsEntry(job.info.entry)
    BY <1>1, <1>5 DEF Matches, Typed, JobOK
  <2>3. JobOK'
    BY <1>1, <1>2, <1>5, <2>2 DEF Typed, JobOK, Shaped, Finish
  <2>4. QED BY <1>3, <2>1, <2>3 DEF Typed
<1>6. CASE /\ job.res = "SUCCESS" /\ (~Matches \/ (~Final /\ ~job.info.entry.dir))
           /\ job' = [job EXCEPT !.phase = "turn"] /\ Enter /\ UNCHANGED iter
  <2>1. IterOK' /\ NamesOK'
    BY <1>1, <1>6, IterSame, EnterNames DEF Typed
  <2>2. JobOK'
    BY <1>1, <1>2, <1>6 DEF Typed, JobOK, Shaped
  <2>3. QED BY <1>3, <2>1, <2>2 DEF Typed
<1>7. CASE /\ job.res # "SUCCESS" /\ UNCHANGED <<iter, parts, rows>>
           /\ Finish(IF job.res = "NO_MORE_ENTRIES" THEN "FILE_NOT_FOUND" ELSE job.res)
  <2>1. IterOK' /\ NamesOK'
    BY <1>1, <1>7, IterSame DEF Typed, NamesOK
  <2>2. JobOK'
    BY <1>1, <1>2, <1>7 DEF Typed, JobOK, Shaped, Finish
  <2>3. QED BY <1>3, <2>1, <2>2 DEF Typed
<1>8. QED BY <1>4, <1>5, <1>6, <1>7 DEF Compare

LEMMA TypedStep == ASSUME Typed, [Next]_vars PROVE Typed'
<1>1. CASE UNCHANGED vars
  BY <1>1, VolumeSame, IterSame DEF vars, Typed, NamesOK, JobOK
<1>2. CASE Next
  BY <1>2, TypedMount, TypedStart, TypedFind, TypedNext, TypedListed, TypedTake, TypedEnds,
     TypedFails, TypedCompare DEF Next, Step
<1>3. QED BY <1>1, <1>2

LEMMA TypedAlways == Spec => []Typed
  BY TypedInit, TypedStep, PTL DEF Spec

\* In every reachable state the directory iterator, the LFN counter and the
\* lookup have their types: the cursor of fat_read_next_dir_entry never passes
\* the entries of its sector, and the sector counter that starts at -1 wraps to 0.
THEOREM TypeCorrect == Spec => []TypeOK
<1>1. Typed => TypeOK
  <2> SUFFICES ASSUME Typed PROVE TypeOK
    OBVIOUS
  <2>1. /\ iter.cluster \in Words /\ iter.sector \in Words /\ iter.entry \in Nat
        /\ iter.valid \in BOOLEAN /\ iter.lfn_checksum \in 0 .. (BYTE - 1)
    BY IterFields DEF Typed, IterOK
  <2>2. iter.entry \in 0 .. (IF vol.is_initialized THEN PerSector ELSE 0)
    <3>1. CASE vol.is_initialized
      BY <2>1, <3>1, Geometry DEF Typed, IterOK
    <3>2. CASE ~vol.is_initialized
      BY <2>1, <3>2 DEF Typed, IterOK
    <3>3. QED BY <3>1, <3>2
  <2>3. QED BY <2>1, <2>2 DEF TypeOK, Typed, NamesOK, JobOK, Words
<1>2. QED BY <1>1, TypedAlways, PTL

----------------------------------------------------------------------------
(***************************************************************************)
(* Where the iterator is.                                                  *)
(***************************************************************************)

\* The place, counted in entries from the first of the directory, of entry e in
\* sector s of the cluster that a links lead to.
Place(a, s, e) == (a * vol.sectors_per_cluster + s) * PerSector + e

\* The clusters before a all have a next one.
Reaches(c, a) ==
  a \in Nat /\ \A k \in 0 .. (a - 1) :
                 getNextCluster(vol, medium, Chain(vol, medium, c)[k]) = "SUCCESS"

\* The sector in the buffer of it is one of that cluster.
On(c, it, a) ==
  /\ Reaches(c, a) /\ it.valid /\ it.cluster = Chain(vol, medium, c)[a]
  /\ it.sector < vol.sectors_per_cluster /\ it.buffer = Lba(it)

\* The iterator it over the directory at c has passed pos entries.
At(c, it, pos) ==
  \/ ~it.valid /\ it.cluster = c /\ it.sector = WORD - 1 /\ pos = 0
  \/ \E a \in Nat : On(c, it, a) /\ pos = Place(a, it.sector, it.entry)

LEMMA PlaceNat ==
  ASSUME VolumeOK, vol.is_initialized, NEW a \in Nat, NEW s \in Nat, NEW e \in Nat
  PROVE  Place(a, s, e) \in Nat
<1> DEFINE P == PerSector
           spc == vol.sectors_per_cluster
<1>1. P \in Nat /\ spc \in Nat
  BY Geometry
<1> HIDE DEF P, spc
<1>2. (a * spc + s) * P + e \in Nat
  BY <1>1
<1>3. QED BY <1>2 DEF Place, P, spc

\* From the last entry of a sector, or of a cluster, to the first of the next.
LEMMA PlaceNext ==
  ASSUME VolumeOK, vol.is_initialized, NEW a \in Nat, NEW s \in Nat
  PROVE  /\ Place(a, s, PerSector) = Place(a, s + 1, 0)
         /\ s + 1 = vol.sectors_per_cluster => Place(a, s, PerSector) = Place(a + 1, 0, 0)
<1> DEFINE P == PerSector
           spc == vol.sectors_per_cluster
<1>1. P \in Nat /\ spc \in Nat
  BY Geometry
<1> HIDE DEF P, spc
<1>2. (a * spc + s) * P + P = (a * spc + s + 1) * P
  BY <1>1
<1>3. s + 1 = spc => a * spc + s + 1 = (a + 1) * spc
  BY <1>1
<1>4. /\ (a * spc + s + 1) * P = (a * spc + (s + 1)) * P + 0
      /\ (a + 1) * spc * P = ((a + 1) * spc + 0) * P + 0
  BY <1>1
<1>5. QED BY <1>2, <1>3, <1>4 DEF Place, P, spc

LEMMA ChainOf ==
  ASSUME VolumeOK, vol.is_initialized, NEW c \in Words
  PROVE  /\ Chain(vol, medium, c) \in [Nat -> Words]
         /\ Chain(vol, medium, c)[0] = c
         /\ \A k \in Nat : getNextCluster(vol, medium, Chain(vol, medium, c)[k]) = "SUCCESS" =>
                             Chain(vol, medium, c)[k + 1] = Entry(medium, Chain(vol, medium, c)[k])
<1> DEFINE f == Chain(vol, medium, c)
<1>1. /\ f \in [Nat -> Words] /\ f[0] = c
      /\ \A k \in Nat : InRange(vol, f[k]) => f[k + 1] = Entry(medium, f[k])
  BY ChainLinks DEF VolumeOK
<1> HIDE DEF f
<1>2. \A k \in Nat : f[k] \in Words
  BY <1>1
<1>3. \A k \in Nat : getNextCluster(vol, medium, f[k]) = "SUCCESS" => InRange(vol, f[k])
  BY <1>2, NextCluster
<1>4. QED BY <1>1, <1>3 DEF f

\* The entry at a place.
LEMMA SlotPlace ==
  ASSUME VolumeOK, vol.is_initialized, NEW c \in Words, NEW a \in Nat, NEW b \in Nat, NEW e \in Nat,
         b < vol.sectors_per_cluster, e < PerSector
  PROVE  Slot(c, Place(a, b, e))
           = medium.sectors[(fatClusterToLba(vol, Chain(vol, medium, c)[a]) + b) % WORD][e + 1]
<1> DEFINE P == PerSector
           spc == vol.sectors_per_cluster
           s == a * spc + b
           j == Place(a, b, e)
<1>1. P \in Nat \ {0} /\ spc \in Nat \ {0} /\ b < spc /\ e < P
  BY Geometry
<1>2. j = s * P + e
  BY DEF Place
<1>3. Slot(c, j) = medium.sectors[(fatClusterToLba(vol, Chain(vol, medium, c)[(j \div P) \div spc])
                                    + ((j \div P) % spc)) % WORD][(j % P) + 1]
  BY DEF Slot
<1> HIDE DEF P, spc, j
<1>4. s \in Nat /\ s \div spc = a /\ s % spc = b
  BY <1>1, Divided
<1> HIDE DEF s
<1>5. j \div P = s /\ j % P = e
  BY <1>1, <1>2, <1>4, Divided
<1>6. QED BY <1>3, <1>4, <1>5 DEF j

\* The entry under the cursor is the one at its place in the directory.
LEMMA SlotAt ==
  ASSUME VolumeOK, vol.is_initialized, NEW c \in Words, NEW it \in Iterator, NEW a \in Nat,
         On(c, it, a), it.entry < PerSector
  PROVE  Slot(c, Place(a, it.sector, it.entry)) = medium.sectors[it.buffer][it.entry + 1]
<1>1. it.sector \in Nat /\ it.entry \in Nat
  BY IterFields, WordsAre
<1>2. it.sector < vol.sectors_per_cluster /\ it.cluster = Chain(vol, medium, c)[a]
      /\ it.buffer = Lba(it)
  BY DEF On
<1>3. QED BY <1>1, <1>2, SlotPlace DEF Lba

\* Loading the next sector, and the next cluster, keeps the iterator's place.
LEMMA LoadedAt ==
  ASSUME VolumeOK, vol.is_initialized, IterOK, NeedsSector /\ NeedsCluster => Link = "SUCCESS",
         NEW c \in Words, NEW pos, At(c, iter, pos)
  PROVE  \E a \in Nat : On(c, Loaded, a) /\ pos = Place(a, Loaded.sector, Loaded.entry)
<1> DEFINE f == Chain(vol, medium, c)
           P == PerSector
           spc == vol.sectors_per_cluster
           q == Loaded
<1>1. /\ iter \in Iterator /\ iter.entry \in Nat /\ iter.sector \in Nat /\ iter.valid \in BOOLEAN
      /\ iter.sector < WORD /\ iter.entry <= P
  BY IterFields, WordsAre DEF IterOK
<1>2. P \in Nat \ {0} /\ spc \in Nat \ {0} /\ spc < WORD
  BY Geometry
<1>3. f \in [Nat -> Words] /\ f[0] = c
      /\ \A k \in Nat : getNextCluster(vol, medium, f[k]) = "SUCCESS" => f[k + 1] = Entry(medium, f[k])
  BY ChainOf
<1>4. CASE ~NeedsSector
  <2>1. q = iter /\ iter.valid
    BY <1>4 DEF Loaded, NeedsSector
  <2>2. QED BY <2>1 DEF At
<1>5. CASE NeedsSector
  <2>1. /\ Moved \in Iterator /\ Moved.entry = 0
        /\ Moved.cluster = IF NeedsCluster THEN Entry(medium, iter.cluster) ELSE iter.cluster
        /\ Moved.sector = IF NeedsCluster THEN 0 ELSE Advanced.sector
    BY <1>5, MovedFields
  <2>2. NeedsCluster <=> Advanced.sector >= spc
    BY DEF NeedsCluster
  <2>3. Advanced.sector = (iter.sector + 1) % WORD
    BY AdvancedFields
  <2>4. /\ q.valid /\ q.cluster = Moved.cluster /\ q.sector = Moved.sector
        /\ q.entry = 0 /\ q.buffer = Lba(q)
    <3> DEFINE m == Moved
               l == Lba(m)
    <3>1. m \in Iterator /\ m.entry = 0 /\ q = [m EXCEPT !.buffer = l, !.valid = TRUE]
      BY <1>5, <2>1 DEF Loaded
    <3> HIDE DEF m, l, q
    <3>2. q.valid /\ q.cluster = m.cluster /\ q.sector = m.sector /\ q.entry = 0 /\ q.buffer = l
      BY <3>1 DEF Iterator
    <3>3. Lba(q) = l
      BY <3>2 DEF Lba, l
    <3>4. QED BY <3>2, <3>3 DEF m
  <2> HIDE DEF q, f, P, spc
  <2>5. CASE ~iter.valid
    <3>1. iter.cluster = c /\ iter.sector = WORD - 1 /\ pos = 0
      BY <2>5 DEF At, On
    <3>2. Advanced.sector = 0
      BY <2>3, <3>1, WordsAre
    <3>3. ~NeedsCluster
      BY <1>2, <2>2, <3>2
    <3>4. q.cluster = f[0] /\ q.sector = 0
      BY <1>3, <2>1, <2>4, <3>1, <3>2, <3>3
    <3>5. Reaches(c, 0)
      BY DEF Reaches
    <3>6. On(c, q, 0)
      BY <1>2, <2>4, <3>4, <3>5 DEF On, f, spc
    <3>7. Place(0, 0, 0) = 0
      BY <1>2 DEF Place, P, spc
    <3>8. QED BY <2>4, <3>1, <3>4, <3>6, <3>7 DEF q
  <2>6. CASE iter.valid
    <3>1. PICK a \in Nat : On(c, iter, a) /\ pos = Place(a, iter.sector, iter.entry)
      BY <2>6 DEF At
    <3>2. /\ Reaches(c, a) /\ iter.cluster = f[a] /\ iter.sector < spc
      BY <3>1 DEF On, f, spc
    <3>3. iter.entry = P
      BY <1>1, <1>2, <1>5, <2>6 DEF NeedsSector, P
    <3>4. Advanced.sector = iter.sector + 1
      <4> DEFINE x == iter.sector + 1
      <4>1. x \in Nat /\ x < WORD /\ Advanced.sector = x % WORD
        BY <1>1, <1>2, <2>3, <3>2, WordsAre
      <4> HIDE DEF x
      <4>2. x % WORD = x
        BY <4>1, WordsAre, ModSmall
      <4>3. QED BY <4>1, <4>2 DEF x
    <3>5. pos = Place(a, iter.sector + 1, 0)
          /\ (iter.sector + 1 = spc => pos = Place(a + 1, 0, 0))
      BY <1>1, <3>1, <3>3, PlaceNext DEF P, spc
    <3>6. CASE ~NeedsCluster
      <4>1. iter.sector + 1 < spc
        BY <1>1, <1>2, <2>2, <3>4, <3>6
      <4>2. q.cluster = f[a] /\ q.sector = iter.sector + 1
        BY <2>1, <2>4, <3>2, <3>4, <3>6
      <4>3. On(c, q, a)
        BY <2>4, <3>2, <4>1, <4>2 DEF On, f, spc
      <4>4. QED BY <2>4, <3>5, <4>2, <4>3 DEF q
    <3>7. CASE NeedsCluster
      <4>1. iter.sector + 1 = spc
        BY <1>1, <1>2, <2>2, <3>2, <3>4, <3>7
      <4>2. getNextCluster(vol, medium, f[a]) = "SUCCESS"
        BY <1>5, <3>2, <3>7 DEF Link
      <4>3. q.cluster = f[a + 1] /\ q.sector = 0
        BY <1>3, <2>1, <2>4, <3>2, <3>7, <4>2
      <4>4. Reaches(c, a + 1)
        <5>1. a + 1 \in Nat /\ \A k \in 0 .. ((a + 1) - 1) : k \in 0 .. (a - 1) \/ k = a
          OBVIOUS
        <5>2. QED BY <3>2, <4>2, <5>1 DEF Reaches, f
      <4>5. On(c, q, a + 1)
        BY <1>2, <2>4, <4>3, <4>4 DEF On, f, spc
      <4>6. QED BY <2>4, <3>5, <4>1, <4>3, <4>5 DEF q
    <3>8. QED BY <3>6, <3>7
  <2>7. QED BY <1>1, <2>5, <2>6
<1>6. QED BY <1>4, <1>5

\* A turn moves the iterator one place on, past the entry of its place.
LEMMA TurnAt ==
  ASSUME VolumeOK, vol.is_initialized, IterOK, NeedsSector /\ NeedsCluster => Link = "SUCCESS",
         NEW c \in Words, NEW pos, At(c, iter, pos), NEW k \in 0 .. (BYTE - 1)
  PROVE  /\ pos \in Nat /\ Under = Slot(c, pos) /\ At(c, Past(Loaded, k), pos + 1)
         /\ \E a \in Nat : /\ Reaches(c, a)
                           /\ \E s \in Nat, e \in Nat : /\ pos = Place(a, s, e)
                                                        /\ s < vol.sectors_per_cluster /\ e < PerSector
<1>1. PICK a \in Nat : On(c, Loaded, a) /\ pos = Place(a, Loaded.sector, Loaded.entry)
  BY LoadedAt
<1>2. Loaded \in Iterator /\ Loaded.entry < PerSector
  BY LoadedFields
<1>3. Loaded.sector \in Nat /\ Loaded.entry \in Nat
  BY <1>2, IterFields, WordsAre
<1>4. pos \in Nat
  BY <1>1, <1>3, PlaceNat
<1>5. Under = Slot(c, pos)
  BY <1>1, <1>2, SlotAt DEF Under
<1>6. At(c, Past(Loaded, k), pos + 1)
  <2> DEFINE q == Past(Loaded, k)
             m == Loaded
  <2>1. /\ q.entry = m.entry + 1 /\ q.valid = m.valid /\ q.buffer = m.buffer
        /\ q.cluster = m.cluster /\ q.sector = m.sector
    BY <1>2, PastFields
  <2>2. On(c, m, a) /\ pos = Place(a, m.sector, m.entry)
    BY <1>1
  <2> HIDE DEF q, m
  <2>3. Lba(q) = Lba(m)
    BY <2>1 DEF Lba
  <2>4. On(c, q, a)
    BY <2>1, <2>2, <2>3 DEF On
  <2>5. Place(a, m.sector, m.entry + 1) = Place(a, m.sector, m.entry) + 1
    <3> DEFINE x == (a * vol.sectors_per_cluster + m.sector) * PerSector
    <3>1. x \in Nat /\ m.entry \in Nat
      <4>1. vol.sectors_per_cluster \in Nat /\ PerSector \in Nat
        BY Geometry
      <4>2. m.sector \in Nat /\ m.entry \in Nat
        BY <1>3 DEF m
      <4>3. QED BY <4>1, <4>2
    <3>2. /\ Place(a, m.sector, m.entry + 1) = x + (m.entry + 1)
          /\ Place(a, m.sector, m.entry) = x + m.entry
      BY DEF Place
    <3> HIDE DEF x
    <3>3. QED BY <3>1, <3>2
  <2>6. At(c, q, pos + 1)
    BY <2>1, <2>2, <2>4, <2>5 DEF At
  <2>7. QED BY <2>6 DEF q
<1>7. Reaches(c, a) /\ Loaded.sector < vol.sectors_per_cluster
  BY <1>1 DEF On
<1>8. QED BY <1>1, <1>2, <1>3, <1>4, <1>5, <1>6, <1>7

----------------------------------------------------------------------------
(***************************************************************************)
(* The entries of a directory.                                             *)
(***************************************************************************)

Size(c) == (Links(c) + 1) * vol.sectors_per_cluster * PerSector

\* Links counts the links of the chain up to its end.
LEMMA LinksAre ==
  ASSUME VolumeOK, vol.is_initialized, NEW c \in Words
  PROVE  /\ Links(c) \in Nat /\ Links(c) <= vol.total_clusters
         /\ Circular(c) => Links(c) = vol.total_clusters
         /\ ~Circular(c) => getNextCluster(vol, medium, Chain(vol, medium, c)[Links(c)]) # "SUCCESS"
         /\ \A k \in Nat : k < Links(c) =>
              getNextCluster(vol, medium, Chain(vol, medium, c)[k]) = "SUCCESS"
<1> DEFINE f == Chain(vol, medium, c)
           n == vol.total_clusters
           ends == {k \in 0 .. n : getNextCluster(vol, medium, f[k]) # "SUCCESS"}
<1>1. n \in Nat
  BY Geometry
<1>2. Links(c) = IF ends = {} THEN n ELSE CHOOSE k \in ends : \A j \in ends : k <= j
  BY DEF Links
<1>3. Circular(c) <=> ends = {}
  BY DEF Circular
<1>4. \A k \in 0 .. n : k \notin ends => getNextCluster(vol, medium, f[k]) = "SUCCESS"
  OBVIOUS
<1>5. \A k \in ends : k \in 0 .. n /\ getNextCluster(vol, medium, f[k]) # "SUCCESS"
  OBVIOUS
<1> HIDE DEF ends, n
<1>6. CASE ends = {}
  <2>1. \A k \in Nat : k < n => k \in 0 .. n
    BY <1>1
  <2>2. QED BY <1>1, <1>2, <1>3, <1>4, <1>6, <2>1 DEF n
<1>7. CASE ends # {}
  <2>1. ends \subseteq Nat
    BY <1>1, <1>5
  <2>2. \E k \in ends : \A j \in ends : k <= j
    BY <1>7, <2>1, Least
  <2>3. Links(c) \in ends /\ \A j \in ends : Links(c) <= j
    BY <1>2, <1>7, <2>2
  <2>4. Links(c) \in Nat /\ Links(c) <= n
    BY <1>1, <1>5, <2>3
  <2>5. \A k \in Nat : k < Links(c) => k \in 0 .. n /\ k \notin ends
    BY <1>1, <2>3, <2>4
  <2>6. QED BY <1>3, <1>4, <1>5, <1>7, <2>3, <2>4, <2>5 DEF n
<1>8. QED BY <1>6, <1>7

LEMMA SizeNat ==
  ASSUME VolumeOK, vol.is_initialized, NEW c \in Words PROVE Size(c) \in Nat
<1>1. Links(c) \in Nat /\ vol.sectors_per_cluster \in Nat /\ PerSector \in Nat
  BY LinksAre, Geometry
<1>2. QED BY <1>1 DEF Size

\* Places in the chain's clusters are the places before its size.
LEMMA PlaceInside ==
  ASSUME VolumeOK, vol.is_initialized, NEW c \in Words, NEW a \in Nat, NEW s \in Nat, NEW e \in Nat,
         s < vol.sectors_per_cluster
  PROVE  /\ a <= Links(c) /\ e < PerSector => Place(a, s, e) < Size(c)
         /\ Links(c) < a => Size(c) <= Place(a, s, e)
         /\ Links(c) <= a /\ s + 1 = vol.sectors_per_cluster /\ e = PerSector
              => Size(c) <= Place(a, s, e)
<1> DEFINE P == PerSector
           spc == vol.sectors_per_cluster
           l == Links(c)
           x == a * spc + s
<1>1. P \in Nat \ {0} /\ spc \in Nat \ {0} /\ l \in Nat
  BY Geometry, LinksAre
<1>2. Size(c) = (l + 1) * spc * P /\ Place(a, s, e) = x * P + e
  BY DEF Size, Place
<1> HIDE DEF P, l, spc
<1>3. s < spc
  BY DEF spc
<1>4. a * spc \in Nat /\ (l + 1) * spc \in Nat /\ (a + 1) * spc = a * spc + spc
  BY <1>1
<1>5. x \in Nat /\ x = a * spc + s
  BY <1>4
<1> DEFINE y == (l + 1) * spc
<1>6. y \in Nat
  BY <1>4
<1>7. ASSUME a <= l, e < P PROVE x * P + e < y * P
  <2>1. (a + 1) * spc <= (l + 1) * spc
    BY <1>1, <1>7, MulMono
  <2>2. x + 1 <= y
    BY <1>1, <1>3, <1>4, <1>5, <2>1
  <2> HIDE DEF x, y
  <2>3. (x + 1) * P <= y * P /\ (x + 1) * P = x * P + P /\ x * P \in Nat /\ y * P \in Nat
    BY <1>1, <1>5, <1>6, <2>2, MulMono
  <2>4. QED BY <1>1, <1>7, <2>3
<1>8. ASSUME l < a PROVE y * P <= x * P + e
  <2>1. (l + 1) * spc <= a * spc
    BY <1>1, <1>8, MulMono
  <2>2. y <= x
    BY <1>1, <1>4, <1>5, <2>1
  <2> HIDE DEF x, y
  <2>3. y * P <= x * P /\ x * P \in Nat /\ y * P \in Nat
    BY <1>1, <1>5, <1>6, <2>2, MulMono
  <2>4. QED BY <2>3
<1>9. ASSUME l <= a, s + 1 = spc, e = P PROVE y * P <= x * P + e
  <2>1. (l + 1) * spc <= (a + 1) * spc
    BY <1>1, <1>9, MulMono
  <2>2. y <= x + 1
    BY <1>1, <1>4, <1>5, <1>9, <2>1
  <2> HIDE DEF x, y
  <2>3. y * P <= (x + 1) * P /\ (x + 1) * P = x * P + P /\ x * P \in Nat /\ y * P \in Nat
    BY <1>1, <1>5, <1>6, <2>2, MulMono
  <2>4. QED BY <1>1, <1>9, <2>3
<1>10. QED BY <1>2, <1>7, <1>8, <1>9 DEF P, l, spc

Slots(c) == {Slot(c, j) : j \in Nat}

LEMMA RawAre ==
  ASSUME VolumeOK, vol.is_initialized, NEW c \in Words
  PROVE  /\ Raw(c) \in Seq(Slots(c)) /\ Len(Raw(c)) = Size(c) /\ Size(c) \in Nat
         /\ \A j \in Nat : j < Size(c) => Raw(c)[j + 1] = Slot(c, j)
<1> DEFINE n == Size(c)
<1>1. n \in Nat
  BY SizeNat
<1>2. Raw(c) = [j \in 1 .. n |-> Slot(c, j - 1)]
  BY DEF Raw, Size
<1>3. \A j \in 1 .. n : Slot(c, j - 1) \in Slots(c)
  <2>1. \A j \in 1 .. n : j - 1 \in Nat
    BY <1>1
  <2>2. QED BY <2>1 DEF Slots
<1> HIDE DEF n
<1>4. Raw(c) \in [1 .. n -> Slots(c)]
  BY <1>2, <1>3
<1>5. Raw(c) \in Seq(Slots(c)) /\ Len(Raw(c)) = n
  BY <1>1, <1>4
<1>6. \A j \in Nat : j < n => j + 1 \in 1 .. n /\ (j + 1) - 1 = j
  BY <1>1
<1>7. \A j \in Nat : j < n => Raw(c)[j + 1] = Slot(c, j)
  BY <1>2, <1>6
<1>8. QED BY <1>1, <1>5, <1>7 DEF n

\* The end mark is the first one.
LEMMA ExtentIs ==
  ASSUME NEW X, NEW raw \in Seq(X)
  PROVE  /\ Extent(raw) \in Nat /\ Extent(raw) <= Len(raw)
         /\ \A j \in 1 .. Extent(raw) : raw[j].kind # "end"
         /\ Extent(raw) < Len(raw) => raw[Extent(raw) + 1].kind = "end"
<1> DEFINE n == Len(raw)
           marks == {j \in 1 .. n : raw[j].kind = "end"}
           first == CHOOSE j \in marks : \A k \in marks : j <= k
<1>1. n \in Nat /\ DOMAIN raw = 1 .. n
  OBVIOUS
<1>2. Extent(raw) = IF marks = {} THEN n ELSE first - 1
  BY <1>1 DEF Extent
<1>3. \A j \in 1 .. n : j \notin marks => raw[j].kind # "end"
  OBVIOUS
<1>4. \A j \in marks : j \in 1 .. n /\ raw[j].kind = "end"
  OBVIOUS
<1> HIDE DEF n, marks
<1>5. CASE marks = {}
  BY <1>1, <1>2, <1>3, <1>5 DEF n
<1>6. CASE marks # {}
  <2>1. \E j \in marks : \A k \in marks : j <= k
    BY <1>1, <1>4, <1>6, Least
  <2>2. first \in marks /\ \A k \in marks : first <= k
    BY <2>1
  <2> HIDE DEF first
  <2>3. first \in 1 .. n /\ raw[first].kind = "end" /\ Extent(raw) = first - 1
    BY <1>2, <1>4, <1>6, <2>2
  <2>4. /\ Extent(raw) \in Nat /\ Extent(raw) < n /\ Extent(raw) + 1 = first
        /\ \A j \in 1 .. Extent(raw) : j \in 1 .. n /\ j < first
    BY <1>1, <2>3
  <2>5. \A j \in 1 .. Extent(raw) : j \notin marks
    BY <1>1, <1>4, <2>2, <2>3, <2>4
  <2>6. QED BY <1>1, <1>3, <2>3, <2>4, <2>5 DEF n
<1>7. QED BY <1>5, <1>6

\* What Gathered collects, entry by entry.
LEMMA GatheredAre ==
  ASSUME NEW X, NEW raw \in Seq(X)
  PROVE  /\ Gathered(raw)[0] = <<>>
         /\ \A k \in 0 .. Len(raw) : Gathered(raw)[k] \in Seq(X)
         /\ \A k \in 0 .. (Len(raw) - 1) :
              Gathered(raw)[k + 1] = IF Shown(raw[k + 1]) THEN Append(Gathered(raw)[k], raw[k + 1])
                                                          ELSE Gathered(raw)[k]
<1> DEFINE n == Len(raw)
           S == Seq(X)
           more(k, t) == IF Shown(raw[k]) THEN Append(t, raw[k]) ELSE t
           next == [v \in (1 .. n) \X S |-> more(v[1], v[2])]
           def(g) == [k \in 0 .. n |-> IF k = 0 THEN <<>>
                                       ELSE IF Shown(raw[k]) THEN Append(g[k - 1], raw[k])
                                                             ELSE g[k - 1]]
           g0 == Gathered(raw)
<1>0. n \in Nat /\ <<>> \in S /\ 0 \in 0 .. n
  OBVIOUS
<1>1. \A k \in 1 .. n, t \in S : more(k, t) \in S
  OBVIOUS
<1> HIDE DEF more, n, S
<1>2. next \in [(1 .. n) \X S -> S]
  <2>1. ASSUME NEW v \in (1 .. n) \X S PROVE more(v[1], v[2]) \in S
    <3>1. v[1] \in 1 .. n /\ v[2] \in S
      OBVIOUS
    <3>2. QED BY <1>1, <3>1
  <2>2. QED BY <2>1
<1>3. \A k \in 1 .. n, t \in S : next[<<k, t>>] = more(k, t)
  OBVIOUS
<1> HIDE DEF next
<1>4. PICK h : Folds(S, <<>>, n, next, h)
  BY <1>0, <1>2, FoldsExist
<1>5. h \in [0 .. n -> S] /\ h[0] = <<>>
      /\ \A k \in 0 .. (n - 1) : h[k + 1] = next[<<k + 1, h[k]>>]
  BY <1>4 DEF Folds
<1>6. \A k \in 1 .. n : h[k] = more(k, h[k - 1])
  <2> SUFFICES ASSUME NEW k \in 1 .. n PROVE h[k] = more(k, h[k - 1])
    OBVIOUS
  <2>1. k - 1 \in 0 .. (n - 1) /\ (k - 1) + 1 = k /\ k - 1 \in 0 .. n
    BY <1>0
  <2>2. h[k] = next[<<k, h[k - 1]>>] /\ h[k - 1] \in S
    BY <1>5, <2>1
  <2>3. QED BY <1>3, <2>2
<1>7. h = def(h)
  <2> DEFINE d == def(h)
  <2>1. ASSUME NEW k \in 0 .. n PROVE h[k] = d[k]
    <3>1. CASE k = 0
      BY <1>5, <3>1
    <3>2. CASE k # 0
      <4>1. k \in 1 .. n
        BY <1>0, <3>2
      <4>2. QED BY <1>6, <3>2, <4>1 DEF more
    <3>3. QED BY <3>1, <3>2
  <2>2. d = [k \in 0 .. n |-> d[k]] /\ h = [k \in 0 .. n |-> h[k]]
    BY <1>5
  <2> HIDE DEF d
  <2>3. h = d
    BY <2>1, <2>2
  <2>4. QED BY <2>3 DEF d
<1>8. g0 = CHOOSE g : g = def(g)
  BY DEF Gathered, n
<1>9. g0 = def(g0)
  <2> HIDE DEF g0, def
  <2>1. QED BY <1>7, <1>8
<1> HIDE DEF g0
<1>10. g0[0] = <<>>
  BY <1>0, <1>9
<1>11. \A k \in 0 .. (n - 1) : g0[k + 1] = more(k + 1, g0[k])
  <2> SUFFICES ASSUME NEW k \in 0 .. (n - 1) PROVE g0[k + 1] = more(k + 1, g0[k])
    OBVIOUS
  <2>1. k + 1 \in 0 .. n /\ k + 1 # 0 /\ (k + 1) - 1 = k
    BY <1>0
  <2>2. g0[k + 1] = def(g0)[k + 1]
    BY <1>9
  <2>3. QED BY <2>1, <2>2 DEF more
<1>12. \A k \in 0 .. n : g0[k] \in S
  <2> DEFINE T == {k \in Nat : k <= n => g0[k] \in S}
  <2>1. 0 \in T
    BY <1>0, <1>10
  <2>2. ASSUME NEW k \in Nat, k \in T PROVE k + 1 \in T
    <3> SUFFICES ASSUME k + 1 <= n PROVE g0[k + 1] \in S
      OBVIOUS
    <3>1. k \in 0 .. (n - 1) /\ k + 1 \in 1 .. n /\ g0[k] \in S
      BY <1>0, <2>2
    <3>2. QED BY <1>1, <1>11, <3>1
  <2>3. Nat \subseteq T
    <3> HIDE DEF T
    <3>1. QED BY <2>1, <2>2, Upward
  <2>4. QED BY <1>0, <2>3
<1>13. QED BY <1>10, <1>11, <1>12 DEF g0, n, S, more

LEMMA PrefixGrows ==
  ASSUME NEW X, NEW s, NEW t \in Seq(X), NEW e \in X, IsPrefixOf(s, t), NEW S2, s \in Seq(S2)
  PROVE  IsPrefixOf(s, Append(t, e))
<1>1. Len(Append(t, e)) = Len(t) + 1 /\ \A j \in 1 .. Len(t) : Append(t, e)[j] = t[j]
  OBVIOUS
<1>2. Len(s) <= Len(t) /\ \A j \in DOMAIN s : s[j] = t[j]
  BY DEF IsPrefixOf
<1>3. DOMAIN s = 1 .. Len(s) /\ Len(s) \in Nat /\ Len(t) \in Nat
  OBVIOUS
<1>4. \A j \in DOMAIN s : j \in 1 .. Len(t)
  BY <1>2, <1>3
<1>5. QED BY <1>1, <1>2, <1>3, <1>4 DEF IsPrefixOf

\* What is gathered from fewer entries is a prefix.
LEMMA GatheredGrows ==
  ASSUME NEW X, NEW raw \in Seq(X), NEW i \in Nat, NEW k \in Nat, i <= k, k <= Len(raw)
  PROVE  IsPrefixOf(Gathered(raw)[i], Gathered(raw)[k])
<1> DEFINE n == Len(raw)
           g == Gathered(raw)
           T == {m \in Nat : i + m <= n => IsPrefixOf(g[i], g[i + m])}
<1>1. n \in Nat /\ \A m \in 1 .. n : raw[m] \in X
  OBVIOUS
<1>2. /\ \A m \in 0 .. n : g[m] \in Seq(X)
      /\ \A m \in 0 .. (n - 1) :
           g[m + 1] = IF Shown(raw[m + 1]) THEN Append(g[m], raw[m + 1]) ELSE g[m]
  BY GatheredAre
<1>3. i \in 0 .. n /\ k - i \in Nat /\ i + (k - i) = k /\ k <= n
  BY <1>1
<1>4. g[i] \in Seq(X)
  BY <1>2, <1>3
<1> HIDE DEF n, g
<1>5. 0 \in T
  <2>1. i + 0 = i
    OBVIOUS
  <2>2. IsPrefixOf(g[i], g[i])
    BY <1>4 DEF IsPrefixOf
  <2>3. QED BY <2>1, <2>2
<1>6. ASSUME NEW m \in Nat, m \in T PROVE m + 1 \in T
  <2> DEFINE x == i + m
  <2> SUFFICES ASSUME i + (m + 1) <= n PROVE IsPrefixOf(g[i], g[i + (m + 1)])
    OBVIOUS
  <2>1. x \in 0 .. (n - 1) /\ x \in 0 .. n /\ x + 1 \in 1 .. n /\ i + (m + 1) = x + 1 /\ x <= n
    BY <1>1
  <2>2. IsPrefixOf(g[i], g[x])
    BY <1>6, <2>1
  <2> HIDE DEF x
  <2>3. g[x] \in Seq(X) /\ raw[x + 1] \in X
    BY <1>1, <1>2, <2>1
  <2>4. IsPrefixOf(g[i], Append(g[x], raw[x + 1]))
    BY <1>4, <2>2, <2>3, PrefixGrows
  <2>5. g[x + 1] = IF Shown(raw[x + 1]) THEN Append(g[x], raw[x + 1]) ELSE g[x]
    BY <1>2, <2>1
  <2>6. IsPrefixOf(g[i], g[x + 1])
    BY <2>2, <2>4, <2>5
  <2>7. QED BY <2>1, <2>6
<1>7. Nat \subseteq T
  <2> HIDE DEF T
  <2>1. QED BY <1>5, <1>6, Upward
<1>8. QED BY <1>3, <1>7 DEF n, g

----------------------------------------------------------------------------
(***************************************************************************)
(* Listings.                                                               *)
(***************************************************************************)

\* A listing of the directory at c has seen the files and directories among the
\* entries it has passed, and passed them all when the directory ended.
ListAt(c) ==
  \E pos \in Nat :
    /\ pos <= Extent(Raw(c))
    /\ Entries(job.seen) = Gathered(Raw(c))[pos]
    /\ job.res = "SUCCESS" => At(c, iter, pos)
    /\ job.res \in {"NO_MORE_ENTRIES", "END_OF_CHAIN"} => pos = Extent(Raw(c))

ListOK ==
  /\ \E S : job.seen \in Seq(S)
  /\ job.kind = "list" /\ job.clean /\ ~Circular(job.start) => ListAt(job.start)

\* Nothing of a directory changes while the volume is mounted.
LEMMA Steady ==
  ASSUME UNCHANGED <<medium, booted, vol>>, NEW c
  PROVE  /\ Raw(c)' = Raw(c) /\ (Circular(c)' <=> Circular(c))
         /\ Extent(Raw(c))' = Extent(Raw(c)) /\ Gathered(Raw(c))' = Gathered(Raw(c))
<1>1. PerSector' = PerSector
  BY DEF PerSector
<1>2. Links(c)' = Links(c)
  BY DEF Links
<1>3. \A j : Slot(c, j)' = Slot(c, j)
  BY <1>1 DEF Slot
<1>4. Raw(c)' = Raw(c)
  BY <1>1, <1>2, <1>3 DEF Raw
<1>5. Circular(c)' <=> Circular(c)
  BY DEF Circular
<1>6. QED BY <1>4, <1>5

LEMMA AtSteady ==
  ASSUME UNCHANGED <<medium, booted, vol>>, NEW c, NEW pos, NEW q, iter' = q, At(c, q, pos)
  PROVE  At(c, iter, pos)'
<1>1. PerSector' = PerSector
  BY DEF PerSector
<1>2. Lba(iter)' = Lba(q)
  BY DEF Lba
<1>3. \A a, s, e : Place(a, s, e)' = Place(a, s, e)
  BY <1>1 DEF Place
<1>4. \A a : On(c, q, a) => On(c, iter, a)'
  BY <1>2 DEF On, Reaches
<1>5. QED BY <1>3, <1>4 DEF At

\* Where a listing is not at its end, the next entry is one of the directory.
LEMMA PlaceInRaw ==
  ASSUME VolumeOK, vol.is_initialized, IterOK, NeedsSector /\ NeedsCluster => Link = "SUCCESS",
         NEW c \in Words, NEW pos, At(c, iter, pos), ~Circular(c)
  PROVE  pos \in Nat /\ pos < Len(Raw(c)) /\ Under = Raw(c)[pos + 1]
<1>1. 0 \in 0 .. (BYTE - 1)
  BY Bytes
<1>2. pos \in Nat /\ Under = Slot(c, pos)
  BY <1>1, TurnAt
<1>3. PICK a \in Nat, s \in Nat, e \in Nat :
        /\ Reaches(c, a) /\ pos = Place(a, s, e)
        /\ s < vol.sectors_per_cluster /\ e < PerSector
  BY <1>1, TurnAt
<1>4. a <= Links(c)
  <2>1. SUFFICES ASSUME ~(a <= Links(c)) PROVE FALSE
    OBVIOUS
  <2>2. Links(c) \in Nat
        /\ getNextCluster(vol, medium, Chain(vol, medium, c)[Links(c)]) # "SUCCESS"
    BY LinksAre
  <2>3. Links(c) \in 0 .. (a - 1)
    BY <2>1, <2>2
  <2>4. QED BY <1>3, <2>2, <2>3 DEF Reaches
<1>5. pos < Size(c)
  BY <1>3, <1>4, PlaceInside
<1>6. QED BY <1>2, <1>5, RawAre

LEMMA EntriesAppend ==
  ASSUME NEW S, NEW seen \in Seq(S), NEW info
  PROVE  Entries(Append(seen, info)) = Append(Entries(seen), info.entry)
<1> DEFINE n == Len(seen)
           E == {seen[j].entry : j \in 1 .. n} \cup {info.entry}
           x == Entries(Append(seen, info))
           y == Append(Entries(seen), info.entry)
           t == Append(seen, info)
<1>1. n \in Nat /\ DOMAIN seen = 1 .. n
  OBVIOUS
<1>2. t \in Seq(S \cup {info}) /\ Len(t) = n + 1 /\ DOMAIN t = 1 .. (n + 1)
      /\ \A j \in 1 .. (n + 1) : t[j] = IF j = n + 1 THEN info ELSE seen[j]
  OBVIOUS
<1>3. Entries(seen) = [j \in 1 .. n |-> seen[j].entry]
  BY <1>1 DEF Entries
<1>4. x = [j \in 1 .. (n + 1) |-> t[j].entry]
  BY <1>2 DEF Entries
<1>5. \A j \in 1 .. n : seen[j].entry \in E
  OBVIOUS
<1>6. info.entry \in E
  OBVIOUS
<1> HIDE DEF n, E, x, t
<1>7. Entries(seen) \in Seq(E) /\ Len(Entries(seen)) = n
  <2>1. Entries(seen) \in [1 .. n -> E]
    BY <1>3, <1>5
  <2>2. QED BY <1>1, <2>1
<1>8. /\ y \in Seq(E) /\ Len(y) = n + 1 /\ DOMAIN y = 1 .. (n + 1)
      /\ \A j \in 1 .. (n + 1) : y[j] = IF j = n + 1 THEN info.entry ELSE Entries(seen)[j]
  BY <1>1, <1>6, <1>7
<1> HIDE DEF y
<1>9. ASSUME NEW j \in 1 .. (n + 1) PROVE x[j] = y[j]
  <2>1. CASE j = n + 1
    BY <1>2, <1>4, <1>8, <2>1
  <2>2. CASE j # n + 1
    <3>1. j \in 1 .. n
      BY <1>1, <2>2
    <3>2. x[j] = seen[j].entry
      BY <1>2, <1>4, <2>2
    <3>3. y[j] = seen[j].entry
      BY <1>3, <1>8, <2>2, <3>1
    <3>4. QED BY <3>2, <3>3
  <2>3. QED BY <2>1, <2>2
<1>10. y = [j \in 1 .. (n + 1) |-> y[j]]
  BY <1>8
<1>11. x = y
  BY <1>4, <1>9, <1>10
<1>12. QED BY <1>11 DEF x, y, t

\* What an action must show of a listing that goes on.
LEMMA ListSame ==
  ASSUME ListOK, UNCHANGED <<medium, booted, vol>>, NEW c, job.start = c, job'.start = c,
         job'.kind = job.kind, job'.clean => job.clean, ListAt(c) => ListAt(c)',
         \E S : job'.seen \in Seq(S)
  PROVE  ListOK'
<1>1. Circular(c)' <=> Circular(c)
  BY Steady
<1>2. ASSUME job'.kind = "list" /\ job'.clean /\ ~Circular(c)' PROVE ListAt(c)'
  BY <1>1, <1>2 DEF ListOK
<1>3. QED BY <1>2 DEF ListOK

LEMMA ListTake == ASSUME Typed, ListOK, TakeEntry PROVE ListOK'
<1>1. /\ job.phase = "turn" /\ vol.is_initialized
      /\ (NeedsSector /\ NeedsCluster => Link = "SUCCESS")
      /\ UNCHANGED <<medium, booted, vol>>
  BY TakeShape
<1>2. PICK k \in 0 .. (BYTE - 1) : iter' = Past(Loaded, k)
  BY TakeShape
<1>3. PICK c : c = job.start
  OBVIOUS
<1>4. c \in Words /\ job.res = "SUCCESS" /\ Shaped(job)
  BY <1>1, <1>3 DEF Typed, JobOK
<1>5. /\ job'.start = c /\ job'.kind = job.kind /\ job'.clean = job.clean
      /\ \/ Under.kind = "end" /\ job'.res = "NO_MORE_ENTRIES" /\ job'.seen = job.seen
         \/ /\ Under.kind # "end" /\ ~Shown(Under) /\ job'.res = "SUCCESS"
            /\ job'.seen = job.seen
         \/ /\ Shown(Under) /\ job'.res = "SUCCESS"
            /\ job'.seen = IF job.kind = "list" THEN Append(job.seen, InfoOf(Under)) ELSE job.seen
  BY <1>3, <1>4, TakeShape DEF Got, Shaped
<1>6. PICK S : job.seen \in Seq(S)
  BY DEF ListOK
<1>7. \E S2 : job'.seen \in Seq(S2)
  <2>1. Append(job.seen, InfoOf(Under)) \in Seq(S \cup {InfoOf(Under)})
    BY <1>6
  <2>2. QED BY <1>5, <1>6, <2>1
<1>8. ASSUME job.kind = "list", job.clean, ~Circular(c) PROVE ListAt(c)'
  <2> DEFINE raw == Raw(c)
             g == Gathered(raw)
             x == Extent(raw)
  <2>1. PICK pos \in Nat : pos <= x /\ Entries(job.seen) = g[pos] /\ At(c, iter, pos)
    BY <1>3, <1>4, <1>8 DEF ListOK, ListAt
  <2>2. pos < Len(raw) /\ Under = raw[pos + 1]
    BY <1>1, <1>4, <1>8, <2>1, PlaceInRaw DEF Typed
  <2>3. At(c, Past(Loaded, k), pos + 1)
    BY <1>1, <1>4, <2>1, TurnAt DEF Typed
  <2>4. At(c, iter, pos + 1)'
    <3>1. PICK q : q = Past(Loaded, k)
      OBVIOUS
    <3>2. iter' = q /\ At(c, q, pos + 1)
      BY <1>2, <2>3, <3>1
    <3>3. QED BY <1>1, <3>2, AtSteady
  <2>5. raw \in Seq(Slots(c)) /\ Len(raw) \in Nat
    BY <1>1, <1>4, RawAre DEF Typed
  <2>6. x' = x /\ g' = g
    BY <1>1, Steady
  <2> HIDE DEF raw, x
  <2>7. /\ x \in Nat /\ x <= Len(raw) /\ (\A j \in 1 .. x : raw[j].kind # "end")
        /\ (x < Len(raw) => raw[x + 1].kind = "end")
    BY <2>5, ExtentIs DEF x
  <2>8. g[pos + 1] = IF Shown(raw[pos + 1]) THEN Append(g[pos], raw[pos + 1]) ELSE g[pos]
    <3>1. pos \in 0 .. (Len(raw) - 1)
      BY <2>2, <2>5
    <3>2. QED BY <2>5, <3>1, GatheredAre
  <2> HIDE DEF g
  <2>9. CASE Under.kind = "end" /\ job'.res = "NO_MORE_ENTRIES" /\ job'.seen = job.seen
    <3>1. ~(pos + 1 \in 1 .. x)
      BY <2>2, <2>7, <2>9
    <3>2. pos = x
      BY <2>1, <2>7, <3>1
    <3>3. Entries(job.seen)' = g'[pos]
      BY <2>1, <2>6, <2>9 DEF Entries
    <3>4. pos <= x' /\ pos = x'
      BY <2>6, <2>7, <3>2
    <3>5. QED BY <2>9, <3>3, <3>4 DEF ListAt, raw, x, g
  <2>10. CASE Under.kind # "end" /\ job'.res = "SUCCESS"
    <3>1. pos + 1 \in Nat /\ pos + 1 <= x
      BY <2>1, <2>2, <2>5, <2>7, <2>10
    <3>2. Entries(job.seen)' = g'[pos + 1]
      <4>1. CASE ~Shown(Under) /\ job'.seen = job.seen
        BY <2>1, <2>2, <2>6, <2>8, <4>1 DEF Entries
      <4>2. CASE Shown(Under) /\ job'.seen = Append(job.seen, InfoOf(Under))
        <5>1. Entries(Append(job.seen, InfoOf(Under))) = Append(Entries(job.seen), InfoOf(Under).entry)
          BY <1>6, EntriesAppend
        <5>2. InfoOf(Under).entry = Under
          BY DEF InfoOf
        <5>3. Entries(job.seen)' = Entries(Append(job.seen, InfoOf(Under)))
          BY <4>2 DEF Entries
        <5>4. QED BY <2>1, <2>2, <2>6, <2>8, <4>2, <5>1, <5>2, <5>3
      <4>3. QED BY <1>5, <1>8, <2>10, <4>1, <4>2
    <3>3. pos + 1 <= x'
      BY <2>6, <3>1
    <3>4. QED BY <2>4, <2>10, <3>1, <3>2, <3>3 DEF ListAt, raw, x, g
  <2>11. QED BY <1>5, <2>9, <2>10 DEF Shown
<1>9. QED
  <2>1. ASSUME job'.kind = "list" /\ job'.clean /\ ~Circular(c)' PROVE ListAt(c)'
    BY <1>1, <1>5, <1>8, <2>1, Steady
  <2>2. QED BY <1>5, <1>7, <2>1 DEF ListOK

\* Where the chain ends the iterator has passed all the directory's entries.
LEMMA EndPlace ==
  ASSUME VolumeOK, vol.is_initialized, IterOK, NeedsSector, NeedsCluster, Link # "SUCCESS",
         NEW c \in Words, NEW pos, At(c, iter, pos)
  PROVE  pos \in Nat /\ Size(c) <= pos
<1> DEFINE P == PerSector
           spc == vol.sectors_per_cluster
<1>1. /\ iter \in Iterator /\ iter.entry \in Nat /\ iter.sector \in Nat /\ iter.valid \in BOOLEAN
      /\ iter.sector < WORD /\ iter.entry <= P
  BY IterFields, WordsAre DEF IterOK
<1>2. P \in Nat \ {0} /\ spc \in Nat \ {0} /\ spc < WORD
  BY Geometry
<1>3. (iter.sector + 1) % WORD >= spc
  BY AdvancedFields DEF NeedsCluster
<1> HIDE DEF P, spc
<1>4. iter.valid
  <2>1. SUFFICES ASSUME ~iter.valid PROVE FALSE
    OBVIOUS
  <2>2. iter.sector = WORD - 1
    BY <2>1 DEF At, On
  <2>3. QED BY <1>2, <1>3, <2>2, WordsAre
<1>5. PICK a \in Nat : On(c, iter, a) /\ pos = Place(a, iter.sector, iter.entry)
  BY <1>4 DEF At
<1>6. iter.sector < spc /\ iter.cluster = Chain(vol, medium, c)[a]
  BY <1>5 DEF On, spc
<1>7. iter.entry = P
  BY <1>1, <1>2, <1>4 DEF NeedsSector, P
<1>8. iter.sector + 1 = spc
  <2> DEFINE x == iter.sector + 1
  <2>1. x \in Nat /\ x < WORD /\ x <= spc /\ x % WORD >= spc
    <3>1. WORD \in Nat
      BY WordsAre
    <3>2. x \in Nat /\ x < WORD /\ x <= spc
      BY <1>1, <1>2, <1>6, <3>1
    <3>3. QED BY <1>3, <3>2
  <2> HIDE DEF x
  <2>2. x % WORD = x
    BY <2>1, WordsAre, ModSmall
  <2>3. x = spc
    BY <1>2, <2>1, <2>2
  <2>4. QED BY <2>3 DEF x
<1>9. getNextCluster(vol, medium, Chain(vol, medium, c)[a]) # "SUCCESS"
  BY <1>6 DEF Link
<1>10. Links(c) \in Nat /\ Links(c) <= a
  BY <1>9, LinksAre
<1>11. Size(c) <= pos
  BY <1>1, <1>5, <1>6, <1>7, <1>8, <1>10, PlaceInside DEF P, spc
<1>12. QED BY <1>1, <1>5, <1>11, PlaceNat

LEMMA ListEnds == ASSUME Typed, ListOK, ChainEnds PROVE ListOK'
<1>1. /\ job.phase = "turn" /\ NeedsSector /\ NeedsCluster /\ Link # "SUCCESS"
      /\ Got(Link, NoInfo) /\ UNCHANGED <<medium, booted, vol>>
  BY DEF ChainEnds
<1>2. PICK c : c = job.start
  OBVIOUS
<1>3. c \in Words /\ job.res = "SUCCESS" /\ Shaped(job) /\ vol.is_initialized
  BY <1>1, <1>2 DEF Typed, JobOK
<1>4. /\ job'.start = c /\ job'.kind = job.kind /\ job'.clean = job.clean
      /\ job'.res # "SUCCESS" /\ job'.seen = job.seen
  BY <1>1, <1>2, <1>3 DEF Got, Shaped
<1>5. ListAt(c) => ListAt(c)'
  <2> SUFFICES ASSUME ListAt(c) PROVE ListAt(c)'
    OBVIOUS
  <2> DEFINE raw == Raw(c)
             g == Gathered(raw)
             x == Extent(raw)
  <2>1. PICK pos \in Nat : pos <= x /\ Entries(job.seen) = g[pos] /\ At(c, iter, pos)
    BY <1>3 DEF ListAt
  <2>2. Size(c) <= pos
    BY <1>1, <1>3, <2>1, EndPlace DEF Typed
  <2>3. raw \in Seq(Slots(c)) /\ Len(raw) = Size(c) /\ Size(c) \in Nat
    BY <1>3, RawAre DEF Typed
  <2>4. x \in Nat /\ x <= Len(raw)
    BY <2>3, ExtentIs
  <2>5. x' = x /\ g' = g
    BY <1>1, Steady
  <2>6. Entries(job.seen)' = g'[pos]
    BY <1>4, <2>1, <2>5 DEF Entries
  <2> HIDE DEF raw, x, g
  <2>7. pos = x
    BY <2>1, <2>2, <2>3, <2>4
  <2>8. pos <= x' /\ pos = x'
    BY <2>4, <2>5, <2>7
  <2>9. QED BY <1>4, <2>6, <2>8 DEF ListAt, raw, x, g
<1>6. \E S : job'.seen \in Seq(S)
  BY <1>4 DEF ListOK
<1>7. QED BY <1>1, <1>2, <1>4, <1>5, <1>6, ListSame

LEMMA ListStart ==
  ASSUME Typed, ListOK, NEW c \in medium.dirs, fat_init_root_dir_iterator(c) PROVE ListOK'
<1>1. /\ vol.is_initialized /\ iter' = Fresh(c) /\ UNCHANGED <<medium, booted, vol>>
      /\ job' = [NoJob EXCEPT !.kind = "list", !.phase = "got", !.start = c]
  BY DEF fat_init_root_dir_iterator
<1>2. c \in Words
  BY SectorAssumption DEF Typed, VolumeOK
<1>3. PICK d : d = c
  OBVIOUS
<1>4. job'.start = d /\ job'.res = "SUCCESS" /\ job'.seen = <<>>
  BY <1>1, <1>3 DEF NoJob
<1>5. \E S : job'.seen \in Seq(S)
  <2>1. <<>> \in Seq({})
    OBVIOUS
  <2>2. QED BY <1>4, <2>1
<1>6. ListAt(d)'
  <2> DEFINE raw == Raw(d)
             g == Gathered(raw)
             x == Extent(raw)
  <2>1. raw \in Seq(Slots(d))
    BY <1>1, <1>2, <1>3, RawAre DEF Typed
  <2>2. x \in Nat /\ g[0] = <<>>
    BY <2>1, ExtentIs, GatheredAre
  <2>3. x' = x /\ g' = g
    BY <1>1, Steady
  <2>4. Entries(job.seen)' = <<>>
    BY <1>4 DEF Entries
  <2>5. At(d, iter, 0)'
    <3>1. PICK q : q = Fresh(d)
      OBVIOUS
    <3>2. At(d, q, 0)
      BY <1>2, <1>3, <3>1, FreshFields DEF At
    <3>3. iter' = q
      BY <1>1, <1>3, <3>1
    <3>4. QED BY <1>1, <3>2, <3>3, AtSteady
  <2> HIDE DEF raw, x, g
  <2>6. 0 <= x' /\ Entries(job.seen)' = g'[0]
    BY <2>2, <2>3, <2>4
  <2>7. QED BY <1>4, <2>5, <2>6 DEF ListAt, raw, x, g
<1>7. QED BY <1>4, <1>5, <1>6 DEF ListOK

\* Actions that do not list: a lookup, an error, the rest of the program.
LEMMA ListOther ==
  ASSUME Typed, ListOK,
         \/ fat32_init \/ fat_read_next_dir_entry \/ Listed \/ LoadFails \/ Compare
         \/ (\E path \in Paths : get_file(path)) \/ UNCHANGED vars
  PROVE  ListOK'
<1>1. Shaped(job)
  BY DEF Typed, JobOK
<1>2. CASE fat32_init
  <2>1. job' = job /\ (MountFails \/ MountWorks)
    BY <1>2 DEF fat32_init
  <2>2. ~vol.is_initialized
    BY <2>1 DEF MountFails, MountWorks, Typed, VolumeOK, NoVolume
  <2>3. job.kind # "list"
    BY <2>2 DEF Typed, JobOK
  <2>4. QED BY <2>1, <2>3 DEF ListOK
<1>3. CASE \E path \in Paths : get_file(path)
  <2>1. PICK path \in Paths : get_file(path)
    BY <1>3
  <2>2. job'.kind = "find" /\ job'.seen = <<>>
    BY <2>1 DEF get_file, NoJob
  <2>3. <<>> \in Seq({})
    OBVIOUS
  <2>4. QED BY <2>2, <2>3 DEF ListOK
<1>4. CASE LoadFails
  <2>1. job'.clean = FALSE /\ job'.seen = job.seen
    BY <1>1, <1>4 DEF LoadFails, Shaped
  <2>2. QED BY <2>1 DEF ListOK
<1>5. CASE Compare
  <2>1. job.kind = "find" /\ job'.kind = job.kind /\ job'.seen = job.seen
    BY <1>1, <1>5 DEF Compare, Shaped, Finish
  <2>2. QED BY <2>1 DEF ListOK
<1>6. CASE fat_read_next_dir_entry \/ Listed \/ UNCHANGED vars
  <2>1. PICK c : c = job.start
    OBVIOUS
  <2>2. /\ UNCHANGED <<medium, booted, vol, iter>> /\ job'.start = c /\ job'.kind = job.kind
        /\ job'.clean = job.clean /\ job'.res = job.res /\ job'.seen = job.seen
    BY <1>1, <1>6, <2>1 DEF fat_read_next_dir_entry, Listed, Finish, vars, Shaped
  <2>3. ListAt(c) => ListAt(c)'
    <3> SUFFICES ASSUME ListAt(c) PROVE ListAt(c)'
      OBVIOUS
    <3> DEFINE g == Gathered(Raw(c))
               x == Extent(Raw(c))
    <3>1. PICK pos \in Nat : /\ pos <= x /\ Entries(job.seen) = g[pos]
                             /\ (job.res = "SUCCESS" => At(c, iter, pos))
                             /\ (job.res \in {"NO_MORE_ENTRIES", "END_OF_CHAIN"} => pos = x)
      BY DEF ListAt
    <3>2. x' = x /\ g' = g
      BY <2>2, Steady
    <3>3. At(c, iter, pos) => At(c, iter, pos)'
      <4>1. PICK q : q = iter
        OBVIOUS
      <4>2. QED BY <2>2, <4>1, AtSteady
    <3>4. Entries(job.seen)' = g'[pos]
      BY <2>2, <3>1, <3>2 DEF Entries
    <3> HIDE DEF x, g
    <3>5. pos <= x' /\ (job'.res \in {"NO_MORE_ENTRIES", "END_OF_CHAIN"} => pos = x')
      BY <2>2, <3>1, <3>2
    <3>6. QED BY <2>2, <3>1, <3>3, <3>4, <3>5 DEF ListAt, x, g
  <2>4. \E S : job'.seen \in Seq(S)
    BY <2>2 DEF ListOK
  <2>5. QED BY <2>1, <2>2, <2>3, <2>4, ListSame
<1>7. QED BY <1>2, <1>3, <1>4, <1>5, <1>6

LEMMA ListAlways == Spec => []ListOK
<1>1. Init => ListOK
  <2> SUFFICES ASSUME Init PROVE ListOK
    OBVIOUS
  <2>1. job.kind = "none" /\ job.seen = <<>>
    BY DEF Init, NoJob
  <2>2. <<>> \in Seq({})
    OBVIOUS
  <2>3. QED BY <2>1, <2>2 DEF ListOK
<1>2. ASSUME Typed, ListOK, [Next]_vars PROVE ListOK'
  BY <1>2, ListTake, ListEnds, ListStart, ListOther DEF Next, Step
<1>3. QED BY <1>1, <1>2, TypedAlways, PTL DEF Spec

\* For every medium: a listing with fat_read_next_dir_entry gives every file and
\* directory of a directory once and in order, and all of them when it ends.
THEOREM ListingsComplete == Spec => []ListsAll
<1>1. ASSUME Typed, ListOK PROVE ListsAll
  <2> SUFFICES ASSUME job.kind = "list", job.clean, ~Circular(job.start)
               PROVE  /\ IsPrefixOf(Entries(job.seen), Listing(job.start))
                      /\ job.res \in {"NO_MORE_ENTRIES", "END_OF_CHAIN"} =>
                           Entries(job.seen) = Listing(job.start)
    BY DEF ListsAll
  <2> DEFINE c == job.start
             raw == Raw(c)
             g == Gathered(raw)
             x == Extent(raw)
  <2>1. PICK pos \in Nat : /\ pos <= x /\ Entries(job.seen) = g[pos]
                           /\ (job.res \in {"NO_MORE_ENTRIES", "END_OF_CHAIN"} => pos = x)
    BY <1>1 DEF ListOK, ListAt
  <2>2. raw \in Seq(Slots(c))
    BY <1>1, RawAre DEF Typed, JobOK
  <2>3. Listing(c) = g[x]
    BY DEF Listing
  <2> HIDE DEF raw
  <2>4. x \in Nat /\ x <= Len(raw)
    BY <2>2, ExtentIs
  <2>5. IsPrefixOf(g[pos], g[x])
    <3> HIDE DEF x
    <3>1. QED BY <2>1, <2>2, <2>4, GatheredGrows
  <2>6. QED BY <2>1, <2>3, <2>5
<1>2. QED BY <1>1, TypedAlways, ListAlways, PTL

----------------------------------------------------------------------------
(***************************************************************************)
(* Looking a name up in a directory.                                       *)
(***************************************************************************)

Hit(e, name, inner) == Shown(e) /\ e.name = name /\ (inner => e.dir)

\* Neither the end mark nor the name is among the first pos entries.
Clear(c, name, inner, pos) ==
  \A j \in Nat : j < pos => Slot(c, j).kind # "end" /\ ~Hit(Slot(c, j), name, inner)

LEMMA FoundIs ==
  ASSUME NEW X, NEW raw \in Seq(X), NEW c, raw = Raw(c), NEW name, NEW inner \in BOOLEAN
  PROVE  LET hits == {j \in 1 .. Extent(raw) : Hit(raw[j], name, inner)}
         IN  /\ hits = {} => Found(c, name, inner) = NoInfo.entry
             /\ \A i \in hits : (\A j \in hits : i <= j) => Found(c, name, inner) = raw[i]
<1> DEFINE hits == {j \in 1 .. Extent(raw) : Hit(raw[j], name, inner)}
           first == CHOOSE j \in hits : \A k \in hits : j <= k
<1>1. Found(c, name, inner) = IF hits = {} THEN NoInfo.entry ELSE raw[first]
  BY DEF Found, Hit
<1>2. \A j \in hits : j \in Int
  BY ExtentIs
<1> HIDE DEF hits
<1>3. ASSUME NEW i \in hits, \A j \in hits : i <= j PROVE first = i
  <2>1. first \in hits /\ \A k \in hits : first <= k
    BY <1>3
  <2> HIDE DEF first
  <2>2. QED BY <1>2, <1>3, <2>1
<1>4. QED BY <1>1, <1>3 DEF hits

\* No entry of that name up to the end mark, or in all of the directory.
LEMMA FoundNone ==
  ASSUME VolumeOK, vol.is_initialized, NEW c \in Words, NEW name, NEW inner \in BOOLEAN,
         NEW pos \in Nat, Clear(c, name, inner, pos),
         Size(c) <= pos \/ Slot(c, pos).kind = "end"
  PROVE  Found(c, name, inner) = NoInfo.entry
<1> DEFINE raw == Raw(c)
           x == Extent(raw)
           n == Size(c)
<1>1. raw \in Seq(Slots(c)) /\ Len(raw) = n /\ n \in Nat
      /\ \A j \in Nat : j < n => raw[j + 1] = Slot(c, j)
  BY RawAre
<1>2. /\ x \in Nat /\ x <= n /\ (\A j \in 1 .. x : raw[j].kind # "end")
  BY <1>1, ExtentIs
<1> HIDE DEF raw, x, n
<1>3. x <= pos
  <2>1. CASE n <= pos
    BY <1>1, <1>2, <2>1
  <2>2. CASE Slot(c, pos).kind = "end" /\ ~(n <= pos)
    <3>1. pos < n /\ raw[pos + 1].kind = "end"
      BY <1>1, <2>2
    <3>2. ~(pos + 1 \in 1 .. x)
      BY <1>2, <3>1
    <3>3. QED BY <1>2, <3>2
  <2>3. QED BY <2>1, <2>2 DEF n
<1>4. ASSUME NEW j \in 1 .. x PROVE ~Hit(raw[j], name, inner)
  <2>1. j - 1 \in Nat /\ j - 1 < pos /\ j - 1 < n /\ (j - 1) + 1 = j
    BY <1>1, <1>2, <1>3
  <2>2. raw[j] = Slot(c, j - 1)
    BY <1>1, <2>1
  <2>3. QED BY <2>1, <2>2 DEF Clear
<1>5. {j \in 1 .. x : Hit(raw[j], name, inner)} = {}
  BY <1>4
<1>6. QED BY <1>1, <1>5, FoundIs DEF raw, x

\* The first entry of that name.
LEMMA FoundFirst ==
  ASSUME VolumeOK, vol.is_initialized, NEW c \in Words, NEW name, NEW inner \in BOOLEAN,
         NEW pos \in Nat, Clear(c, name, inner, pos), pos < Size(c),
         Hit(Slot(c, pos), name, inner)
  PROVE  Found(c, name, inner) = Slot(c, pos)
<1> DEFINE raw == Raw(c)
           x == Extent(raw)
           n == Size(c)
           hits == {j \in 1 .. x : Hit(raw[j], name, inner)}
<1>1. raw \in Seq(Slots(c)) /\ Len(raw) = n /\ n \in Nat
      /\ \A j \in Nat : j < n => raw[j + 1] = Slot(c, j)
  BY RawAre
<1>2. /\ x \in Nat /\ x <= n /\ (x < n => raw[x + 1].kind = "end")
  BY <1>1, ExtentIs
<1> HIDE DEF raw, x, n
<1>3. pos < n /\ raw[pos + 1] = Slot(c, pos) /\ raw[pos + 1].kind = "sfn"
  BY <1>1 DEF n, Hit, Shown
<1>4. pos < x
  <2>1. SUFFICES ASSUME x <= pos PROVE FALSE
    BY <1>2
  <2>2. x < n /\ raw[x + 1] = Slot(c, x) /\ raw[x + 1].kind = "end"
    BY <1>1, <1>2, <1>3, <2>1
  <2>3. x # pos
    BY <1>3, <2>2
  <2>4. x < pos
    BY <1>2, <2>1, <2>3
  <2>5. QED BY <1>2, <2>2, <2>4 DEF Clear
<1>5. pos + 1 \in hits
  BY <1>2, <1>3, <1>4
<1>6. \A j \in hits : pos + 1 <= j
  <2> SUFFICES ASSUME NEW j \in hits, ~(pos + 1 <= j) PROVE FALSE
    OBVIOUS
  <2>1. j \in 1 .. x /\ Hit(raw[j], name, inner)
    OBVIOUS
  <2>2. j - 1 \in Nat /\ j - 1 < pos /\ j - 1 < n /\ (j - 1) + 1 = j
    BY <1>2, <1>1, <1>3, <2>1
  <2>3. raw[j] = Slot(c, j - 1)
    BY <1>1, <2>2
  <2>4. QED BY <2>1, <2>2, <2>3 DEF Clear
<1>7. QED BY <1>1, <1>3, <1>5, <1>6, FoundIs DEF raw, x

\* A circular chain has come back to a cluster after as many links as there are
\* clusters: every cluster of it is among those.
LEMMA ComesBack ==
  ASSUME VolumeOK, vol.is_initialized, NEW c \in Words, Circular(c), NEW m \in Nat
  PROVE  \E k \in 0 .. vol.total_clusters :
           Chain(vol, medium, c)[m] = Chain(vol, medium, c)[k]
<1> DEFINE f == Chain(vol, medium, c)
           n == vol.total_clusters
           good(x) == getNextCluster(vol, medium, x) = "SUCCESS"
<1>1. n \in Nat
  BY Geometry
<1>2. f \in [Nat -> Words] /\ \A k \in Nat : good(f[k]) => f[k + 1] = Entry(medium, f[k])
  BY ChainOf
<1>3. \A k \in 0 .. n : good(f[k])
  BY DEF Circular
<1>4. \A k \in 0 .. n : f[k] \in 2 .. (n + 1)
  <2>1. \A k \in 0 .. n : f[k] \in Words
    BY <1>1, <1>2
  <2>2. QED BY <1>3, <2>1, NextCluster
<1> HIDE DEF f, n, good
<1>5. PICK x \in 0 .. n, y \in 0 .. n : x < y /\ f[x] = f[y]
  <2> DEFINE h == [k \in 0 .. n |-> f[k]]
  <2>1. h \in [0 .. n -> 2 .. (n + 1)]
    BY <1>4
  <2>2. /\ IsFiniteSet(0 .. n) /\ IsFiniteSet(2 .. (n + 1))
        /\ Cardinality(0 .. n) = n + 1
    BY <1>1, FS_Interval
  <2>3. Cardinality(2 .. (n + 1)) = n
    <3>1. n + 1 \in Int /\ (2 > n + 1 => n = 0) /\ (n + 1) - 2 + 1 = n
      BY <1>1
    <3>2. Cardinality(2 .. (n + 1)) = IF 2 > n + 1 THEN 0 ELSE (n + 1) - 2 + 1
      BY <3>1, FS_Interval
    <3>3. QED BY <3>1, <3>2
  <2>4. Cardinality(2 .. (n + 1)) < Cardinality(0 .. n)
    BY <1>1, <2>2, <2>3
  <2> HIDE DEF h
  <2>5. PICK u \in 0 .. n, v \in 0 .. n : u # v /\ h[u] = h[v]
    BY <2>1, <2>2, <2>4, FS_PigeonHole
  <2>6. f[u] = f[v]
    BY <2>5 DEF h
  <2>7. u < v \/ v < u
    BY <1>1, <2>5
  <2>8. QED BY <2>6, <2>7
<1>6. \A d \in Nat : y + d <= n + 1 => f[y + d] = f[x + d]
  <2> DEFINE T == {d \in Nat : y + d <= n + 1 => f[y + d] = f[x + d]}
  <2>1. 0 \in T
    BY <1>1, <1>5
  <2>2. ASSUME NEW d \in Nat, d \in T PROVE d + 1 \in T
    <3> SUFFICES ASSUME y + (d + 1) <= n + 1 PROVE f[y + (d + 1)] = f[x + (d + 1)]
      OBVIOUS
    <3>1. /\ y + d \in 0 .. n /\ x + d \in 0 .. n /\ y + d \in Nat /\ x + d \in Nat
          /\ y + (d + 1) = (y + d) + 1 /\ x + (d + 1) = (x + d) + 1 /\ y + d <= n + 1
      BY <1>1, <1>5
    <3>2. f[y + d] = f[x + d]
      BY <2>2, <3>1
    <3>3. f[(y + d) + 1] = Entry(medium, f[y + d]) /\ f[(x + d) + 1] = Entry(medium, f[x + d])
      BY <1>2, <1>3, <3>1
    <3>4. QED BY <3>1, <3>2, <3>3
  <2>3. Nat \subseteq T
    <3> HIDE DEF T
    <3>1. QED BY <2>1, <2>2, Upward
  <2>4. QED BY <2>3
<1>7. \E k \in 0 .. n : f[n + 1] = f[k]
  <2> DEFINE d == n + 1 - y
  <2>1. d \in Nat /\ y + d = n + 1 /\ x + d \in 0 .. n
    BY <1>1, <1>5
  <2>2. QED BY <1>6, <2>1
<1>8. \A q \in Nat : \E k \in 0 .. n : f[q] = f[k]
  <2> DEFINE T == {q \in Nat : \E k \in 0 .. n : f[q] = f[k]}
  <2>1. 0 \in T
    BY <1>1
  <2>2. ASSUME NEW q \in Nat, q \in T PROVE q + 1 \in T
    <3>1. PICK k \in 0 .. n : f[q] = f[k]
      BY <2>2
    <3>2. k \in Nat /\ good(f[k]) /\ good(f[q])
      BY <1>1, <1>3, <3>1
    <3>3. f[q + 1] = f[k + 1]
      BY <1>2, <3>1, <3>2
    <3>4. k + 1 \in 0 .. n \/ k + 1 = n + 1
      BY <1>1
    <3>5. QED BY <1>7, <3>3, <3>4
  <2>3. Nat \subseteq T
    <3> HIDE DEF T
    <3>1. QED BY <2>1, <2>2, Upward
  <2>4. QED BY <2>3
<1>9. QED BY <1>8 DEF f, n

\* The entry that the iterator takes is the first of its name if none before is
\* one: on a chain that goes round for ever too.
LEMMA HitIsFound ==
  ASSUME VolumeOK, vol.is_initialized, NEW c \in Words, NEW name, NEW inner \in BOOLEAN,
         NEW a \in Nat, NEW s \in Nat, NEW e \in Nat, Reaches(c, a),
         s < vol.sectors_per_cluster, e < PerSector,
         Clear(c, name, inner, Place(a, s, e)), Hit(Slot(c, Place(a, s, e)), name, inner)
  PROVE  Found(c, name, inner) = Slot(c, Place(a, s, e))
<1> DEFINE pos == Place(a, s, e)
           f == Chain(vol, medium, c)
<1>1. pos \in Nat /\ Size(c) \in Nat
  BY PlaceNat, SizeNat
<1>2. CASE pos < Size(c)
  BY <1>1, <1>2, FoundFirst
<1>3. CASE ~(pos < Size(c))
  <2>1. Links(c) \in Nat /\ Links(c) < a
    BY <1>3, LinksAre, PlaceInside
  <2>2. Circular(c) /\ Links(c) = vol.total_clusters
    <3>1. getNextCluster(vol, medium, f[Links(c)]) = "SUCCESS"
      BY <2>1 DEF Reaches
    <3>2. QED BY <3>1, LinksAre
  <2>3. PICK k \in 0 .. vol.total_clusters : f[a] = f[k]
    BY <2>2, ComesBack
  <2>4. vol.total_clusters \in Nat
    BY Geometry
  <2>5. k \in Nat /\ k <= Links(c)
    BY <2>2, <2>3, <2>4
  <2> DEFINE j == Place(k, s, e)
  <2>6. j \in Nat /\ j < Size(c)
    BY <2>5, PlaceNat, PlaceInside
  <2>7. Slot(c, j) = Slot(c, pos)
    BY <2>3, <2>5, SlotPlace
  <2> HIDE DEF j, pos
  <2>8. j < pos
    BY <1>1, <1>3, <2>6
  <2>9. QED BY <2>6, <2>7, <2>8 DEF Clear, pos
<1>4. QED BY <1>2, <1>3

----------------------------------------------------------------------------
(***************************************************************************)
(* Paths.                                                                  *)
(***************************************************************************)

\* left is what remains of the path p from its component i on.
Suffix(left, p, i) ==
  /\ Len(left) = Len(p) - i + 1
  /\ \A j \in 1 .. Len(left) : left[j] = p[i + j - 1]

\* Skip drops empty components in front of the last.
LEMMA SkipIs ==
  ASSUME NEW X, NEW p \in Seq(X), p # <<>>
  PROVE  \E i \in 1 .. Len(p) : /\ Skip(p) \in Seq(X) /\ Suffix(Skip(p), p, i)
                                /\ \A j \in 1 .. (i - 1) : p[j] = <<>>
                                /\ p[i] # <<>> \/ i = Len(p)
<1> DEFINE n == Len(p)
           kept == {k \in 1 .. n : p[k] # <<>> \/ k = n}
           first == CHOOSE k \in kept : \A j \in kept : k <= j
<1>1. n \in Nat \ {0} /\ DOMAIN p = 1 .. n /\ \A k \in 1 .. n : p[k] \in X
  OBVIOUS
<1>2. Skip(p) = SubSeq(p, first, n)
  BY <1>1 DEF Skip
<1>3. kept \subseteq Nat /\ n \in kept
  BY <1>1
<1>4. \E k \in kept : \A j \in kept : k <= j
  <2> HIDE DEF kept
  <2>1. QED BY <1>3, Least
<1>5. first \in kept /\ \A j \in kept : first <= j
  BY <1>4
<1> HIDE DEF first, n
<1>6. first \in 1 .. n /\ first \in Int /\ (p[first] # <<>> \/ first = n)
  BY <1>1, <1>5
<1>7. \A j \in 1 .. (first - 1) : p[j] = <<>>
  <2> SUFFICES ASSUME NEW j \in 1 .. (first - 1), p[j] # <<>> PROVE FALSE
    OBVIOUS
  <2>1. j \in 1 .. n /\ j < first /\ j \in Int
    BY <1>1, <1>6
  <2>2. j \in kept
    BY <2>1
  <2>3. first <= j
    BY <1>5, <2>2
  <2> HIDE DEF kept
  <2>4. QED BY <1>6, <2>1, <2>3
<1> HIDE DEF kept
<1>8. /\ SubSeq(p, first, n) \in Seq(X) /\ Len(SubSeq(p, first, n)) = n - first + 1
      /\ \A j \in 1 .. (n - first + 1) : SubSeq(p, first, n)[j] = p[first + j - 1]
  <2>1. \A j \in first .. n : p[j] \in X
    BY <1>1, <1>6
  <2>2. first <= n /\ n \in Int
    BY <1>1, <1>6
  <2>3. QED BY <1>6, <2>1, <2>2, SubSeqProperties
<1>9. Suffix(Skip(p), p, first) /\ Skip(p) \in Seq(X)
  BY <1>2, <1>8 DEF Suffix, n
<1>10. QED BY <1>6, <1>7, <1>9 DEF n

LEMMA SlotIsEntry ==
  ASSUME VolumeOK, vol.is_initialized, NEW c \in Words, NEW j \in Nat
  PROVE  IsEntry(Slot(c, j))
<1> DEFINE P == PerSector
           spc == vol.sectors_per_cluster
           s == j \div P
           x == Chain(vol, medium, c)[s \div spc]
           b == s % spc
<1>1. P \in Nat \ {0} /\ spc \in Nat \ {0}
  BY Geometry
<1>2. s \in Nat /\ j % P \in 0 .. (P - 1)
  BY <1>1, DivMod
<1>3. s \div spc \in Nat /\ b \in Nat
  <2> HIDE DEF s, spc
  <2>1. s \div spc \in Nat /\ s % spc \in 0 .. (spc - 1)
    BY <1>1, <1>2, DivMod
  <2>2. s % spc \in Nat
    BY <1>1, <2>1
  <2>3. QED BY <2>1, <2>2
<1>4. x \in Words
  BY <1>3, ChainOf
<1>5. Slot(c, j) = medium.sectors[(fatClusterToLba(vol, x) + b) % WORD][(j % P) + 1]
  BY DEF Slot
<1> HIDE DEF x, s, b
<1>6. fatClusterToLba(vol, x) \in Nat
  <2>1. x \in Nat /\ vol.data_start_lba \in Nat /\ spc \in Nat
    BY <1>1, <1>4, Geometry, MountedTypes, WordsAre
  <2>2. CASE x < 2
    BY <2>2 DEF fatClusterToLba
  <2>3. CASE ~(x < 2)
    <3>1. vol.data_start_lba + (x - 2) * spc \in Int
      BY <2>1
    <3>2. QED BY <2>3, <3>1, WordsAre DEF fatClusterToLba
  <2>4. QED BY <2>2, <2>3
<1>7. (fatClusterToLba(vol, x) + b) % WORD \in Words
  BY <1>3, <1>6, WordsAre
<1>8. (j % P) + 1 \in 1 .. P
  <2> DEFINE y == j % P
  <2> HIDE DEF y, P
  <2>1. y \in 0 .. (P - 1)
    BY <1>2 DEF y
  <2>2. y + 1 \in 1 .. P
    BY <1>1, <2>1
  <2>3. QED BY <2>2 DEF y
<1>9. QED BY <1>5, <1>7, <1>8, Geometry

\* What is left of a path after its component i, without empty components in front.
LEMMA TailSkips ==
  ASSUME NEW X, NEW p \in Seq(X), NEW left \in Seq(X), NEW i \in 1 .. Len(p), i < Len(p),
         Suffix(left, p, i)
  PROVE  \E j \in 1 .. Len(p) : /\ i < j /\ Skip(Tail(left)) \in Seq(X)
                                /\ Suffix(Skip(Tail(left)), p, j)
                                /\ \A k \in (i + 1) .. (j - 1) : p[k] = <<>>
                                /\ p[j] # <<>> \/ j = Len(p)
<1> DEFINE n == Len(p)
           t == Tail(left)
           s == Skip(t)
<1>1. n \in Nat /\ i \in Nat /\ i < n
  OBVIOUS
<1>2. Len(left) = n - i + 1 /\ \A j \in 1 .. (n - i + 1) : left[j] = p[i + j - 1]
  BY DEF Suffix
<1>3. left # <<>>
  BY <1>1, <1>2
<1>4. t \in Seq(X) /\ Len(t) = n - i /\ \A j \in 1 .. (n - i) : t[j] = left[j + 1]
  <2>1. (n - i + 1) - 1 = n - i
    BY <1>1
  <2>2. QED BY <1>2, <1>3, <2>1, HeadTailProperties
<1> HIDE DEF n, t
<1>5. \A j \in 1 .. (n - i) : t[j] = p[i + j]
  <2> SUFFICES ASSUME NEW j \in 1 .. (n - i) PROVE t[j] = p[i + j]
    OBVIOUS
  <2>1. j + 1 \in 1 .. (n - i + 1) /\ i + (j + 1) - 1 = i + j
    BY <1>1
  <2>2. QED BY <1>2, <1>4, <2>1
<1>6. t # <<>>
  <2>1. Len(t) # 0
    BY <1>1, <1>4
  <2>2. QED BY <2>1
<1>7. PICK d \in 1 .. Len(t) : /\ s \in Seq(X) /\ Suffix(s, t, d)
                               /\ \A j \in 1 .. (d - 1) : t[j] = <<>>
                               /\ t[d] # <<>> \/ d = Len(t)
  BY <1>4, <1>6, SkipIs
<1> HIDE DEF s
<1> DEFINE q == i + d
<1>8. d \in Nat /\ 1 <= d /\ d <= n - i /\ q \in 1 .. n /\ i < q
  BY <1>1, <1>4, <1>7
<1>9. Suffix(s, p, q)
  <2>1. Len(s) = (n - i) - d + 1 /\ \A j \in 1 .. Len(s) : s[j] = t[d + j - 1]
    BY <1>4, <1>7 DEF Suffix
  <2>2. Len(s) = n - q + 1
    BY <1>1, <1>8, <2>1
  <2>3. ASSUME NEW j \in 1 .. Len(s) PROVE s[j] = p[q + j - 1]
    <3>1. d + j - 1 \in 1 .. (n - i) /\ i + (d + j - 1) = q + j - 1
      BY <1>1, <1>8, <2>1
    <3>2. QED BY <1>5, <2>1, <3>1
  <2>4. QED BY <2>2, <2>3 DEF Suffix, n
<1>10. \A k \in (i + 1) .. (q - 1) : p[k] = <<>>
  <2> SUFFICES ASSUME NEW k \in (i + 1) .. (q - 1) PROVE p[k] = <<>>
    OBVIOUS
  <2>1. k - i \in 1 .. (d - 1) /\ k - i \in 1 .. (n - i) /\ i + (k - i) = k
    BY <1>1, <1>8
  <2>2. t[k - i] = <<>> /\ t[k - i] = p[i + (k - i)]
    BY <1>5, <1>7, <2>1
  <2>3. QED BY <2>1, <2>2
<1>11. p[q] # <<>> \/ q = n
  <2>1. d \in 1 .. (n - i)
    BY <1>1, <1>8
  <2>2. t[d] = p[q]
    BY <1>5, <2>1
  <2>3. d = n - i => q = n
    BY <1>1, <1>8
  <2>4. QED BY <1>4, <1>7, <2>2, <2>3
<1> HIDE DEF q
<1>12. QED BY <1>7, <1>8, <1>9, <1>10, <1>11 DEF n, s, t

Root == [kind |-> "sfn", dir |-> TRUE, start |-> vol.root_dir_cluster]

\* What a path can lead to.
Places == {NoInfo.entry, Root} \cup UNION {{Slot(c, j) : j \in Nat} : c \in Words}

LEMMA PlaceStarts ==
  ASSUME VolumeOK, vol.is_initialized, NEW e \in Places, e.kind # "none" PROVE e.start \in Words
<1>1. CASE e = NoInfo.entry
  BY <1>1 DEF NoInfo
<1>2. CASE e = Root
  BY <1>2, Geometry DEF Root
<1>3. CASE \E c \in Words, j \in Nat : e = Slot(c, j)
  BY <1>3, SlotIsEntry DEF IsEntry
<1>4. QED BY <1>1, <1>2, <1>3 DEF Places

\* What is found is an entry of the directory that has the name.
LEMMA FoundIn ==
  ASSUME VolumeOK, vol.is_initialized, NEW c \in Words, NEW name, NEW inner \in BOOLEAN
  PROVE  /\ Found(c, name, inner) \in Places
         /\ Found(c, name, inner) # NoInfo.entry => Hit(Found(c, name, inner), name, inner)
<1> DEFINE raw == Raw(c)
           x == Extent(raw)
           n == Size(c)
           hits == {j \in 1 .. x : Hit(raw[j], name, inner)}
<1>1. raw \in Seq(Slots(c)) /\ Len(raw) = n /\ n \in Nat
      /\ \A j \in Nat : j < n => raw[j + 1] = Slot(c, j)
  BY RawAre
<1>2. x \in Nat /\ x <= n
  BY <1>1, ExtentIs
<1>3. /\ hits = {} => Found(c, name, inner) = NoInfo.entry
      /\ \A i \in hits : (\A j \in hits : i <= j) => Found(c, name, inner) = raw[i]
  BY <1>1, FoundIs
<1> HIDE DEF raw, x, n
<1>4. CASE hits = {}
  BY <1>3, <1>4 DEF Places
<1>5. CASE hits # {}
  <2>1. hits \subseteq Nat
    BY <1>2
  <2>2. PICK i \in hits : \A j \in hits : i <= j
    <3> HIDE DEF hits
    <3>1. QED BY <1>5, <2>1, Least
  <2>3. Found(c, name, inner) = raw[i]
    BY <1>3, <2>2
  <2>4. i \in 1 .. x /\ Hit(raw[i], name, inner)
    OBVIOUS
  <2>5. i - 1 \in Nat /\ i - 1 < n /\ (i - 1) + 1 = i
    BY <1>1, <1>2, <2>4
  <2>6. raw[i] = Slot(c, i - 1)
    BY <1>1, <2>5
  <2>7. QED BY <2>3, <2>4, <2>5, <2>6 DEF Places
<1>6. QED BY <1>4, <1>5

\* One component more.
Follow(e, name, inner) ==
  IF e.kind = "none" \/ (name = <<>> /\ inner) THEN e ELSE Found(e.start, name, inner)

LEMMA LeadsAre ==
  ASSUME VolumeOK, vol.is_initialized, NEW X, NEW p \in Seq(X)
  PROVE  /\ Leads(p)[0] = Root
         /\ \A k \in 0 .. Len(p) : Leads(p)[k] \in Places
         /\ \A k \in 0 .. (Len(p) - 1) :
              Leads(p)[k + 1] = Follow(Leads(p)[k], p[k + 1], k + 1 < Len(p))
<1> DEFINE n == Len(p)
           S == Places
           more(k, e) == Follow(e, p[k], k < n)
           next == [v \in (1 .. n) \X S |-> more(v[1], v[2])]
           def(g) == [k \in 0 .. n |-> IF k = 0 THEN Root
                                       ELSE IF g[k - 1].kind = "none" \/ (p[k] = <<>> /\ k < n)
                                              THEN g[k - 1]
                                       ELSE Found(g[k - 1].start, p[k], k < n)]
           g0 == Leads(p)
<1>0. n \in Nat /\ 0 \in 0 .. n
  OBVIOUS
<1>1. Root \in S
  BY DEF Places
<1>2. ASSUME NEW k \in 1 .. n, NEW e \in S PROVE more(k, e) \in S
  <2>1. CASE e.kind = "none" \/ (p[k] = <<>> /\ k < n)
    BY <2>1 DEF Follow
  <2>2. CASE ~(e.kind = "none" \/ (p[k] = <<>> /\ k < n))
    <3>1. e.start \in Words /\ (k < n) \in BOOLEAN
      BY <2>2, PlaceStarts
    <3>2. Found(e.start, p[k], k < n) \in S
      BY <3>1, FoundIn
    <3>3. QED BY <2>2, <3>2 DEF Follow
  <2>3. QED BY <2>1, <2>2
<1> HIDE DEF more, n, S
<1>3. next \in [(1 .. n) \X S -> S]
  <2>1. ASSUME NEW v \in (1 .. n) \X S PROVE more(v[1], v[2]) \in S
    <3>1. v[1] \in 1 .. n /\ v[2] \in S
      OBVIOUS
    <3>2. QED BY <1>2, <3>1
  <2>2. QED BY <2>1
<1>4. \A k \in 1 .. n, e \in S : next[<<k, e>>] = more(k, e)
  OBVIOUS
<1> HIDE DEF next
<1>5. PICK h : Folds(S, Root, n, next, h)
  BY <1>0, <1>1, <1>3, FoldsExist
<1>6. h \in [0 .. n -> S] /\ h[0] = Root
      /\ \A k \in 0 .. (n - 1) : h[k + 1] = next[<<k + 1, h[k]>>]
  BY <1>5 DEF Folds
<1>7. \A k \in 1 .. n : h[k] = more(k, h[k - 1])
  <2> SUFFICES ASSUME NEW k \in 1 .. n PROVE h[k] = more(k, h[k - 1])
    OBVIOUS
  <2>1. k - 1 \in 0 .. (n - 1) /\ (k - 1) + 1 = k /\ k - 1 \in 0 .. n
    BY <1>0
  <2>2. h[k] = next[<<k, h[k - 1]>>] /\ h[k - 1] \in S
    BY <1>6, <2>1
  <2>3. QED BY <1>4, <2>2
<1>8. h = def(h)
  <2> DEFINE d == def(h)
  <2>1. ASSUME NEW k \in 0 .. n PROVE h[k] = d[k]
    <3>1. CASE k = 0
      BY <1>6, <3>1
    <3>2. CASE k # 0
      <4>1. k \in 1 .. n
        BY <1>0, <3>2
      <4>2. QED BY <1>7, <3>2, <4>1 DEF more, Follow
    <3>3. QED BY <3>1, <3>2
  <2>2. d = [k \in 0 .. n |-> d[k]] /\ h = [k \in 0 .. n |-> h[k]]
    BY <1>6
  <2> HIDE DEF d
  <2>3. h = d
    BY <2>1, <2>2
  <2>4. QED BY <2>3 DEF d
<1>9. g0 = CHOOSE g : g = def(g)
  BY DEF Leads, n, Root
<1>10. g0 = def(g0)
  <2> HIDE DEF g0, def
  <2>1. QED BY <1>8, <1>9
<1> HIDE DEF g0
<1>11. g0[0] = Root
  BY <1>0, <1>10
<1>12. \A k \in 0 .. (n - 1) : g0[k + 1] = more(k + 1, g0[k])
  <2> SUFFICES ASSUME NEW k \in 0 .. (n - 1) PROVE g0[k + 1] = more(k + 1, g0[k])
    OBVIOUS
  <2>1. k + 1 \in 0 .. n /\ k + 1 # 0 /\ (k + 1) - 1 = k
    BY <1>0
  <2>2. g0[k + 1] = def(g0)[k + 1]
    BY <1>10
  <2>3. QED BY <2>1, <2>2 DEF more, Follow
<1>13. \A k \in 0 .. n : g0[k] \in S
  <2> DEFINE T == {k \in Nat : k <= n => g0[k] \in S}
  <2>1. 0 \in T
    BY <1>0, <1>1, <1>11
  <2>2. ASSUME NEW k \in Nat, k \in T PROVE k + 1 \in T
    <3> SUFFICES ASSUME k + 1 <= n PROVE g0[k + 1] \in S
      OBVIOUS
    <3>1. k \in 0 .. (n - 1) /\ k + 1 \in 1 .. n /\ g0[k] \in S
      BY <1>0, <2>2
    <3>2. QED BY <1>2, <1>12, <3>1
  <2>3. Nat \subseteq T
    <3> HIDE DEF T
    <3>1. QED BY <2>1, <2>2, Upward
  <2>4. QED BY <1>0, <2>3
<1>14. QED BY <1>11, <1>12, <1>13 DEF g0, n, S, more

\* A path that has led nowhere leads nowhere, and empty components in it lead
\* nowhere else.
LEMMA LeadsStay ==
  ASSUME VolumeOK, vol.is_initialized, NEW X, NEW p \in Seq(X),
         NEW i \in 0 .. Len(p), NEW j \in 0 .. Len(p), i <= j,
         \/ Leads(p)[i].kind = "none"
         \/ j < Len(p) /\ \A k \in (i + 1) .. j : p[k] = <<>>
  PROVE  Leads(p)[j] = Leads(p)[i]
<1> DEFINE n == Len(p)
           g == Leads(p)
<1>1. n \in Nat /\ i \in Nat /\ j \in Nat /\ j <= n
  OBVIOUS
<1>2. \A k \in 0 .. (n - 1) : g[k + 1] = Follow(g[k], p[k + 1], k + 1 < n)
  BY LeadsAre
<1> HIDE DEF n, g
<1>3. g[i].kind = "none" \/ (j < n /\ \A k \in (i + 1) .. j : p[k] = <<>>)
  BY DEF g, n
<1> DEFINE T == {d \in Nat : i + d <= j => g[i + d] = g[i]}
<1>4. 0 \in T
  BY <1>1
<1>5. ASSUME NEW d \in Nat, d \in T PROVE d + 1 \in T
  <2> SUFFICES ASSUME i + (d + 1) <= j PROVE g[i + (d + 1)] = g[i]
    OBVIOUS
  <2> DEFINE k == i + d
  <2>1. /\ k \in 0 .. (n - 1) /\ k <= j /\ i + (d + 1) = k + 1 /\ k + 1 \in (i + 1) .. j
        /\ (j < n => k + 1 < n)
    BY <1>1
  <2>2. g[k] = g[i]
    BY <1>5, <2>1
  <2>3. g[k + 1] = Follow(g[k], p[k + 1], k + 1 < n)
    BY <1>2, <2>1
  <2> HIDE DEF k
  <2>4. g[k].kind = "none" \/ (p[k + 1] = <<>> /\ k + 1 < n)
    BY <1>3, <2>1, <2>2
  <2>5. QED BY <2>1, <2>2, <2>3, <2>4 DEF Follow
<1>6. Nat \subseteq T
  <2> HIDE DEF T
  <2>1. QED BY <1>4, <1>5, Upward
<1>7. j - i \in Nat /\ i + (j - i) = j
  BY <1>1
<1>8. j - i \in T
  BY <1>6, <1>7
<1>9. g[i + (j - i)] = g[i]
  BY <1>1, <1>7, <1>8
<1>10. QED BY <1>7, <1>9 DEF g

\* The next component that counts is looked up where the last one led.
LEMMA Arrives ==
  ASSUME VolumeOK, vol.is_initialized, NEW X, NEW p \in Seq(X), NEW i \in 0 .. Len(p),
         NEW j \in 1 .. Len(p), i < j, Leads(p)[i].kind # "none",
         \A k \in (i + 1) .. (j - 1) : p[k] = <<>>, p[j] # <<>> \/ j = Len(p)
  PROVE  Leads(p)[j] = Found(Leads(p)[i].start, p[j], j < Len(p))
<1> DEFINE n == Len(p)
           g == Leads(p)
           m == j - 1
<1>1. n \in Nat /\ i \in Nat /\ j \in Nat /\ j <= n
  OBVIOUS
<1>2. m \in 0 .. (n - 1) /\ m \in 0 .. n /\ m < n /\ i <= m /\ m + 1 = j
  BY <1>1
<1>3. g[m] = g[i]
  <2> HIDE DEF m
  <2>1. \A k \in (i + 1) .. m : p[k] = <<>>
    BY DEF m
  <2>2. QED BY <1>2, <2>1, LeadsStay
<1>4. g[m + 1] = Follow(g[m], p[m + 1], m + 1 < n)
  BY <1>2, LeadsAre
<1> HIDE DEF m, n, g
<1>5. g[j] = Follow(g[i], p[j], j < n)
  BY <1>2, <1>3, <1>4
<1>6. ~(g[i].kind = "none" \/ (p[j] = <<>> /\ j < n))
  BY <1>1 DEF g, n
<1>7. QED BY <1>5, <1>6 DEF Follow, g, n

----------------------------------------------------------------------------
(***************************************************************************)
(* Looking a path up.                                                      *)
(***************************************************************************)

Components(p) == {p[k] : k \in DOMAIN p}

\* The iterator has passed entries of the directory at c, none of that name.
Passing(c, name, inner, it) == \E pos : At(c, it, pos) /\ Clear(c, name, inner, pos)

\* What the iterator has given is the first of that name, or none is yet.
Given(c, name, inner, d, it) ==
  /\ Shown(d.info.entry) /\ d.info.name = d.info.entry.name
  /\ Hit(d.info.entry, name, inner) => Found(c, name, inner) = d.info.entry
  /\ ~Hit(d.info.entry, name, inner) => Passing(c, name, inner, it)

\* get_file, with the job d and the iterator it, is looking for component i of
\* the path p in the directory at c.
Seek(c, p, i, d, it) ==
  /\ i \in 1 .. Len(p) /\ d.left \in Seq(Components(p)) /\ Suffix(d.left, p, i)
  /\ Leads(p)[i] = Found(c, p[i], i < Len(p))
  /\ d.phase = "turn" => Passing(c, p[i], i < Len(p), it)
  /\ d.phase = "got" /\ d.res = "SUCCESS" => Given(c, p[i], i < Len(p), d, it)
  /\ d.phase = "got" /\ d.res # "SUCCESS" /\ d.clean =>
       Found(c, p[i], i < Len(p)) = NoInfo.entry

Answered(d) ==
  /\ d.res = "SUCCESS" => d.info.entry = Target(d.path)
  /\ d.clean /\ d.res # "SUCCESS" => Target(d.path) = NoInfo.entry

FindAt(d, it) ==
  /\ d.path \in Paths
  /\ d.phase # "done" => \E i : Seek(d.start, d.path, i, d, it)
  /\ d.phase = "done" => Answered(d)

FindOK ==
  job.kind # "none" /\ ShortNamesOnly =>
    iter.lfn_checksum = 0 /\ (job.kind = "find" => FindAt(job, iter))

LEMMA FoundSteady ==
  ASSUME UNCHANGED <<medium, booted, vol>>
  PROVE  /\ \A c, name, inner : Found(c, name, inner)' = Found(c, name, inner)
         /\ \A c, j : Slot(c, j)' = Slot(c, j)
         /\ \A p : Leads(p)' = Leads(p)
         /\ ShortNamesOnly' <=> ShortNamesOnly
<1>1. PerSector' = PerSector
  BY DEF PerSector
<1>2. \A c, j : Slot(c, j)' = Slot(c, j)
  BY <1>1 DEF Slot
<1>3. \A c, name, inner : Found(c, name, inner)' = Found(c, name, inner)
  BY DEF Found, Raw, Links, Slot, PerSector
<1>4. \A p : Leads(p)' = Leads(p)
  BY DEF Leads, Found, Raw, Links, Slot, PerSector
<1>5. ShortNamesOnly' <=> ShortNamesOnly
  BY <1>1 DEF ShortNamesOnly
<1>6. QED BY <1>2, <1>3, <1>4, <1>5

LEMMA FindSteady ==
  ASSUME UNCHANGED <<medium, booted, vol>>, NEW d, NEW q, job' = d, iter' = q, FindAt(d, q)
  PROVE  FindAt(job, iter)'
<1>1. /\ \A c, name, inner : Found(c, name, inner)' = Found(c, name, inner)
      /\ \A c, j : Slot(c, j)' = Slot(c, j)
      /\ \A p : Leads(p)' = Leads(p)
  BY FoundSteady
<1>2. \A c, name, inner, pos : Clear(c, name, inner, pos)' <=> Clear(c, name, inner, pos)
  BY <1>1 DEF Clear
<1>3. \A c, name, inner : Passing(c, name, inner, q) => Passing(c, name, inner, iter)'
  BY <1>2, AtSteady DEF Passing
<1>4. \A c, name, inner : Given(c, name, inner, d, q) => Given(c, name, inner, job, iter)'
  BY <1>1, <1>3 DEF Given
<1>5. \A c, p, i : Seek(c, p, i, d, q) => Seek(c, p, i, job, iter)'
  BY <1>1, <1>3, <1>4 DEF Seek
<1>6. Answered(d) => Answered(job)'
  BY <1>1 DEF Answered, Target
<1>7. QED BY <1>5, <1>6 DEF FindAt

\* A lookup in the directory at c begins.
LEMMA SeekStart ==
  ASSUME VolumeOK, vol.is_initialized, NEW c \in Words, NEW p, NEW i \in 1 .. Len(p), NEW d,
         d.left \in Seq(Components(p)), Suffix(d.left, p, i),
         Leads(p)[i] = Found(c, p[i], i < Len(p)), d.phase = "turn"
  PROVE  Seek(c, p, i, d, Fresh(c))
<1>1. At(c, Fresh(c), 0)
  BY FreshFields DEF At
<1>2. \A name, inner : Clear(c, name, inner, 0)
  BY DEF Clear
<1>3. \A name, inner : Passing(c, name, inner, Fresh(c))
  BY <1>1, <1>2 DEF Passing
<1>4. QED BY <1>3 DEF Seek

LEMMA PathIs ==
  ASSUME NEW p \in Paths PROVE p \in Seq(Components(p)) /\ p # <<>>
  BY DirAssumption DEF Components

LEMMA FindStart ==
  ASSUME Typed, NEW path \in Paths, get_file(path) PROVE FindOK'
<1>1. /\ vol.is_initialized /\ iter' = Fresh(vol.root_dir_cluster)
      /\ UNCHANGED <<medium, booted, vol>>
      /\ job' = [NoJob EXCEPT !.kind = "find", !.phase = "turn", !.path = path,
                              !.left = Skip(path), !.start = vol.root_dir_cluster]
  BY DEF get_file
<1>2. PICK c : c = vol.root_dir_cluster
  OBVIOUS
<1>3. c \in Words /\ VolumeOK
  BY <1>1, <1>2, Geometry DEF Typed
<1>4. PICK d : d = job'
  OBVIOUS
<1>5. d.path = path /\ d.left = Skip(path) /\ d.start = c /\ d.phase = "turn"
  BY <1>1, <1>2, <1>4 DEF NoJob
<1>6. path \in Seq(Components(path)) /\ path # <<>>
  BY PathIs
<1>7. PICK i \in 1 .. Len(path) : /\ Skip(path) \in Seq(Components(path))
                                  /\ Suffix(Skip(path), path, i)
                                  /\ \A j \in 1 .. (i - 1) : path[j] = <<>>
                                  /\ path[i] # <<>> \/ i = Len(path)
  BY <1>6, SkipIs
<1>8. Leads(path)[0] = Root
  BY <1>1, <1>3, <1>6, LeadsAre
<1>9. Root.kind # "none" /\ Root.start = c
  BY <1>2 DEF Root
<1>10. Leads(path)[i] = Found(c, path[i], i < Len(path))
  <2>1. Len(path) \in Nat /\ 0 \in 0 .. Len(path) /\ 0 < i /\ 0 + 1 = 1
    BY <1>6
  <2>2. \A k \in (0 + 1) .. (i - 1) : path[k] = <<>>
    BY <1>7, <2>1
  <2>3. Leads(path)[0].kind # "none" /\ Leads(path)[0].start = c
    BY <1>8, <1>9
  <2>4. Leads(path)[i] = Found(Leads(path)[0].start, path[i], i < Len(path))
    BY <1>1, <1>3, <1>6, <1>7, <2>1, <2>2, <2>3, Arrives
  <2>5. QED BY <2>3, <2>4
<1>11. Seek(c, path, i, d, Fresh(c))
  BY <1>1, <1>3, <1>5, <1>7, <1>10, SeekStart
<1>12. FindAt(d, Fresh(c))
  BY <1>5, <1>11 DEF FindAt
<1>13. FindAt(job, iter)'
  <2>1. PICK q : q = Fresh(c)
    OBVIOUS
  <2>2. job' = d /\ iter' = q /\ FindAt(d, q)
    BY <1>1, <1>2, <1>4, <1>12, <2>1
  <2>3. QED BY <1>1, <2>2, FindSteady
<1>14. iter'.lfn_checksum = 0
  BY <1>1, <1>2, <1>3, FreshFields
<1>15. QED BY <1>13, <1>14 DEF FindOK

\* Without long names no entry is a piece of one.
LEMMA NoPieces ==
  ASSUME VolumeOK, vol.is_initialized, IterOK, NeedsSector /\ NeedsCluster => Link = "SUCCESS",
         ShortNamesOnly
  PROVE  Under.kind # "lfn"
<1> DEFINE e == Loaded.entry
           P == PerSector
<1>1. Loaded.buffer \in Words /\ e < P /\ Loaded \in Iterator
  BY LoadedFields
<1>2. e \in Nat /\ P \in Nat
  BY <1>1, IterFields, Geometry
<1>3. e + 1 \in 1 .. P
  <2> HIDE DEF e, P
  <2>1. QED BY <1>1, <1>2
<1>4. QED BY <1>1, <1>3 DEF ShortNamesOnly, Under

\* One entry more without the name.
LEMMA ClearNext ==
  ASSUME NEW c, NEW name, NEW inner, NEW pos \in Nat, Clear(c, name, inner, pos),
         Slot(c, pos).kind # "end", ~Hit(Slot(c, pos), name, inner)
  PROVE  Clear(c, name, inner, pos + 1)
<1> SUFFICES ASSUME NEW j \in Nat, j < pos + 1
             PROVE  Slot(c, j).kind # "end" /\ ~Hit(Slot(c, j), name, inner)
  BY DEF Clear
<1>1. j < pos \/ j = pos
  OBVIOUS
<1>2. QED BY <1>1 DEF Clear

\* A turn of the iterator in a lookup.
LEMMA SeekTurn ==
  ASSUME Typed, TakeEntry, iter.lfn_checksum = 0, ShortNamesOnly, NEW c \in Words, NEW p, NEW i,
         Seek(c, p, i, job, iter), job.kind = "find", NEW k \in 0 .. (BYTE - 1),
         NEW d, d = job'
  PROVE  Seek(c, p, i, d, Past(Loaded, k))
<1> DEFINE name == p[i]
           inner == i < Len(p)
           q == Past(Loaded, k)
<1>1. /\ job.phase = "turn" /\ vol.is_initialized
      /\ (NeedsSector /\ NeedsCluster => Link = "SUCCESS")
  BY TakeShape
<1>2. VolumeOK /\ IterOK /\ Shaped(job)
  BY DEF Typed, JobOK
<1>3. PICK pos : At(c, iter, pos) /\ Clear(c, name, inner, pos)
  BY <1>1 DEF Seek, Passing
<1>4. pos \in Nat /\ Under = Slot(c, pos) /\ At(c, q, pos + 1)
  BY <1>1, <1>2, <1>3, TurnAt
<1>5. PICK a \in Nat, s \in Nat, e \in Nat :
        /\ Reaches(c, a) /\ pos = Place(a, s, e)
        /\ s < vol.sectors_per_cluster /\ e < PerSector
  BY <1>1, <1>2, <1>3, TurnAt
<1>6. inner \in BOOLEAN
  OBVIOUS
<1>7. /\ i \in 1 .. Len(p) /\ job.left \in Seq(Components(p)) /\ Suffix(job.left, p, i)
      /\ Leads(p)[i] = Found(c, name, inner)
  BY DEF Seek
<1> HIDE DEF name, inner, q
<1>8. Under.kind # "end" /\ ~Hit(Under, name, inner) => Passing(c, name, inner, q)
  BY <1>3, <1>4, ClearNext DEF Passing
<1>9. CASE Under.kind = "end" /\ Got("NO_MORE_ENTRIES", NoInfo)
  <2>1. d.phase = "got" /\ d.res # "SUCCESS" /\ d.left = job.left
    BY <1>2, <1>9 DEF Got, Shaped
  <2>2. Found(c, name, inner) = NoInfo.entry
    BY <1>1, <1>2, <1>3, <1>4, <1>6, <1>9, FoundNone
  <2>3. QED BY <1>7, <2>1, <2>2 DEF Seek, name, inner, q
<1>10. CASE Under.kind # "end" /\ ~Shown(Under) /\ job' = job
  <2>1. d.phase = "turn" /\ d.left = job.left
    BY <1>1, <1>10
  <2>2. Passing(c, name, inner, q)
    BY <1>8, <1>10 DEF Hit
  <2>3. QED BY <1>7, <2>1, <2>2 DEF Seek, name, inner, q
<1>11. CASE Shown(Under) /\ Got("SUCCESS", InfoOf(Under))
  <2>1. d.phase = "got" /\ d.res = "SUCCESS" /\ d.left = job.left /\ d.info = InfoOf(Under)
    BY <1>2, <1>11 DEF Got, Shaped
  <2>2. InfoOf(Under).entry = Under /\ InfoOf(Under).name = Under.name
    BY DEF InfoOf, NameOf
  <2>3. Hit(Under, name, inner) => Found(c, name, inner) = Under
    BY <1>1, <1>2, <1>3, <1>4, <1>5, <1>6, HitIsFound
  <2>4. Under.kind # "end"
    BY <1>11 DEF Shown
  <2>5. Given(c, name, inner, d, q)
    BY <1>8, <1>11, <2>1, <2>2, <2>3, <2>4 DEF Given
  <2>6. QED BY <1>7, <2>1, <2>5 DEF Seek, name, inner, q
<1>12. QED BY <1>9, <1>10, <1>11, TakeShape DEF q

LEMMA FindTake == ASSUME Typed, FindOK, TakeEntry PROVE FindOK'
<1>1. /\ job.phase = "turn" /\ vol.is_initialized
      /\ (NeedsSector /\ NeedsCluster => Link = "SUCCESS")
      /\ UNCHANGED <<medium, booted, vol>>
  BY TakeShape
<1>2. VolumeOK /\ IterOK /\ Shaped(job) /\ job.start \in Words /\ job.kind # "none"
  BY <1>1 DEF Typed, JobOK
<1>3. ShortNamesOnly' <=> ShortNamesOnly
  BY <1>1, FoundSteady
<1>4. SUFFICES ASSUME ShortNamesOnly
               PROVE  iter'.lfn_checksum = 0 /\ (job'.kind = "find" => FindAt(job, iter)')
  BY <1>3 DEF FindOK
<1>5. iter.lfn_checksum = 0 /\ (job.kind = "find" => FindAt(job, iter))
  BY <1>2, <1>4 DEF FindOK
<1>6. PICK k \in 0 .. (BYTE - 1) : /\ iter' = Past(Loaded, k)
                                   /\ (Under.kind = "sfn" => k = 0)
                                   /\ (Under.kind \in {"end", "deleted"} => k = iter.lfn_checksum)
  BY TakeShape
<1>7. k = 0
  <2>1. Under.kind # "lfn"
    BY <1>1, <1>2, <1>4, NoPieces
  <2>2. Under.kind \in {"end", "deleted", "lfn", "sfn"}
    BY TakeShape DEF IsEntry
  <2>3. QED BY <1>5, <1>6, <2>1, <2>2
<1>8. iter'.lfn_checksum = 0
  <2>1. Loaded \in Iterator
    BY <1>1, <1>2, LoadedFields
  <2>2. QED BY <1>6, <1>7, <2>1, PastFields
<1>9. ASSUME job'.kind = "find" PROVE FindAt(job, iter)'
  <2>1. PICK d : d = job'
    OBVIOUS
  <2>2. PICK q : q = Past(Loaded, k)
    OBVIOUS
  <2>3. job.kind = "find" /\ d.path = job.path /\ d.start = job.start /\ d.phase # "done"
    BY <1>1, <1>2, <1>9, <2>1, TakeShape DEF Got, Shaped
  <2>4. PICK i : Seek(job.start, job.path, i, job, iter)
    BY <1>1, <1>5, <2>3 DEF FindAt
  <2>5. Seek(job.start, job.path, i, d, q)
    BY <1>2, <1>4, <1>5, <2>1, <2>2, <2>3, <2>4, SeekTurn
  <2>6. FindAt(d, q)
    BY <1>5, <2>3, <2>5 DEF FindAt
  <2>7. QED BY <1>1, <1>6, <2>1, <2>2, <2>6, FindSteady
<1>10. QED BY <1>8, <1>9

LEMMA FindEnds == ASSUME Typed, FindOK, ChainEnds PROVE FindOK'
<1>1. /\ job.phase = "turn" /\ NeedsSector /\ NeedsCluster /\ Link # "SUCCESS"
      /\ Got(Link, NoInfo) /\ UNCHANGED <<medium, booted, vol>> /\ iter' = Advanced
  BY DEF ChainEnds
<1>2. VolumeOK /\ IterOK /\ Shaped(job) /\ job.start \in Words /\ job.kind # "none"
      /\ vol.is_initialized
  BY <1>1 DEF Typed, JobOK
<1>3. ShortNamesOnly' <=> ShortNamesOnly
  BY <1>1, FoundSteady
<1>4. SUFFICES ASSUME ShortNamesOnly
               PROVE  iter'.lfn_checksum = 0 /\ (job'.kind = "find" => FindAt(job, iter)')
  BY <1>3 DEF FindOK
<1>5. iter.lfn_checksum = 0 /\ (job.kind = "find" => FindAt(job, iter))
  BY <1>2, <1>4 DEF FindOK
<1>6. iter'.lfn_checksum = 0
  BY <1>1, <1>2, <1>5, AdvancedFields
<1>7. ASSUME job'.kind = "find" PROVE FindAt(job, iter)'
  <2>1. PICK d : d = job'
    OBVIOUS
  <2>2. PICK q : q = Advanced
    OBVIOUS
  <2>3. /\ job.kind = "find" /\ d.path = job.path /\ d.start = job.start /\ d.phase = "got"
        /\ d.res # "SUCCESS" /\ d.left = job.left
    BY <1>1, <1>2, <1>7, <2>1 DEF Got, Shaped
  <2>4. PICK c, p : c = job.start /\ p = job.path
    OBVIOUS
  <2>5. PICK i : Seek(c, p, i, job, iter)
    BY <1>1, <1>5, <2>3, <2>4 DEF FindAt
  <2>6. PICK pos : At(c, iter, pos) /\ Clear(c, p[i], i < Len(p), pos)
    BY <1>1, <2>5 DEF Seek, Passing
  <2>7. pos \in Nat /\ Size(c) <= pos
    BY <1>1, <1>2, <2>4, <2>6, EndPlace
  <2>8. Found(c, p[i], i < Len(p)) = NoInfo.entry
    <3> DEFINE name == p[i]
               inner == i < Len(p)
    <3>1. inner \in BOOLEAN /\ Clear(c, name, inner, pos)
      BY <2>6
    <3> HIDE DEF name, inner
    <3>2. Found(c, name, inner) = NoInfo.entry
      BY <1>2, <2>4, <2>7, <3>1, FoundNone
    <3>3. QED BY <3>2 DEF name, inner
  <2>9. Seek(c, p, i, d, q)
    BY <2>3, <2>5, <2>8 DEF Seek
  <2>10. FindAt(d, q)
    BY <1>5, <2>3, <2>4, <2>9 DEF FindAt
  <2>11. QED BY <1>1, <2>1, <2>2, <2>10, FindSteady
<1>8. QED BY <1>6, <1>7

LEMMA FindFails == ASSUME Typed, FindOK, LoadFails PROVE FindOK'
<1>1. /\ job.phase = "turn" /\ UNCHANGED <<medium, booted, vol>>
      /\ iter' = Advanced \/ ((NeedsCluster => Link = "SUCCESS") /\ iter' = Moved)
      /\ job' = [job EXCEPT !.phase = "got", !.res = "READ_FAIL", !.info = NoInfo, !.clean = FALSE]
  BY DEF LoadFails
<1>2. VolumeOK /\ IterOK /\ Shaped(job) /\ job.kind # "none" /\ vol.is_initialized
  BY <1>1 DEF Typed, JobOK
<1>3. ShortNamesOnly' <=> ShortNamesOnly
  BY <1>1, FoundSteady
<1>4. SUFFICES ASSUME ShortNamesOnly
               PROVE  iter'.lfn_checksum = 0 /\ (job'.kind = "find" => FindAt(job, iter)')
  BY <1>3 DEF FindOK
<1>5. iter.lfn_checksum = 0 /\ (job.kind = "find" => FindAt(job, iter))
  BY <1>2, <1>4 DEF FindOK
<1>6. iter'.lfn_checksum = 0
  BY <1>1, <1>2, <1>5, AdvancedFields, MovedFields
<1>7. ASSUME job'.kind = "find" PROVE FindAt(job, iter)'
  <2>1. PICK d : d = job'
    OBVIOUS
  <2>2. PICK q : q = iter'
    OBVIOUS
  <2>3. /\ job.kind = "find" /\ d.path = job.path /\ d.start = job.start /\ d.phase = "got"
        /\ d.res # "SUCCESS" /\ d.left = job.left /\ ~d.clean
    BY <1>1, <1>2, <1>7, <2>1 DEF Shaped
  <2>4. PICK i : Seek(job.start, job.path, i, job, iter)
    BY <1>1, <1>5, <2>3 DEF FindAt
  <2>5. Seek(job.start, job.path, i, d, q)
    BY <2>3, <2>4 DEF Seek
  <2>6. FindAt(d, q)
    BY <1>5, <2>3, <2>5 DEF FindAt
  <2>7. QED BY <1>1, <2>1, <2>2, <2>6, FindSteady
<1>8. QED BY <1>6, <1>7

\* A path of which some component leads nowhere has no target.
LEMMA NoTarget ==
  ASSUME VolumeOK, vol.is_initialized, NEW p \in Paths, NEW i \in 1 .. Len(p),
         Leads(p)[i] = NoInfo.entry
  PROVE  Target(p) = NoInfo.entry
<1>1. p \in Seq(Components(p)) /\ Len(p) \in Nat
  BY PathIs
<1>2. i \in 0 .. Len(p) /\ Len(p) \in 0 .. Len(p) /\ i <= Len(p)
  BY <1>1
<1>3. Leads(p)[i].kind = "none"
  BY DEF NoInfo
<1>4. Leads(p)[Len(p)] = Leads(p)[i]
  BY <1>1, <1>2, <1>3, LeadsStay
<1>5. QED BY <1>3, <1>4 DEF Target

\* get_file compares the name of component i.
LEMMA ComponentIs ==
  ASSUME NEW p \in Paths, NEW i, Seek(job.start, p, i, job, iter)
  PROVE  /\ Head(job.left) = p[i] /\ (Final <=> i = Len(p)) /\ (~Final <=> i < Len(p))
<1> DEFINE n == Len(p)
           left == job.left
<1>1. n \in Nat /\ i \in 1 .. n /\ left \in Seq(Components(p)) /\ Suffix(left, p, i)
  BY PathIs DEF Seek
<1> HIDE DEF n, left
<1>2. Len(left) = n - i + 1 /\ \A j \in 1 .. Len(left) : left[j] = p[i + j - 1]
  BY <1>1 DEF Suffix, n
<1>3. Len(left) = 1 <=> i = n
  BY <1>1, <1>2
<1>4. 1 \in 1 .. Len(left) /\ i + 1 - 1 = i
  BY <1>1, <1>2
<1>5. left[1] = p[i]
  BY <1>2, <1>4
<1>6. Head(left) = left[1]
  BY <1>1
<1>7. i # n <=> i < n
  BY <1>1
<1>8. QED BY <1>3, <1>5, <1>6, <1>7 DEF Final, n, left

LEMMA FindCompare == ASSUME Typed, FindOK, Compare PROVE FindOK'
<1>1. job.kind = "find" /\ job.phase = "got" /\ UNCHANGED <<medium, booted, vol>>
  BY DEF Compare
<1>2. /\ VolumeOK /\ IterOK /\ Shaped(job) /\ job.start \in Words /\ vol.is_initialized
      /\ (job.res = "SUCCESS" => IsEntry(job.info.entry))
  BY <1>1 DEF Typed, JobOK
<1>3. ShortNamesOnly' <=> ShortNamesOnly
  BY <1>1, FoundSteady
<1>4. SUFFICES ASSUME ShortNamesOnly
               PROVE  iter'.lfn_checksum = 0 /\ (job'.kind = "find" => FindAt(job, iter)')
  BY <1>3 DEF FindOK
<1>5. iter.lfn_checksum = 0 /\ FindAt(job, iter)
  BY <1>1, <1>4 DEF FindOK
<1>6. PICK c, p, e : c = job.start /\ p = job.path /\ e = job.info.entry
  OBVIOUS
<1>7. PICK i : Seek(c, p, i, job, iter)
  BY <1>1, <1>5, <1>6 DEF FindAt
<1>8. p \in Paths /\ p \in Seq(Components(p)) /\ Len(p) \in Nat /\ i \in 1 .. Len(p)
  BY <1>5, <1>6, <1>7, PathIs DEF FindAt, Seek
<1> DEFINE name == p[i]
           inner == i < Len(p)
<1>9. Head(job.left) = name /\ (Final <=> i = Len(p)) /\ (~Final <=> inner)
  BY <1>6, <1>7, <1>8, ComponentIs
<1>10. /\ job.left \in Seq(Components(p)) /\ Suffix(job.left, p, i)
       /\ Leads(p)[i] = Found(c, name, inner)
  BY <1>7 DEF Seek
<1>11. job.res = "SUCCESS" => Given(c, name, inner, job, iter)
  BY <1>1, <1>7 DEF Seek
<1>12. job.res # "SUCCESS" /\ job.clean => Leads(p)[i] = NoInfo.entry
  BY <1>1, <1>7, <1>10 DEF Seek
<1> HIDE DEF name, inner
<1>13. Matches => Shown(e) /\ e.name = name
  BY <1>6, <1>9, <1>11 DEF Matches, Given
<1>14. Matches /\ (inner => e.dir) => Leads(p)[i] = e
  BY <1>6, <1>10, <1>11, <1>13 DEF Matches, Given, Hit
<1>15. PICK d : d = job'
  OBVIOUS
<1>16. SUFFICES \E q : iter' = q /\ q.lfn_checksum = 0 /\ FindAt(d, q)
  BY <1>1, <1>15, FindSteady
<1>17. CASE /\ Matches /\ ~Final /\ job.info.entry.dir
            /\ iter' = Fresh(job.info.entry.start)
            /\ job' = [job EXCEPT !.phase = "turn", !.left = Skip(Tail(@)),
                                  !.start = job.info.entry.start]
  <2>1. /\ d.path = p /\ d.left = Skip(Tail(job.left)) /\ d.start = e.start /\ d.phase = "turn"
    BY <1>2, <1>6, <1>15, <1>17 DEF Shaped
  <2>2. e.start \in Words /\ Leads(p)[i] = e /\ e.kind # "none" /\ i < Len(p)
    BY <1>2, <1>6, <1>9, <1>13, <1>14, <1>17 DEF IsEntry, Matches, Shown, inner
  <2>3. PICK j \in 1 .. Len(p) : /\ i < j /\ Skip(Tail(job.left)) \in Seq(Components(p))
                                 /\ Suffix(Skip(Tail(job.left)), p, j)
                                 /\ \A k \in (i + 1) .. (j - 1) : p[k] = <<>>
                                 /\ p[j] # <<>> \/ j = Len(p)
    BY <1>8, <1>10, <2>2, TailSkips
  <2>4. Leads(p)[j] = Found(e.start, p[j], j < Len(p))
    <3>1. i \in 0 .. Len(p) /\ Leads(p)[i].kind # "none"
      BY <1>8, <2>2
    <3>2. Leads(p)[j] = Found(Leads(p)[i].start, p[j], j < Len(p))
      BY <1>2, <1>8, <2>3, <3>1, Arrives
    <3>3. QED BY <2>2, <3>2
  <2>5. Seek(e.start, p, j, d, Fresh(e.start))
    BY <1>2, <2>1, <2>2, <2>3, <2>4, SeekStart
  <2>6. FindAt(d, Fresh(e.start))
    BY <1>8, <2>1, <2>5 DEF FindAt
  <2>7. Fresh(e.start).lfn_checksum = 0 /\ iter' = Fresh(e.start)
    BY <1>6, <1>17, <2>2, FreshFields
  <2>8. QED BY <2>6, <2>7
<1>18. CASE /\ Matches /\ Final /\ iter' = iter
            /\ Finish(IF job.info.entry.dir THEN "FILE_NOT_FOUND" ELSE "SUCCESS")
  <2>1. d.path = p /\ d.phase = "done" /\ d.info.entry = e
        /\ d.res = IF e.dir THEN "FILE_NOT_FOUND" ELSE "SUCCESS"
    BY <1>2, <1>6, <1>15, <1>18 DEF Finish, Shaped
  <2>2. Leads(p)[Len(p)] = e /\ e.kind = "sfn"
    BY <1>9, <1>13, <1>14, <1>18 DEF Shown
  <2>3. Target(p) = IF ~e.dir THEN e ELSE NoInfo.entry
    BY <2>2 DEF Target
  <2>4. Answered(d)
    BY <2>1, <2>3 DEF Answered
  <2>5. FindAt(d, iter)
    BY <1>8, <2>1, <2>4 DEF FindAt
  <2>6. QED BY <1>5, <1>18, <2>5
<1>19. CASE /\ job.res = "SUCCESS" /\ iter' = iter
            /\ ~Matches \/ (~Final /\ ~job.info.entry.dir)
            /\ job' = [job EXCEPT !.phase = "turn"]
  <2>1. d.path = p /\ d.left = job.left /\ d.start = c /\ d.phase = "turn"
    BY <1>2, <1>6, <1>15, <1>19 DEF Shaped
  <2>2. ~Hit(e, name, inner)
    BY <1>6, <1>9, <1>11, <1>19 DEF Hit, Matches, Given
  <2>3. Passing(c, name, inner, iter)
    BY <1>6, <1>11, <1>19, <2>2 DEF Given
  <2>4. Seek(c, p, i, d, iter)
    BY <1>8, <1>10, <2>1, <2>3 DEF Seek, name, inner
  <2>5. FindAt(d, iter)
    BY <1>8, <2>1, <2>4 DEF FindAt
  <2>6. QED BY <1>5, <1>19, <2>5
<1>20. CASE /\ job.res # "SUCCESS" /\ iter' = iter
            /\ Finish(IF job.res = "NO_MORE_ENTRIES" THEN "FILE_NOT_FOUND" ELSE job.res)
  <2>1. d.path = p /\ d.phase = "done" /\ d.res # "SUCCESS" /\ d.clean = job.clean
    BY <1>2, <1>6, <1>15, <1>20 DEF Finish, Shaped
  <2>2. d.clean => Target(p) = NoInfo.entry
    BY <1>2, <1>8, <1>12, <1>20, <2>1, NoTarget
  <2>3. Answered(d)
    BY <2>1, <2>2 DEF Answered
  <2>4. FindAt(d, iter)
    BY <1>8, <2>1, <2>3 DEF FindAt
  <2>5. QED BY <1>5, <1>20, <2>4
<1>21. QED BY <1>17, <1>18, <1>19, <1>20 DEF Compare

\* Actions that are no part of a lookup.
LEMMA FindOther ==
  ASSUME Typed, FindOK,
         \/ fat32_init \/ fat_read_next_dir_entry \/ Listed \/ UNCHANGED vars
         \/ \E c \in medium.dirs : fat_init_root_dir_iterator(c)
  PROVE  FindOK'
<1>1. Shaped(job)
  BY DEF Typed, JobOK
<1>2. CASE fat32_init
  <2>1. job' = job /\ (MountFails \/ MountWorks)
    BY <1>2 DEF fat32_init
  <2>2. ~vol.is_initialized
    BY <2>1 DEF MountFails, MountWorks, Typed, VolumeOK, NoVolume
  <2>3. job.kind = "none"
    BY <2>2 DEF Typed, JobOK
  <2>4. QED BY <2>1, <2>3 DEF FindOK
<1>3. CASE \E c \in medium.dirs : fat_init_root_dir_iterator(c)
  <2>1. PICK c \in medium.dirs : fat_init_root_dir_iterator(c)
    BY <1>3
  <2>2. c \in Words
    BY SectorAssumption DEF Typed, VolumeOK
  <2>3. job'.kind = "list" /\ iter' = Fresh(c)
    BY <2>1 DEF fat_init_root_dir_iterator, NoJob
  <2>4. QED BY <2>2, <2>3, FreshFields DEF FindOK
<1>4. CASE fat_read_next_dir_entry \/ Listed
  <2>1. /\ UNCHANGED <<medium, booted, vol, iter>> /\ job.kind = "list" /\ job'.kind = "list"
    BY <1>1, <1>4 DEF fat_read_next_dir_entry, Listed, Finish, Shaped
  <2>2. QED BY <2>1, FoundSteady DEF FindOK
<1>5. CASE UNCHANGED vars
  <2>1. UNCHANGED <<medium, booted, vol>> /\ job' = job /\ iter' = iter
    BY <1>5 DEF vars
  <2>2. PICK d, q : d = job /\ q = iter
    OBVIOUS
  <2>3. FindAt(d, q) => FindAt(job, iter)'
    BY <2>1, <2>2, FindSteady
  <2>4. QED BY <2>1, <2>2, <2>3, FoundSteady DEF FindOK
<1>6. QED BY <1>2, <1>3, <1>4, <1>5

\* For every medium and path: on a volume of short names get_file gives the file
\* that its path leads to, and fails exactly when there is none or a transfer failed.
THEOREM LookupsRight == Spec => []FindsTarget
<1>1. Init => FindOK
  BY DEF Init, NoJob, FindOK
<1>2. ASSUME Typed, FindOK, [Next]_vars PROVE FindOK'
  BY <1>2, FindStart, FindTake, FindEnds, FindFails, FindCompare, FindOther DEF Next, Step
<1>3. ASSUME FindOK PROVE FindsTarget
  BY <1>3 DEF FindOK, FindAt, Answered, FindsTarget
<1>4. QED BY <1>1, <1>2, <1>3, TypedAlways, PTL DEF Spec

----------------------------------------------------------------------------
(***************************************************************************)
(* That walks come to an end: what LookupsEnd rests on.                    *)
(***************************************************************************)

\* One link further on a chain that ends, one link less is ahead.
LEMMA OneLinkLess ==
  ASSUME VolumeOK, vol.is_initialized, NEW c \in Words, ~Circular(c),
         getNextCluster(vol, medium, c) = "SUCCESS"
  PROVE  Links(c) = Links(Entry(medium, c)) + 1
<1> DEFINE d == Entry(medium, c)
           f == Chain(vol, medium, c)
           g == Chain(vol, medium, d)
           n == vol.total_clusters
           good(x) == getNextCluster(vol, medium, x) = "SUCCESS"
           l == Links(c)
           m == Links(d)
<1>1. d \in Words /\ n \in Nat
  BY NextCluster, Geometry
<1>2. f \in [Nat -> Words] /\ f[0] = c /\ \A k \in Nat : good(f[k]) => f[k + 1] = Entry(medium, f[k])
  BY ChainOf
<1>3. g \in [Nat -> Words] /\ g[0] = d /\ \A k \in Nat : good(g[k]) => g[k + 1] = Entry(medium, g[k])
  BY <1>1, ChainOf
<1>4. l \in Nat /\ l <= n /\ ~good(f[l]) /\ \A k \in Nat : k < l => good(f[k])
  BY LinksAre
<1>5. /\ m \in Nat /\ m <= n /\ (~Circular(d) => ~good(g[m]))
      /\ \A k \in Nat : k < m => good(g[k])
  BY <1>1, LinksAre
<1>6. (\A k \in 0 .. n : good(g[k])) <=> Circular(d)
  BY DEF Circular
<1>7. good(c) /\ d = Entry(medium, c)
  OBVIOUS
<1> HIDE DEF d, f, g, n, good, l, m
<1>8. 0 < l
  BY <1>2, <1>4, <1>7
<1>9. \A k \in Nat : k < l => g[k] = f[k + 1]
  <2> DEFINE T == {k \in Nat : k < l => g[k] = f[k + 1]}
  <2>1. 0 \in T
    BY <1>2, <1>3, <1>7
  <2>2. ASSUME NEW k \in Nat, k \in T PROVE k + 1 \in T
    <3> SUFFICES ASSUME k + 1 < l PROVE g[k + 1] = f[(k + 1) + 1]
      OBVIOUS
    <3>1. g[k] = f[k + 1] /\ k + 1 \in Nat
      BY <1>4, <2>2
    <3>2. good(f[k + 1])
      BY <1>4, <3>1
    <3>3. QED BY <1>2, <1>3, <3>1, <3>2
  <2>3. Nat \subseteq T
    <3> HIDE DEF T
    <3>1. QED BY <2>1, <2>2, Upward
  <2>4. QED BY <2>3
<1>10. l - 1 \in Nat /\ l - 1 \in 0 .. n /\ ~good(g[l - 1])
  <2>1. l - 1 \in Nat /\ l - 1 \in 0 .. n /\ l - 1 < l /\ (l - 1) + 1 = l
    BY <1>1, <1>4, <1>8
  <2>2. QED BY <1>4, <1>9, <2>1
<1>11. m <= l - 1 /\ ~good(g[m])
  BY <1>4, <1>5, <1>6, <1>10
<1>12. ~(m < l - 1)
  <2> SUFFICES ASSUME m < l - 1 PROVE FALSE
    OBVIOUS
  <2>1. m < l /\ m + 1 < l /\ m + 1 \in Nat
    BY <1>4, <1>5
  <2>2. QED BY <1>4, <1>5, <1>9, <1>11, <2>1
<1>13. l = m + 1
  BY <1>4, <1>5, <1>11, <1>12
<1>14. QED BY <1>13 DEF l, m, d

\* The iterator is before its first sector or in one of a cluster.
Ready(it) == IF it.valid THEN it.sector < vol.sectors_per_cluster ELSE it.sector = WORD - 1

LEMMA AdvancedReady ==
  ASSUME VolumeOK, vol.is_initialized, IterOK, Ready(iter)
  PROVE  /\ Advanced.sector \in Nat /\ Advanced.sector <= vol.sectors_per_cluster
         /\ iter.valid => Advanced.sector = iter.sector + 1
         /\ ~iter.valid => Advanced.sector = 0
<1>1. iter.sector \in Nat /\ iter.valid \in BOOLEAN /\ vol.sectors_per_cluster \in Nat
      /\ vol.sectors_per_cluster < WORD /\ WORD \in Nat \ {0}
  BY IterFields, WordsAre, Geometry DEF IterOK
<1>2. Advanced.sector = (iter.sector + 1) % WORD
  BY AdvancedFields
<1>3. CASE iter.valid
  <2> DEFINE x == iter.sector + 1
  <2>1. x \in Nat /\ x <= vol.sectors_per_cluster /\ x < WORD
    BY <1>1, <1>3 DEF Ready
  <2> HIDE DEF x
  <2>2. x % WORD = x
    BY <1>1, <2>1, ModSmall
  <2>3. QED BY <1>2, <1>3, <2>1, <2>2 DEF x
<1>4. CASE ~iter.valid
  <2>1. iter.sector + 1 = WORD
    BY <1>1, <1>4 DEF Ready
  <2>2. WORD % WORD = 0
    BY <1>1
  <2>3. QED BY <1>1, <1>2, <1>4, <2>1, <2>2
<1>5. QED BY <1>1, <1>3, <1>4

\* What is left is a number.
LEMMA LeftNat ==
  ASSUME VolumeOK, vol.is_initialized, IterOK, Ready(iter)
  PROVE  EntriesLeft \in Nat
<1> DEFINE P == PerSector
           spc == vol.sectors_per_cluster
           l == Links(iter.cluster)
           x == l * spc + spc - Advanced.sector
           y == IF iter.valid THEN P - iter.entry ELSE 0
<1>1. EntriesLeft = x * P + y
  BY DEF EntriesLeft
<1>2. P \in Nat /\ spc \in Nat /\ l \in Nat /\ iter.entry \in Nat /\ iter.entry <= P
  BY Geometry, LinksAre, IterFields DEF IterOK
<1>3. Advanced.sector \in Nat /\ Advanced.sector <= spc
  BY AdvancedReady
<1> HIDE DEF P, spc, l
<1>4. x \in Nat
  <2>1. l * spc \in Nat
    BY <1>2
  <2>2. QED BY <1>2, <1>3, <2>1
<1>5. y \in Nat
  BY <1>2
<1> HIDE DEF x, y
<1>6. QED BY <1>1, <1>2, <1>4, <1>5

\* The sector in which the next entry is.
LEMMA LoadedReady ==
  ASSUME VolumeOK, vol.is_initialized, IterOK, NeedsSector /\ NeedsCluster => Link = "SUCCESS",
         Ready(iter)
  PROVE  /\ Loaded.sector < vol.sectors_per_cluster
         /\ ~NeedsSector => Loaded = iter /\ iter.valid
         /\ NeedsSector => Loaded.entry = 0 /\ (iter.valid => iter.entry = PerSector)
         /\ NeedsSector /\ ~NeedsCluster =>
              Loaded.cluster = iter.cluster /\ Loaded.sector = Advanced.sector
         /\ NeedsSector /\ NeedsCluster =>
              /\ Loaded.cluster = Entry(medium, iter.cluster) /\ Loaded.sector = 0
              /\ Advanced.sector = vol.sectors_per_cluster
<1> DEFINE P == PerSector
           spc == vol.sectors_per_cluster
           q == Loaded
<1>1. P \in Nat \ {0} /\ spc \in Nat \ {0}
  BY Geometry
<1>2. iter.entry \in Nat /\ iter.entry <= P /\ iter.valid \in BOOLEAN
  BY IterFields DEF IterOK
<1>3. Advanced.sector \in Nat /\ Advanced.sector <= spc
  BY AdvancedReady
<1>4. CASE ~NeedsSector
  <2>1. q = iter /\ iter.valid
    BY <1>4 DEF Loaded, NeedsSector
  <2>2. QED BY <1>4, <2>1 DEF Ready
<1>5. CASE NeedsSector
  <2>1. /\ Moved \in Iterator /\ Moved.entry = 0
        /\ Moved.cluster = IF NeedsCluster THEN Entry(medium, iter.cluster) ELSE iter.cluster
        /\ Moved.sector = IF NeedsCluster THEN 0 ELSE Advanced.sector
    BY <1>5, MovedFields
  <2>2. NeedsCluster <=> Advanced.sector >= spc
    BY DEF NeedsCluster
  <2>3. q.cluster = Moved.cluster /\ q.sector = Moved.sector /\ q.entry = 0
    <3> DEFINE m == Moved
               b == Lba(m)
    <3>1. m \in Iterator /\ m.entry = 0 /\ q = [m EXCEPT !.buffer = b, !.valid = TRUE]
      BY <1>5, <2>1 DEF Loaded
    <3> HIDE DEF m, b, q
    <3>2. q.cluster = m.cluster /\ q.sector = m.sector /\ q.entry = 0
      BY <3>1 DEF Iterator
    <3>3. QED BY <3>2 DEF m
  <2>4. iter.valid => iter.entry = P
    <3>1. iter.valid => iter.entry >= P
      BY <1>5 DEF NeedsSector
    <3> HIDE DEF P
    <3>2. QED BY <1>1, <1>2, <3>1
  <2> HIDE DEF P, spc, q
  <2>5. q.sector < spc /\ (NeedsCluster => Advanced.sector = spc)
    BY <1>1, <1>3, <2>1, <2>2, <2>3
  <2>6. QED BY <1>5, <2>1, <2>3, <2>4, <2>5 DEF q, P, spc
<1>6. QED BY <1>4, <1>5

\* A turn is one entry nearer to the end of the directory.
LEMMA OneEntryLess ==
  ASSUME Typed, TakeEntry, Ready(iter)
  PROVE  /\ Ready(iter)'
         /\ ~Circular(iter.cluster) => EntriesLeft' = EntriesLeft - 1
<1> DEFINE P == PerSector
           spc == vol.sectors_per_cluster
           l == Links(iter.cluster)
           q == Loaded
           n == Links(q.cluster)
           a == Advanced.sector
<1>1. /\ job.phase = "turn" /\ vol.is_initialized /\ UNCHANGED <<medium, booted, vol>>
      /\ (NeedsSector /\ NeedsCluster => Link = "SUCCESS")
  BY TakeShape
<1>2. PICK k \in 0 .. (BYTE - 1) : iter' = Past(Loaded, k)
  BY TakeShape
<1>3. VolumeOK /\ IterOK
  BY DEF Typed
<1>4. q \in Iterator /\ q.entry < P /\ q.valid
  BY <1>1, <1>3, LoadedFields
<1>5. /\ iter' \in Iterator /\ iter'.entry = q.entry + 1 /\ iter'.valid = q.valid
      /\ iter'.cluster = q.cluster /\ iter'.sector = q.sector
  BY <1>2, <1>4, PastFields
<1>6. /\ q.sector < spc
      /\ ~NeedsSector => q = iter /\ iter.valid
      /\ NeedsSector => q.entry = 0 /\ (iter.valid => iter.entry = P)
      /\ NeedsSector /\ ~NeedsCluster => q.cluster = iter.cluster /\ q.sector = a
      /\ NeedsSector /\ NeedsCluster =>
           /\ q.cluster = Entry(medium, iter.cluster) /\ q.sector = 0 /\ a = spc
  BY <1>1, <1>3, LoadedReady
<1>7. P \in Nat \ {0} /\ spc \in Nat \ {0} /\ spc < WORD /\ WORD \in Nat \ {0}
  BY <1>1, <1>3, Geometry, WordsAre
<1>8. /\ q.sector \in Nat /\ q.entry \in Nat /\ q.cluster \in Words /\ iter.cluster \in Words
      /\ iter.entry \in Nat /\ iter.sector \in Nat /\ iter.valid \in BOOLEAN
  BY <1>3, <1>4, IterFields, WordsAre DEF IterOK
<1>9. l \in Nat /\ n \in Nat
  BY <1>1, <1>3, <1>8, LinksAre
<1>10. a \in Nat /\ a <= spc /\ (iter.valid => a = iter.sector + 1)
  BY <1>1, <1>3, AdvancedReady
<1>11. EntriesLeft = (l * spc + spc - a) * P + (IF iter.valid THEN P - iter.entry ELSE 0)
  BY DEF EntriesLeft
<1>12. EntriesLeft' = (n * spc + spc - (q.sector + 1)) * P + (P - (q.entry + 1))
  <2>1. PerSector' = P /\ vol'.sectors_per_cluster = spc /\ Links(iter.cluster)' = n
    BY <1>1, <1>5 DEF PerSector, Links
  <2>2. (Advanced.sector)' = (iter'.sector + 1) % WORD
    BY <1>5 DEF Advanced, Iterator
  <2>3. (q.sector + 1) % WORD = q.sector + 1
    <3> DEFINE x == q.sector + 1
    <3>1. x \in Nat /\ x < WORD
      BY <1>6, <1>7, <1>8
    <3> HIDE DEF x
    <3>2. x % WORD = x
      BY <1>7, <3>1, ModSmall
    <3>3. QED BY <3>2 DEF x
  <2>4. (Advanced.sector)' = q.sector + 1
    BY <1>5, <2>2, <2>3
  <2>5. EntriesLeft' = (Links(iter.cluster)' * vol'.sectors_per_cluster + vol'.sectors_per_cluster
                          - (Advanced.sector)') * PerSector'
                         + (IF iter'.valid THEN PerSector' - iter'.entry ELSE 0)
    BY DEF EntriesLeft
  <2> HIDE DEF P, spc, n, q
  <2>6. QED BY <1>4, <1>5, <2>1, <2>4, <2>5
<1>13. Ready(iter)'
  BY <1>1, <1>4, <1>5, <1>6 DEF Ready
<1>14. NeedsSector /\ NeedsCluster /\ ~Circular(iter.cluster) => l = n + 1
  BY <1>1, <1>3, <1>6, <1>8, OneLinkLess DEF Link
<1>15. ~NeedsSector => a = q.sector + 1 /\ q.entry = iter.entry /\ l = n
  BY <1>6, <1>10
<1>16. NeedsSector /\ ~NeedsCluster => l = n
  BY <1>6
<1>17. ASSUME ~Circular(iter.cluster) PROVE EntriesLeft' = EntriesLeft - 1
  <2> HIDE DEF P, spc, l, n, q, a
  <2> DEFINE L == l * spc
             N == n * spc
  <2>0. L \in Nat /\ N \in Nat
    BY <1>7, <1>9
  <2>1. CASE ~NeedsSector
    <3> DEFINE y == N + spc - (q.sector + 1)
    <3>1. /\ EntriesLeft = y * P + (P - q.entry)
          /\ EntriesLeft' = y * P + (P - (q.entry + 1))
      BY <1>6, <1>11, <1>12, <1>15, <2>1
    <3>2. y \in Int
      BY <1>7, <1>8, <2>0
    <3> HIDE DEF y
    <3>3. y * P \in Int
      BY <1>7, <3>2
    <3>4. QED BY <1>7, <1>8, <3>1, <3>3
  <2>2. CASE NeedsSector /\ ~NeedsCluster
    <3> DEFINE y == N + spc - (a + 1)
    <3>1. y \in Int /\ N + spc - a = y + 1
      BY <1>7, <1>10, <2>0
    <3>2. EntriesLeft = (N + spc - a) * P + 0
      BY <1>6, <1>7, <1>8, <1>11, <1>16, <2>2
    <3>3. EntriesLeft' = y * P + (P - (0 + 1))
      BY <1>6, <1>12, <2>2
    <3> HIDE DEF y
    <3>4. y * P \in Int /\ (y + 1) * P = y * P + P
      BY <1>7, <3>1
    <3>5. QED BY <1>7, <3>1, <3>2, <3>3, <3>4
  <2>3. CASE NeedsSector /\ NeedsCluster
    <3> DEFINE y == N + spc - (0 + 1)
    <3>1. L = N + spc
      BY <1>7, <1>9, <1>14, <1>17, <2>3
    <3>2. y \in Int /\ L + spc - a = y + 1
      BY <1>6, <1>7, <2>0, <2>3, <3>1
    <3>3. EntriesLeft = (L + spc - a) * P + 0
      BY <1>6, <1>7, <1>8, <1>11, <2>3
    <3>4. EntriesLeft' = y * P + (P - (0 + 1))
      BY <1>6, <1>12, <2>3
    <3> HIDE DEF y
    <3>5. y * P \in Int /\ (y + 1) * P = y * P + P
      BY <1>7, <3>2
    <3>6. QED BY <1>7, <3>2, <3>3, <3>4, <3>5
  <2>4. QED BY <2>1, <2>2, <2>3
<1>18. QED BY <1>13, <1>17

\* A walk under way has its iterator in the directory, and a lookup has a component
\* of its path to look for.
PathOK == job.kind = "find" => job.left \in Seq(Components(job.path)) /\ job.left # <<>>

Walking(d) == d.phase = "turn" \/ (d.phase = "got" /\ d.res = "SUCCESS")

WalkOK == PathOK /\ (Walking(job) => Ready(iter))

\* What WalksOn says of a step.
WalkOn ==
  job.phase # "done" /\ job'.phase # "done" /\ job'.res = "SUCCESS" =>
    \/ Len(job'.left) < Len(job.left)
    \/ job'.left = job.left /\ TurnsLeft' \in Nat /\ TurnsLeft' < TurnsLeft
    \/ job'.left = job.left /\ Circular(iter.cluster)

LEMMA LeftSame ==
  ASSUME UNCHANGED <<medium, booted, vol, iter>>
  PROVE  EntriesLeft' = EntriesLeft /\ (Ready(iter)' <=> Ready(iter))
<1>1. PerSector' = PerSector /\ Links(iter.cluster)' = Links(iter.cluster) /\ Advanced' = Advanced
  BY DEF PerSector, Links, Advanced
<1>2. QED BY <1>1 DEF EntriesLeft, Ready

LEMMA FreshReady ==
  ASSUME UNCHANGED <<medium, booted, vol>>, NEW c \in Words, iter' = Fresh(c)
  PROVE  Ready(iter)'
  BY FreshFields DEF Ready

\* The next entry is asked for.
LEMMA AsksOn ==
  ASSUME Typed, WalkOK, job.phase = "got", job.res = "SUCCESS", job.kind # "none",
         UNCHANGED <<medium, booted, vol, iter>>, job' = [job EXCEPT !.phase = "turn"]
  PROVE  WalkOK' /\ WalkOn
<1>1. /\ job'.phase = "turn" /\ job'.left = job.left /\ job'.kind = job.kind
      /\ job'.path = job.path
  BY DEF Typed, JobOK, Shaped
<1>2. Ready(iter) /\ vol.is_initialized
  BY DEF WalkOK, Walking, Typed, JobOK
<1>3. EntriesLeft' = EntriesLeft /\ Ready(iter)'
  BY <1>2, LeftSame
<1>4. EntriesLeft \in Nat
  BY <1>2, LeftNat DEF Typed
<1>5. TurnsLeft = 2 * EntriesLeft + 1
  BY DEF TurnsLeft
<1>6. TurnsLeft' = 2 * EntriesLeft' + 0
  BY <1>1 DEF TurnsLeft
<1>7. TurnsLeft' \in Nat /\ TurnsLeft' < TurnsLeft
  BY <1>3, <1>4, <1>5, <1>6
<1>8. WalkOK'
  BY <1>1, <1>3 DEF WalkOK, PathOK, Components
<1>9. QED BY <1>1, <1>7, <1>8 DEF WalkOn

LEMMA TakesOn ==
  ASSUME Typed, WalkOK, TakeEntry
  PROVE  WalkOK' /\ WalkOn
<1>1. job.phase = "turn" /\ vol.is_initialized /\ UNCHANGED <<medium, booted, vol>>
  BY TakeShape
<1>2. Ready(iter)
  BY <1>1 DEF WalkOK, Walking
<1>3. Ready(iter)' /\ (~Circular(iter.cluster) => EntriesLeft' = EntriesLeft - 1)
  BY <1>2, OneEntryLess
<1>4. EntriesLeft \in Nat
  BY <1>1, <1>2, LeftNat DEF Typed
<1>5. EntriesLeft' \in Nat
  <2>1. (VolumeOK /\ vol.is_initialized /\ IterOK /\ Ready(iter) => EntriesLeft \in Nat)'
    BY LeftNat, PTL
  <2>2. VolumeOK' /\ IterOK' /\ vol'.is_initialized
    BY <1>1, TypedTake DEF Typed
  <2>3. QED BY <1>3, <2>1, <2>2
<1>6. /\ job'.left = job.left /\ job'.kind = job.kind /\ job'.path = job.path
      /\ job'.phase \in {"turn", "got"}
  <2>1. CASE job' = job
    BY <1>1, <2>1
  <2>2. ASSUME NEW res, NEW info, Got(res, info)
        PROVE  /\ job'.left = job.left /\ job'.kind = job.kind /\ job'.path = job.path
               /\ job'.phase = "got"
    BY <2>2 DEF Got, Typed, JobOK, Shaped
  <2>3. job' = job \/ Got("NO_MORE_ENTRIES", NoInfo) \/ Got("SUCCESS", InfoOf(Under))
    BY TakeShape
  <2> HIDE DEF Got
  <2>4. QED BY <2>1, <2>2, <2>3
<1>7. WalkOK'
  BY <1>3, <1>6 DEF WalkOK, PathOK, Components
<1>8. TurnsLeft = 2 * EntriesLeft + 0
  BY <1>1 DEF TurnsLeft
<1>9. TurnsLeft' \in {2 * EntriesLeft' + 0, 2 * EntriesLeft' + 1}
  BY DEF TurnsLeft
<1>10. ~Circular(iter.cluster) => TurnsLeft' \in Nat /\ TurnsLeft' < TurnsLeft
  BY <1>3, <1>4, <1>5, <1>8, <1>9
<1>11. QED BY <1>6, <1>7, <1>10 DEF WalkOn

LEMMA ComparesOn ==
  ASSUME Typed, WalkOK, Compare
  PROVE  WalkOK' /\ WalkOn
<1>1. job.kind = "find" /\ job.phase = "got" /\ UNCHANGED <<medium, booted, vol>>
  BY DEF Compare
<1>2. vol.is_initialized /\ job.left \in Seq(Components(job.path)) /\ job.left # <<>>
  BY <1>1 DEF Typed, JobOK, WalkOK, PathOK
<1>3. CASE /\ Matches /\ ~Final /\ job.info.entry.dir /\ iter' = Fresh(job.info.entry.start)
           /\ job' = [job EXCEPT !.phase = "turn", !.left = Skip(Tail(@)),
                                 !.start = job.info.entry.start]
  <2>1. job.info.entry.start \in Words
    BY <1>1, <1>3 DEF Matches, Typed, JobOK, IsEntry
  <2>2. Ready(iter)'
    BY <1>1, <1>3, <2>1, FreshReady
  <2> DEFINE X == Components(job.path)
             t == Tail(job.left)
  <2>3. t \in Seq(X) /\ t # <<>> /\ Len(t) = Len(job.left) - 1
    <3>1. Len(job.left) # 1 /\ Len(job.left) \in Nat /\ Len(job.left) # 0
      BY <1>2, <1>3 DEF Final
    <3>2. t \in Seq(X) /\ Len(t) = Len(job.left) - 1
      BY <1>2, HeadTailProperties
    <3> HIDE DEF t
    <3>3. Len(t) # 0
      BY <3>1, <3>2
    <3>4. t # <<>>
      BY <3>3
    <3>5. QED BY <3>2, <3>4
  <2> HIDE DEF X, t
  <2>4. PICK i \in 1 .. Len(t) : Skip(t) \in Seq(X) /\ Suffix(Skip(t), t, i)
    BY <2>3, SkipIs
  <2>5. Len(Skip(t)) = Len(t) - i + 1 /\ Len(t) \in Nat /\ Len(job.left) \in Nat
    BY <1>2, <2>3, <2>4 DEF Suffix
  <2>6. Len(Skip(t)) < Len(job.left) /\ Len(Skip(t)) # 0
    BY <2>3, <2>4, <2>5
  <2>7. job'.left = Skip(t) /\ job'.kind = job.kind /\ job'.path = job.path
    BY <1>3 DEF Typed, JobOK, Shaped, t
  <2>8. Skip(t) # <<>>
    BY <2>6
  <2>9. WalkOK'
    BY <2>2, <2>4, <2>7, <2>8 DEF WalkOK, PathOK, Components, X
  <2>10. QED BY <2>6, <2>7, <2>9 DEF WalkOn
<1>4. ASSUME NEW res, Finish(res), iter' = iter PROVE WalkOK' /\ WalkOn
  <2>1. /\ job'.phase = "done" /\ job'.left = job.left /\ job'.kind = job.kind
        /\ job'.path = job.path
    BY <1>4 DEF Finish, Typed, JobOK, Shaped
  <2>2. QED BY <1>2, <2>1 DEF WalkOK, PathOK, Walking, WalkOn, Components
<1>5. CASE job.res = "SUCCESS" /\ job' = [job EXCEPT !.phase = "turn"] /\ UNCHANGED iter
  BY <1>1, <1>5, AsksOn
<1>6. QED BY <1>3, <1>4, <1>5 DEF Compare

LEMMA StartsOn ==
  ASSUME Typed, WalkOK,
         \/ fat32_init \/ LoadFails \/ ChainEnds \/ Listed
         \/ \E c \in medium.dirs : fat_init_root_dir_iterator(c)
         \/ \E path \in Paths : get_file(path)
  PROVE  WalkOK' /\ WalkOn
<1>1. CASE fat32_init
  <2>1. ~booted /\ iter' = iter /\ job' = job
    BY <1>1 DEF fat32_init, MountFails, MountWorks
  <2>2. ~vol.is_initialized
    BY <2>1 DEF Typed, VolumeOK, NoVolume
  <2>3. job.kind = "none" /\ job.phase = "done"
    BY <2>2 DEF Typed, JobOK
  <2>4. QED BY <2>1, <2>3 DEF WalkOK, PathOK, Walking, WalkOn
<1>2. CASE LoadFails
  <2>1. job' = [job EXCEPT !.phase = "got", !.res = "READ_FAIL", !.info = NoInfo, !.clean = FALSE]
    BY <1>2 DEF LoadFails
  <2>2. /\ job'.phase = "got" /\ job'.res = "READ_FAIL" /\ job'.left = job.left
        /\ job'.kind = job.kind /\ job'.path = job.path
    BY <2>1 DEF Typed, JobOK, Shaped
  <2>3. QED BY <2>2 DEF WalkOK, PathOK, Walking, WalkOn, Components
<1>3. CASE ChainEnds
  <2>1. Got(Link, NoInfo) /\ Link # "SUCCESS"
    BY <1>3 DEF ChainEnds
  <2>2. /\ job'.phase = "got" /\ job'.res = Link /\ job'.left = job.left
        /\ job'.kind = job.kind /\ job'.path = job.path
    BY <2>1 DEF Got, Typed, JobOK, Shaped
  <2>3. QED BY <2>1, <2>2 DEF WalkOK, PathOK, Walking, WalkOn, Components
<1>4. CASE Listed
  <2>1. job' = [job EXCEPT !.phase = "done", !.res = job.res]
    BY <1>4 DEF Listed, Finish
  <2>2. /\ job'.phase = "done" /\ job'.left = job.left /\ job'.kind = job.kind
        /\ job'.path = job.path
    BY <2>1 DEF Typed, JobOK, Shaped
  <2>3. QED BY <2>2 DEF WalkOK, PathOK, Walking, WalkOn, Components
<1>5. ASSUME NEW c \in medium.dirs, fat_init_root_dir_iterator(c) PROVE WalkOK' /\ WalkOn
  <2>1. /\ iter' = Fresh(c) /\ UNCHANGED <<medium, booted, vol>> /\ job.phase = "done"
        /\ job' = [NoJob EXCEPT !.kind = "list", !.phase = "got", !.start = c]
    BY <1>5 DEF fat_init_root_dir_iterator
  <2>2. c \in Words
    BY SectorAssumption DEF Typed, VolumeOK
  <2>3. Ready(iter)'
    BY <2>1, <2>2, FreshReady
  <2>4. job'.kind = "list"
    BY <2>1 DEF NoJob
  <2>5. QED BY <2>1, <2>3, <2>4 DEF WalkOK, PathOK, WalkOn
<1>6. ASSUME NEW path \in Paths, get_file(path) PROVE WalkOK' /\ WalkOn
  <2>1. /\ vol.is_initialized /\ iter' = Fresh(vol.root_dir_cluster) /\ job.phase = "done"
        /\ UNCHANGED <<medium, booted, vol>>
        /\ job' = [NoJob EXCEPT !.kind = "find", !.phase = "turn", !.path = path,
                                !.left = Skip(path), !.start = vol.root_dir_cluster]
    BY <1>6 DEF get_file
  <2>2. PICK c : c = vol.root_dir_cluster
    OBVIOUS
  <2>3. c \in Words
    BY <2>1, <2>2, Geometry DEF Typed
  <2>4. Ready(iter)'
    BY <2>1, <2>2, <2>3, FreshReady
  <2>5. path \in Seq(Components(path)) /\ path # <<>>
    BY PathIs
  <2>6. PICK i \in 1 .. Len(path) : /\ Skip(path) \in Seq(Components(path))
                                    /\ Suffix(Skip(path), path, i)
    BY <2>5, SkipIs
  <2>7. Len(Skip(path)) # 0
    BY <2>5, <2>6 DEF Suffix
  <2>8. Skip(path) # <<>>
    BY <2>7
  <2>9. job'.path = path /\ job'.left = Skip(path)
    BY <2>1 DEF NoJob
  <2>10. WalkOK'
    BY <2>4, <2>6, <2>8, <2>9 DEF WalkOK, PathOK, Components
  <2>11. QED BY <2>1, <2>10 DEF WalkOn
<1>7. QED BY <1>1, <1>2, <1>3, <1>4, <1>5, <1>6

LEMMA WalkStep ==
  ASSUME Typed, WalkOK, [Next]_vars PROVE WalkOK' /\ [WalkOn]_vars
<1>1. CASE UNCHANGED vars
  <2>1. UNCHANGED <<medium, booted, vol, iter>> /\ job' = job
    BY <1>1 DEF vars
  <2>2. Ready(iter)' <=> Ready(iter)
    BY <2>1, LeftSame
  <2>3. WalkOK'
    BY <2>1, <2>2 DEF WalkOK, PathOK, Walking, Components
  <2>4. QED BY <1>1, <2>3
<1>2. CASE fat_read_next_dir_entry
  <2>1. /\ job.kind = "list" /\ job.phase = "got" /\ job.res = "SUCCESS"
        /\ job' = [job EXCEPT !.phase = "turn"] /\ UNCHANGED <<medium, booted, vol, iter>>
    BY <1>2 DEF fat_read_next_dir_entry
  <2>2. QED BY <2>1, AsksOn
<1>3. QED BY <1>1, <1>2, StartsOn, TakesOn, ComparesOn DEF Next, Step

\* WalksOn for every medium, word size and path: each turn of
\* fat_read_next_dir_entry and of get_file that does not end it leaves one entry
\* less of the directory, or of the path a component less, wherever the clusters of
\* the directory lie and whatever its entries are, unless the chain is circular.
THEOREM WalksComeToAnEnd == Spec => WalksOn
<1>1. Init => WalkOK
  BY DEF Init, NoJob, WalkOK, PathOK, Walking
<1>2. Typed /\ WalkOK /\ [Next]_vars => WalkOK' /\ [WalkOn]_vars
  BY WalkStep
<1>3. Spec => [][WalkOn]_vars
  <2> HIDE DEF WalkOK, WalkOn
  <2>1. QED BY <1>1, <1>2, TypedAlways, PTL DEF Spec
<1>4. QED BY <1>3 DEF WalksOn, WalkOn
=============================================================================
