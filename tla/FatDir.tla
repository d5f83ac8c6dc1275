------------------------------- MODULE FatDir -------------------------------
(***************************************************************************)
(* Directories of src/driver/fs/FAT32.c: the iterator                      *)
(* (fat_init_root_dir_iterator, fat_read_next_dir_entry) and the path      *)
(* lookup get_file, which walks directories with an iterator of its own.   *)
(*                                                                         *)
(* A directory entry is a record; a file name is the sequence of its       *)
(* pieces, one for a short name and one per LFN entry for a long one.      *)
(* medium.sectors maps a sector to its entries.  One turn of the           *)
(* iterator's loop is one step.  lfn_parts_found and lfn_buffer are local  *)
(* to fat_read_next_dir_entry and start with whatever the stack holds.     *)
(***************************************************************************)
EXTENDS FatVolume

CONSTANTS
  MAX_LFN_PARTS,  \* rows of lfn_buffer
  Garbage,        \* what an uninitialised lfn_parts_found may be
  Paths           \* the paths looked up: sequences of names

BYTE == 256   \* lfn_parts_found and lfn_checksum are a uint8_t each

\* What the 32 bytes of a directory entry may be.
IsEntry(e) ==
  /\ e.kind \in {"end", "deleted", "lfn", "sfn"}
  /\ e.sum \in 0 .. (BYTE - 1) /\ e.start \in Words
  /\ e.dir \in BOOLEAN /\ e.label \in BOOLEAN

ASSUME DirAssumption ==
  /\ MAX_LFN_PARTS \in Nat \ {0}
  /\ Garbage \subseteq 0 .. (BYTE - 1)
  /\ \A path \in Paths : path \in Seq({path[k] : k \in DOMAIN path}) /\ path # <<>>

\* A sector holds an entry or more, and whatever a sector holds can be read as
\* entries.
ASSUME SectorAssumption ==
  \A m \in Media :
    /\ m.bpb.bytes_per_sector >= 32 /\ m.dirs \subseteq Words
    /\ \A l \in Words, j \in 1 .. (m.bpb.bytes_per_sector \div 32) : IsEntry(m.sectors[l][j])

VARIABLES
  iter,   \* the fat_directory_iterator_t in use
  parts,  \* lfn_parts_found
  rows,   \* lfn_buffer
  job     \* who iterates: a program listing a directory, or get_file

vars == <<medium, booted, vol, iter, parts, rows, job>>

Junk == "?"
NoBuffer == -1

Fresh(c) == [cluster |-> c, sector |-> WORD - 1, entry |-> 0,
             valid |-> FALSE, buffer |-> NoBuffer, lfn_checksum |-> 0]

NoInfo == [name |-> <<>>, entry |-> [kind |-> "none"]]

NoJob == [kind |-> "none", phase |-> "done", path |-> <<>>, left |-> <<>>, start |-> 0,
          res |-> "SUCCESS", info |-> NoInfo, seen |-> <<>>, clean |-> TRUE]

Init ==
  /\ VolInit
  /\ iter = Fresh(0)
  /\ parts = 0 /\ rows = [r \in 1 .. MAX_LFN_PARTS |-> Junk]
  /\ job = NoJob

fat32_init == (MountFails \/ MountWorks) /\ UNCHANGED <<iter, parts, rows, job>>

\* The iterator's function is entered: its locals are not initialised.
Enter ==
  /\ parts' \in Garbage
  /\ rows' = [r \in 1 .. MAX_LFN_PARTS |-> Junk]

\* A program starts to list the directory at cluster c.
fat_init_root_dir_iterator(c) ==
  /\ vol.is_initialized /\ job.phase = "done"
  /\ iter' = Fresh(c)
  /\ job' = [NoJob EXCEPT !.kind = "list", !.phase = "got", !.start = c]
  /\ UNCHANGED <<medium, booted, vol, parts, rows>>

\* Components that are empty are skipped, unless nothing follows.
Skip(path) ==
  LET kept == {k \in DOMAIN path : path[k] # <<>> \/ k = Len(path)}
      first == CHOOSE k \in kept : \A j \in kept : k <= j
  IN  SubSeq(path, first, Len(path))

get_file(path) ==
  /\ vol.is_initialized /\ job.phase = "done"
  /\ iter' = Fresh(vol.root_dir_cluster)
  /\ job' = [NoJob EXCEPT !.kind = "find", !.phase = "turn",
                          !.path = path, !.left = Skip(path),
                          !.start = vol.root_dir_cluster]
  /\ Enter
  /\ UNCHANGED <<medium, booted, vol>>

\* The program asks for the next entry; a program whose listing failed starts
\* anew with a fresh iterator.
fat_read_next_dir_entry ==
  /\ job.kind = "list" /\ job.phase = "got" /\ job.res = "SUCCESS"
  /\ job' = [job EXCEPT !.phase = "turn"]
  /\ Enter
  /\ UNCHANGED <<medium, booted, vol, iter>>

(***************************************************************************)
(* One turn of fat_read_next_dir_entry's loop.                             *)
(***************************************************************************)
PerSector == vol.bytes_per_sector \div 32
NeedsSector == ~iter.valid \/ iter.entry >= PerSector

\* Mutant: a sector counter too wide to wrap from -1 to 0.
AdvancedWide == [iter EXCEPT !.sector = @ + 1, !.entry = 0]

Advanced == [iter EXCEPT !.sector = (@ + 1) % WORD, !.entry = 0]
NeedsCluster == Advanced.sector >= vol.sectors_per_cluster
Link == getNextCluster(vol, medium, iter.cluster)

\* The iterator on its next sector, which is not in the buffer yet.
Moved == IF NeedsCluster
           THEN [Advanced EXCEPT !.cluster = Entry(medium, iter.cluster), !.sector = 0]
           ELSE Advanced

Lba(it) == (fatClusterToLba(vol, it.cluster) + it.sector) % WORD

Loaded == IF NeedsSector THEN [Moved EXCEPT !.buffer = Lba(Moved), !.valid = TRUE] ELSE iter

Got(res, info) == job' = [job EXCEPT !.phase = "got", !.res = res, !.info = info,
                                     !.seen = IF job.kind = "list" /\ res = "SUCCESS"
                                                THEN Append(@, info) ELSE @]

\* The chain of the directory ends, or is broken.
ChainEnds ==
  /\ job.phase = "turn" /\ NeedsSector /\ NeedsCluster /\ Link # "SUCCESS"
  /\ iter' = Advanced
  /\ Got(Link, NoInfo)
  /\ UNCHANGED <<medium, booted, vol, parts, rows>>

\* sdReadPartialBlock of the FAT or sdReadBlock of the sector returned false;
\* neither has touched the buffer.
LoadFails ==
  /\ job.phase = "turn" /\ NeedsSector
  /\ \/ NeedsCluster /\ InRange(vol, iter.cluster) /\ iter' = Advanced
     \/ (NeedsCluster => Link = "SUCCESS") /\ iter' = Moved
  /\ job' = [job EXCEPT !.phase = "got", !.res = "READ_FAIL", !.info = NoInfo, !.clean = FALSE]
  /\ UNCHANGED <<medium, booted, vol, parts, rows>>

\* Mutant: a deleted entry is skipped before the cursor is moved past it.
PassedStuck(it) ==
  IF medium.sectors[it.buffer][it.entry + 1].kind = "deleted" THEN it
  ELSE [it EXCEPT !.entry = @ + 1]

Passed(it) == [it EXCEPT !.entry = @ + 1]

\* Mutant: a deleted entry ends the directory.
EndMarkDeleted(e) == e.kind \in {"end", "deleted"}

EndMark(e) == e.kind = "end"

\* An LFN entry: a new sequence, a piece of the one being read, or an orphan.
KeepsPiece(e) == e.ord \in 1 .. MAX_LFN_PARTS /\ (e.last \/ iter.lfn_checksum # 0)

TakePiece(e) ==
  /\ iter' = [Passed(Loaded) EXCEPT
                !.lfn_checksum = IF ~KeepsPiece(e) THEN 0 ELSE IF e.last THEN e.sum ELSE @]
  /\ parts' = IF KeepsPiece(e) THEN (parts + 1) % BYTE ELSE 0
  /\ rows' = IF KeepsPiece(e) THEN [rows EXCEPT ![e.ord] = e.piece] ELSE rows
  /\ UNCHANGED job

\* The name given to the short entry e: the collected pieces, if it has the
\* checksum they carry.  A checksum of 0 stands for none.
NameOf(e) ==
  IF iter.lfn_checksum # 0 /\ e.ck = iter.lfn_checksum
    THEN [k \in 1 .. parts |-> IF k <= MAX_LFN_PARTS THEN rows[k] ELSE Junk]
    ELSE e.name

TakeShort(e) ==
  /\ iter' = [Passed(Loaded) EXCEPT !.lfn_checksum = 0]
  /\ parts' = 0
  /\ UNCHANGED rows
  /\ IF e.label /\ ~e.dir THEN UNCHANGED job
     ELSE Got("SUCCESS", [name |-> NameOf(e), entry |-> e])

\* The entry under the cursor, its sector read if it was not in the buffer.
TakeEntry ==
  /\ job.phase = "turn"
  /\ NeedsSector /\ NeedsCluster => Link = "SUCCESS"
  /\ LET e == medium.sectors[Loaded.buffer][Loaded.entry + 1]
         next == iter' = Passed(Loaded) /\ UNCHANGED <<parts, rows>>
     IN  \/ EndMark(e) /\ next /\ Got("NO_MORE_ENTRIES", NoInfo)
         \/ e.kind = "deleted" /\ next /\ UNCHANGED job
         \/ e.kind = "lfn" /\ TakePiece(e)
         \/ e.kind = "sfn" /\ TakeShort(e)
  /\ UNCHANGED <<medium, booted, vol>>

(***************************************************************************)
(* get_file looks at what the iterator returned.                           *)
(***************************************************************************)
\* Mutant: the component before the last is taken for the last.
FinalEarly == Len(job.left) <= 2

Final == Len(job.left) = 1
Matches == job.res = "SUCCESS" /\ job.info.name = Head(job.left)

Finish(res) == job' = [job EXCEPT !.phase = "done", !.res = res]

Compare ==
  /\ job.kind = "find" /\ job.phase = "got"
  /\ \/ /\ Matches /\ ~Final /\ job.info.entry.dir
        /\ iter' = Fresh(job.info.entry.start)
        /\ job' = [job EXCEPT !.phase = "turn", !.left = Skip(Tail(@)),
                              !.start = job.info.entry.start]
        /\ Enter
     \/ /\ Matches /\ Final
        /\ Finish(IF job.info.entry.dir THEN "FILE_NOT_FOUND" ELSE "SUCCESS")
        /\ UNCHANGED <<iter, parts, rows>>
     \/ /\ job.res = "SUCCESS"
        /\ ~Matches \/ (~Final /\ ~job.info.entry.dir)
        /\ job' = [job EXCEPT !.phase = "turn"]
        /\ Enter
        /\ UNCHANGED iter
     \/ /\ job.res # "SUCCESS"
        /\ Finish(IF job.res = "NO_MORE_ENTRIES" THEN "FILE_NOT_FOUND" ELSE job.res)
        /\ UNCHANGED <<iter, parts, rows>>
  /\ UNCHANGED <<medium, booted, vol>>

\* The program has listed the directory as far as it goes.
Listed ==
  /\ job.kind = "list" /\ job.phase = "got" /\ job.res # "SUCCESS"
  /\ Finish(job.res)
  /\ UNCHANGED <<medium, booted, vol, iter, parts, rows>>

\* The CPU goes on with the iteration once a transfer has worked.
Step == ChainEnds \/ TakeEntry \/ Compare

Next ==
  \/ fat32_init
  \/ \E c \in medium.dirs : fat_init_root_dir_iterator(c)
  \/ fat_read_next_dir_entry
  \/ Listed
  \/ \E path \in Paths : get_file(path)
  \/ LoadFails
  \/ Step

Spec == Init /\ [][Next]_vars
FairSpec == Spec /\ WF_vars(Step)

(***************************************************************************)
(* Properties.                                                             *)
(***************************************************************************)

\* The iterator, the job and the LFN buffer have their types.
TypeOK ==
  /\ iter.cluster \in 0 .. (WORD - 1) /\ iter.sector \in 0 .. (WORD - 1)
  /\ iter.entry \in 0 .. (IF vol.is_initialized THEN PerSector ELSE 0)
  /\ iter.valid \in BOOLEAN /\ iter.lfn_checksum \in 0 .. (BYTE - 1)
  /\ parts \in 0 .. (BYTE - 1)
  /\ DOMAIN rows = 1 .. MAX_LFN_PARTS
  /\ job.kind \in {"none", "list", "find"} /\ job.phase \in {"done", "got", "turn"}

\* The chain that starts at c comes back to itself.
Circular(c) == \A k \in 0 .. vol.total_clusters :
                 getNextCluster(vol, medium, Chain(vol, medium, c)[k]) = "SUCCESS"

\* How many links the chain from c has; of a circular one as many as go once
\* round, or more.
Links(c) ==
  LET link == Chain(vol, medium, c)
      ends == {k \in 0 .. vol.total_clusters :
                 getNextCluster(vol, medium, link[k]) # "SUCCESS"}
  IN  IF ends = {} THEN vol.total_clusters ELSE CHOOSE k \in ends : \A j \in ends : k <= j

\* The entries of the directory at cluster c, counted from 0 along its chain,
\* and all of them as the medium has them.
Slot(c, j) ==
  LET s == j \div PerSector
      lba == fatClusterToLba(vol, Chain(vol, medium, c)[s \div vol.sectors_per_cluster])
               + (s % vol.sectors_per_cluster)
  IN  medium.sectors[lba % WORD][(j % PerSector) + 1]

Raw(c) == [j \in 1 .. ((Links(c) + 1) * vol.sectors_per_cluster * PerSector) |-> Slot(c, j - 1)]

\* How many entries are in front of the end mark.
Extent(raw) ==
  LET marks == {j \in DOMAIN raw : raw[j].kind = "end"}
  IN  IF marks = {} THEN Len(raw) ELSE (CHOOSE j \in marks : \A k \in marks : j <= k) - 1

\* A file or a directory, not the volume label.
Shown(e) == e.kind = "sfn" /\ (e.label => e.dir)

\* The files and directories among the first k entries.
Gathered(raw) ==
  LET first[k \in 0 .. Len(raw)] ==
        IF k = 0 THEN <<>>
        ELSE IF Shown(raw[k]) THEN Append(first[k - 1], raw[k]) ELSE first[k - 1]
  IN  first

Listing(c) == Gathered(Raw(c))[Extent(Raw(c))]

IsPrefixOf(s, t) == Len(s) <= Len(t) /\ \A j \in DOMAIN s : s[j] = t[j]

Entries(seen) == [j \in DOMAIN seen |-> seen[j].entry]

\* A listing gives every file and directory once and in order, across sectors,
\* clusters, deleted entries and LFN entries, and it is complete when it ends,
\* by the end mark or by the end of the chain.  (That of a circular chain without
\* an end mark never ends.)
ListsAll ==
  job.kind = "list" /\ job.clean /\ ~Circular(job.start) =>
    /\ IsPrefixOf(Entries(job.seen), Listing(job.start))
    /\ job.res \in {"NO_MORE_ENTRIES", "END_OF_CHAIN"} =>
         Entries(job.seen) = Listing(job.start)

\* The first entry of that name in the directory at cluster c, for an inner
\* component of a path the first directory.
Found(c, name, inner) ==
  LET raw == Raw(c)
      hits == {j \in 1 .. Extent(raw) :
                 Shown(raw[j]) /\ raw[j].name = name /\ (inner => raw[j].dir)}
  IN  IF hits = {} THEN NoInfo.entry ELSE raw[CHOOSE j \in hits : \A k \in hits : j <= k]

\* What the first k components of a path lead to by short names, from the root
\* directory; an empty one that is not the last leads nowhere else.
Leads(path) ==
  LET at[k \in 0 .. Len(path)] ==
        IF k = 0 THEN [kind |-> "sfn", dir |-> TRUE, start |-> vol.root_dir_cluster]
        ELSE IF at[k - 1].kind = "none" \/ (path[k] = <<>> /\ k < Len(path)) THEN at[k - 1]
        ELSE Found(at[k - 1].start, path[k], k < Len(path))
  IN  at

\* The file a path leads to.
Target(path) ==
  LET e == Leads(path)[Len(path)]
  IN  IF e.kind = "sfn" /\ ~e.dir THEN e ELSE NoInfo.entry

ShortNamesOnly == \A l \in Words, j \in 1 .. PerSector :
                    medium.sectors[l][j].kind # "lfn"

\* On a volume of short names get_file gives the file its path leads to, and
\* fails exactly when there is none or a transfer failed; never another file.
FindsTarget ==
  job.kind = "find" /\ job.phase = "done" /\ ShortNamesOnly =>
    /\ job.res = "SUCCESS" => job.info.entry = Target(job.path)
    /\ job.clean /\ job.res # "SUCCESS" => Target(job.path) = NoInfo.entry

\* A lookup ends whatever it finds or does not find, and on a directory whose
\* chain is circular when the name it looks for is there.  (For another name the
\* iterator goes round for ever: nothing counts the clusters.)
LookupsEnd ==
  job.kind = "find" /\ (Target(job.path) # NoInfo.entry
                        \/ \A c \in medium.subdirs : ~Circular(c))
    ~> job.phase = "done"

\* The entries that the iterator may still come to, up to the end of its chain.
EntriesLeft ==
  (Links(iter.cluster) * vol.sectors_per_cluster + vol.sectors_per_cluster - Advanced.sector)
    * PerSector + (IF iter.valid THEN PerSector - iter.entry ELSE 0)

TurnsLeft == 2 * EntriesLeft + (IF job.phase = "got" THEN 1 ELSE 0)

\* Every turn of a listing or a lookup that does not end it is a turn nearer to the
\* end of the directory, or to that of the path: deleted entries, LFN entries, labels,
\* names that do not match and steps to the next sector or cluster included.  Only a
\* chain that leads back into itself has no end to come nearer to.
WalksOn ==
  [][job.phase # "done" /\ job'.phase # "done" /\ job'.res = "SUCCESS" =>
       \/ Len(job'.left) < Len(job.left)
       \/ job'.left = job.left /\ TurnsLeft' \in Nat /\ TurnsLeft' < TurnsLeft
       \/ job'.left = job.left /\ Circular(iter.cluster)]_vars

\* What the comment at FAT32.h:35 says of a filename: "Long filename if
\* available, otherwise SFN".
LongNames == job.res = "SUCCESS" /\ job.info.entry.kind = "sfn" =>
               job.info.name = job.info.entry.full
=============================================================================
