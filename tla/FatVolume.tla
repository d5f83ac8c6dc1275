----------------------------- MODULE FatVolume -----------------------------
(***************************************************************************)
(* Mounting the FAT32 volume of src/driver/fs/FAT32.c and following its    *)
(* cluster chains.  A medium is what the card holds: the master boot       *)
(* record's partition table, the volume's BIOS parameter block and its     *)
(* file allocation table.  The fields are numbers, already decoded from    *)
(* their little-endian bytes.                                              *)
(***************************************************************************)
EXTENDS Integers, Sequences

CONSTANTS
  Media,                     \* the media a board may be started with
  WORD,                      \* uint32_t counts modulo this, 2^32
  FAT32_LAST_CLUSTER_VALID   \* 0x0FFFFFFF, all ones in a 28-bit FAT entry

FAT32_EOC_MARKER_START == FAT32_LAST_CLUSTER_VALID - 7
FAT32_BAD_CLUSTER == FAT32_LAST_CLUSTER_VALID - 8

Words == 0 .. (WORD - 1)

\* One of the four entries of the partition table.
Partitions == [active : BOOLEAN, type : Nat, start : Words, sectors : Words]

Layout == [bytes_per_sector : 1 .. (WORD \div 2 - 1), sectors_per_cluster : Words \ {0},
           reserved_sector_count : Nat, num_fats : Nat, fat_size_sectors : Nat,
           root_dir_cluster : Words]

ASSUME VolumeAssumption ==
  /\ WORD \in Nat \ {0}
  /\ FAT32_LAST_CLUSTER_VALID \in Words /\ FAT32_LAST_CLUSTER_VALID > 8
  /\ \A m \in Media : m.parts \in Seq(Partitions) /\ Len(m.parts) <= 4 /\ m.bpb \in Layout

VARIABLES
  medium,   \* the medium in the slot; never changes
  booted,   \* kernel_main has called fat32_init
  vol       \* g_fat32_volume_info

volVars == <<medium, booted, vol>>

NoVolume == [is_initialized |-> FALSE, volume_start_lba |-> 0, total_sectors |-> 0,
             bytes_per_sector |-> 0, sectors_per_cluster |-> 0,
             root_dir_cluster |-> 0, total_clusters |-> 0,
             first_fat_lba |-> 0, data_start_lba |-> 0, bytes_per_cluster |-> 0]

VolInit ==
  /\ medium \in Media
  /\ booted = FALSE
  /\ vol = NoVolume

(***************************************************************************)
(* fat32_init: the partition table, then the parameter block.              *)
(***************************************************************************)

\* Marked active, of type FAT32 (0x0B, or 0x0C with LBA addressing).
Bootable(p) == p.active /\ p.type \in {11, 12}

\* Signature 0xAA55 and a partition the driver takes.
Partitioned(m) == m.signed /\ \E i \in DOMAIN m.parts : Bootable(m.parts[i])

TheFirst(m) == CHOOSE i \in DOMAIN m.parts :
                 Bootable(m.parts[i]) /\ \A j \in 1 .. (i - 1) : ~Bootable(m.parts[j])

parseMBR(v, m) ==
  [v EXCEPT !.volume_start_lba = m.parts[TheFirst(m)].start,
            !.total_sectors = m.parts[TheFirst(m)].sectors]

parseBPB(v, b) ==
  LET fats     == b.num_fats * b.fat_size_sectors
      firstFat == (v.volume_start_lba + b.reserved_sector_count) % WORD
      dataSectors == (v.total_sectors - (b.reserved_sector_count + fats)) % WORD
  IN  [v EXCEPT
        !.bytes_per_sector    = b.bytes_per_sector,
        !.sectors_per_cluster = b.sectors_per_cluster,
        !.root_dir_cluster    = b.root_dir_cluster,
        !.first_fat_lba       = firstFat,
        !.data_start_lba      = (firstFat + fats) % WORD,
        !.bytes_per_cluster   = b.sectors_per_cluster * b.bytes_per_sector,
        !.total_clusters      = dataSectors \div b.sectors_per_cluster,
        !.is_initialized      = TRUE]

\* The volume of a medium with a partition.
Mounted(m) == parseBPB(parseMBR(NoVolume, m), m.bpb)

\* Whatever the card holds where the entry of a cluster is looked up is a number.
ASSUME FatAssumption ==
  \A m \in Media : Partitioned(m) =>
    \A c \in 2 .. (Mounted(m).total_clusters + 1) : m.fat[c] \in Nat

\* Either sector cannot be read, or there is no partition to mount.  What the
\* partition table said is kept when the parameter block cannot be read.
MountFails ==
  /\ ~booted /\ booted' = TRUE
  /\ \/ UNCHANGED vol
     \/ Partitioned(medium) /\ vol' = parseMBR(vol, medium)
  /\ UNCHANGED medium

MountWorks ==
  /\ ~booted /\ booted' = TRUE
  /\ Partitioned(medium)
  /\ vol' = parseBPB(parseMBR(vol, medium), medium.bpb)
  /\ UNCHANGED medium

(***************************************************************************)
(* Clusters.                                                               *)
(***************************************************************************)

\* Mutant: no look at the number of clusters.
InRangeOpen(v, c) == 2 <= c

InRange(v, c) == 2 <= c /\ c < (v.total_clusters + 2) % WORD

\* A FAT entry without its four reserved bits.
Entry(m, c) == m.fat[c] % (FAT32_LAST_CLUSTER_VALID + 1)

\* What getNextCluster returns when the FAT sector can be read.
getNextCluster(v, m, c) ==
  IF ~v.is_initialized THEN "NOT_INITIALIZED"
  ELSE IF ~InRange(v, c) THEN "INVALID_CLUSTER"
  ELSE CASE Entry(m, c) >= FAT32_EOC_MARKER_START -> "END_OF_CHAIN"
         [] Entry(m, c) = FAT32_BAD_CLUSTER -> "BAD_CLUSTER"
         [] Entry(m, c) = 0 -> "INVALID_CLUSTER"
         [] OTHER -> "SUCCESS"

\* Mutant: clusters are counted from 0.
fatClusterToLbaFromZero(v, c) ==
  IF c < 2 THEN 0 ELSE (v.data_start_lba + c * v.sectors_per_cluster) % WORD

fatClusterToLba(v, c) ==
  IF c < 2 THEN 0
           ELSE (v.data_start_lba + (c - 2) * v.sectors_per_cluster) % WORD

(***************************************************************************)
(* Properties.                                                             *)
(***************************************************************************)

\* The clusters of the file or directory that starts at c, in order, as far as the FAT leads.
Chain(v, m, c) ==
  LET link[k \in Nat] == IF k = 0 THEN c
                         ELSE IF InRange(v, link[k - 1])
                                THEN Entry(m, link[k - 1]) ELSE 0
  IN  link

\* The partition fits the card and holds its reserved sectors and its FATs.
Plausible(v, b) ==
  /\ v.volume_start_lba + v.total_sectors < WORD
  /\ b.reserved_sector_count + b.num_fats * b.fat_size_sectors <= v.total_sectors

\* Every cluster number that getNextCluster accepts as a place to read the FAT
\* for lies in the partition behind the FATs: cluster 2 is the first, and the
\* last does not reach past the end.  total_clusters, data_start_lba and
\* fatClusterToLba agree on the layout, for every plausible volume.
ClustersInside ==
  vol.is_initialized /\ Plausible(vol, medium.bpb) =>
    \A c \in 2 .. (vol.total_clusters + 1) :
      /\ fatClusterToLba(vol, c) >= vol.first_fat_lba
                                    + medium.bpb.num_fats * medium.bpb.fat_size_sectors
      /\ fatClusterToLba(vol, c) + vol.sectors_per_cluster
           <= vol.volume_start_lba + vol.total_sectors
=============================================================================
