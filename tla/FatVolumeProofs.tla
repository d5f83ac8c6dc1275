-------------------------- MODULE FatVolumeProofs --------------------------
(***************************************************************************)
(* What the proofs about files and directories share: the layout of a      *)
(* mounted volume and its cluster chains, for every medium and word size.  *)
(***************************************************************************)
EXTENDS FatVolume, Induction

----------------------------------------------------------------------------
(***************************************************************************)
(* The volume.                                                             *)
(***************************************************************************)

LEMMA MulMono == ASSUME NEW x \in Nat, NEW y \in Nat, NEW s \in Nat, x <= y
                 PROVE  x * s \in Nat /\ y * s \in Nat /\ x * s <= y * s
  OBVIOUS

LEMMA MulPos == ASSUME NEW x \in Nat \ {0}, NEW y \in Nat \ {0} PROVE x * y \in Nat \ {0}
  OBVIOUS

LEMMA DivMod == ASSUME NEW x \in Nat, NEW s \in Nat \ {0}
                PROVE  /\ x \div s \in Nat /\ x % s \in 0 .. (s - 1)
                       /\ (x \div s) * s \in Nat
                       /\ x = (x \div s) * s + (x % s)
  OBVIOUS

LEMMA Divided == ASSUME NEW s \in Nat \ {0}, NEW x \in Nat, NEW y \in Nat, y < s
                 PROVE  /\ x * s + y \in Nat
                        /\ (x * s + y) \div s = x /\ (x * s + y) % s = y
  OBVIOUS

LEMMA ModSmall == ASSUME NEW x \in Nat, NEW m \in Nat \ {0}, x < m PROVE x % m = x
  OBVIOUS

LEMMA WordsAre == /\ WORD \in Nat \ {0}
                  /\ \A w \in Words : w \in Nat /\ w < WORD
                  /\ \A x \in Nat : x < WORD => x \in Words
                  /\ \A x \in Int : x % WORD \in Words
  BY VolumeAssumption DEF Words

LEMMA ModLess == ASSUME NEW x \in Nat, NEW m \in Nat \ {0}
                 PROVE  x % m \in Nat /\ x % m < m /\ x % m <= x
  OBVIOUS

LEMMA Half == WORD \div 2 \in Nat /\ WORD \div 2 <= WORD
  BY VolumeAssumption

LEMMA Joined == ASSUME NEW S, NEW s \in Seq(S), NEW t \in Seq(S)
                PROVE  /\ s \o t \in Seq(S) /\ Len(s \o t) = Len(s) + Len(t)
                       /\ \A j \in 1 .. (Len(s) + Len(t)) :
                            (s \o t)[j] = IF j <= Len(s) THEN s[j] ELSE t[j - Len(s)]
  OBVIOUS

\* The partition that parseMBR takes is an entry of the table.
LEMMA FirstPartition ==
  ASSUME NEW m \in Media, Partitioned(m)
  PROVE  m.parts[TheFirst(m)] \in Partitions
<1>1. m.parts \in Seq(Partitions) /\ Len(m.parts) <= 4
  BY VolumeAssumption
<1>2. DOMAIN m.parts = 1 .. Len(m.parts) /\ Len(m.parts) \in Nat
  BY <1>1
<1>3. \E i \in DOMAIN m.parts :
         Bootable(m.parts[i]) /\ \A j \in 1 .. (i - 1) : ~Bootable(m.parts[j])
  <2>1. PICK i \in 1 .. Len(m.parts) : Bootable(m.parts[i])
    BY <1>2 DEF Partitioned
  <2>2. i \in {1, 2, 3, 4} /\ \A k \in 1 .. i : k \in DOMAIN m.parts
    BY <1>1, <1>2
  <2> DEFINE B(k) == Bootable(m.parts[k])
  <2>3. /\ B(1) \/ B(2) \/ B(3) \/ B(4)
        /\ 1 \in DOMAIN m.parts
        /\ ~B(1) => 2 \in DOMAIN m.parts
        /\ ~B(1) /\ ~B(2) => 3 \in DOMAIN m.parts
        /\ ~B(1) /\ ~B(2) /\ ~B(3) => 4 \in DOMAIN m.parts
    BY <2>1, <2>2
  <2>4. CASE B(1)
    BY <2>3, <2>4
  <2>5. CASE ~B(1) /\ B(2)
    BY <2>3, <2>5
  <2>6. CASE ~B(1) /\ ~B(2) /\ B(3)
    BY <2>3, <2>6
  <2>7. CASE ~B(1) /\ ~B(2) /\ ~B(3) /\ B(4)
    BY <2>3, <2>7
  <2>8. QED BY <2>3, <2>4, <2>5, <2>6, <2>7
<1>4. TheFirst(m) \in DOMAIN m.parts
  BY <1>3 DEF TheFirst
<1>5. QED BY <1>1, <1>2, <1>4

\* The fields that mounting computes.
LEMMA MountedFields ==
  ASSUME NEW m \in Media, Partitioned(m)
  PROVE  LET b == m.bpb
             v == Mounted(m)
             fats == b.num_fats * b.fat_size_sectors
         IN  /\ b \in Layout
             /\ v.is_initialized = TRUE
             /\ v.bytes_per_sector = b.bytes_per_sector
             /\ v.sectors_per_cluster = b.sectors_per_cluster
             /\ v.root_dir_cluster = b.root_dir_cluster
             /\ v.bytes_per_cluster = b.sectors_per_cluster * b.bytes_per_sector
             /\ v.volume_start_lba \in Words /\ v.total_sectors \in Words
             /\ v.first_fat_lba = (v.volume_start_lba + b.reserved_sector_count) % WORD
             /\ v.data_start_lba = (v.first_fat_lba + fats) % WORD
             /\ v.total_clusters = ((v.total_sectors - (b.reserved_sector_count + fats)) % WORD)
                                     \div b.sectors_per_cluster
<1>1. m.bpb \in Layout
  BY VolumeAssumption
<1>2. m.parts[TheFirst(m)].start \in Words /\ m.parts[TheFirst(m)].sectors \in Words
  BY FirstPartition DEF Partitions
<1>3. QED BY <1>1, <1>2 DEF Mounted, parseBPB, parseMBR, NoVolume

\* The numbers of a mounted volume.
LEMMA MountedTypes ==
  ASSUME NEW m \in Media, Partitioned(m)
  PROVE  LET v == Mounted(m)
         IN  /\ v.bytes_per_sector \in 1 .. (WORD \div 2 - 1)
             /\ v.sectors_per_cluster \in Nat \ {0} /\ v.sectors_per_cluster \in Words
             /\ v.root_dir_cluster \in Words
             /\ v.bytes_per_cluster \in Nat \ {0}
             /\ v.bytes_per_cluster = v.sectors_per_cluster * v.bytes_per_sector
             /\ v.volume_start_lba \in Words /\ v.total_sectors \in Words
             /\ v.data_start_lba \in Words
             /\ v.total_clusters \in Nat
<1> DEFINE v == Mounted(m)
           b == m.bpb
           fats == b.num_fats * b.fat_size_sectors
           used == b.reserved_sector_count + fats
<1>1. /\ b.bytes_per_sector \in 1 .. (WORD \div 2 - 1) /\ b.sectors_per_cluster \in Nat \ {0}
      /\ b.sectors_per_cluster \in Words /\ b.root_dir_cluster \in Words
      /\ b.reserved_sector_count \in Nat /\ b.num_fats \in Nat /\ b.fat_size_sectors \in Nat
  <2>1. b \in Layout
    BY MountedFields
  <2>2. b.sectors_per_cluster \in Words \ {0}
    BY <2>1 DEF Layout
  <2>3. QED BY <2>1, <2>2, WordsAre DEF Layout
<1>2. fats \in Nat /\ used \in Nat
  BY <1>1
<1>3. /\ WORD \in Nat \ {0}
      /\ v.volume_start_lba \in Words /\ v.volume_start_lba \in Nat
      /\ v.total_sectors \in Words /\ v.total_sectors \in Nat
  BY MountedFields, WordsAre
<1>4. b.sectors_per_cluster * b.bytes_per_sector \in Nat \ {0}
  <2>1. b.bytes_per_sector \in Nat \ {0}
    BY <1>1, <1>3
  <2>2. QED BY <2>1, <1>1, MulPos
<1>5. v.first_fat_lba \in Words
  <2>1. v.first_fat_lba = (v.volume_start_lba + b.reserved_sector_count) % WORD
    BY MountedFields
  <2>2. v.volume_start_lba + b.reserved_sector_count \in Int
    BY <1>1, <1>3
  <2>3. QED BY <2>1, <2>2, WordsAre
<1>6. v.data_start_lba \in Words
  <2> HIDE DEF fats
  <2>1. v.data_start_lba = (v.first_fat_lba + fats) % WORD
    BY MountedFields DEF fats
  <2>2. v.first_fat_lba + fats \in Int
    BY <1>2, <1>5, WordsAre
  <2>3. QED BY <2>1, <2>2, WordsAre
<1>7. v.total_clusters \in Nat
  <2> HIDE DEF used, fats
  <2>1. v.total_clusters = ((v.total_sectors - used) % WORD) \div b.sectors_per_cluster
    BY MountedFields DEF used, fats
  <2>2. (v.total_sectors - used) % WORD \in Nat
    BY <1>2, <1>3
  <2>3. QED BY <2>1, <2>2, <1>1
<1>8. QED BY <1>1, <1>3, <1>4, <1>6, <1>7, MountedFields

----------------------------------------------------------------------------
\* Clusters in a plausible volume: the sums that the code computes in 32 bits
\* do not wrap.
LEMMA ClusterPlace ==
  ASSUME NEW m \in Media, Partitioned(m), Plausible(Mounted(m), m.bpb),
         NEW c \in 2 .. (Mounted(m).total_clusters + 1)
  PROVE  LET v == Mounted(m)
         IN  /\ fatClusterToLba(v, c) \in Nat
             /\ v.data_start_lba = v.first_fat_lba + m.bpb.num_fats * m.bpb.fat_size_sectors
             /\ v.data_start_lba <= fatClusterToLba(v, c)
             /\ fatClusterToLba(v, c) + v.sectors_per_cluster
                  <= v.volume_start_lba + v.total_sectors
<1> DEFINE v == Mounted(m)
           b == m.bpb
           fats == b.num_fats * b.fat_size_sectors
           res == b.reserved_sector_count
           spc == v.sectors_per_cluster
           data == v.total_sectors - (res + fats)
<1>1. /\ WORD \in Nat \ {0} /\ spc \in Nat \ {0} /\ res \in Nat /\ fats \in Nat
      /\ v.volume_start_lba \in Nat /\ v.total_sectors \in Nat
  <2>1. b.num_fats \in Nat /\ b.fat_size_sectors \in Nat /\ res \in Nat
    BY MountedFields DEF Layout
  <2>2. fats \in Nat
    BY <2>1
  <2>3. QED BY <2>1, <2>2, MountedTypes, WordsAre
<1>2. /\ v.volume_start_lba + v.total_sectors < WORD
      /\ res + fats <= v.total_sectors
  BY DEF Plausible
<1>3. /\ v.first_fat_lba = (v.volume_start_lba + res) % WORD
      /\ v.data_start_lba = (v.first_fat_lba + fats) % WORD
      /\ v.total_clusters = (data % WORD) \div spc
  BY MountedFields
<1> HIDE DEF fats, res, spc
<1>4. v.first_fat_lba = v.volume_start_lba + res
  <2>1. v.volume_start_lba + res \in Nat /\ v.volume_start_lba + res < WORD
    BY <1>1, <1>2
  <2>2. QED BY <2>1, <1>1, <1>3, ModSmall
<1>5. v.data_start_lba = v.volume_start_lba + res + fats
  <2>1. v.first_fat_lba + fats \in Nat /\ v.first_fat_lba + fats < WORD
    BY <1>1, <1>2, <1>4
  <2>2. v.data_start_lba = v.first_fat_lba + fats
    BY <2>1, <1>1, <1>3, ModSmall
  <2>3. QED BY <2>2, <1>4
<1>6. data \in Nat /\ data % WORD = data
  <2>1. data \in Nat /\ data < WORD
    BY <1>1, <1>2
  <2>2. QED BY <2>1, <1>1, ModSmall
<1> HIDE DEF data
<1>7. v.total_clusters \in Nat /\ v.total_clusters * spc <= data
  BY <1>1, <1>3, <1>6, DivMod
<1>8. c - 2 \in Nat /\ c - 1 \in Nat /\ c - 1 <= v.total_clusters /\ ~(c < 2)
  BY <1>7
<1>9. /\ (c - 1) * spc = (c - 2) * spc + spc
      /\ (c - 2) * spc \in Nat
      /\ (c - 1) * spc <= v.total_clusters * spc
  BY <1>1, <1>7, <1>8, MulMono
<1>10. /\ v.data_start_lba + (c - 2) * spc \in Nat
       /\ v.data_start_lba + (c - 2) * spc + spc <= v.volume_start_lba + v.total_sectors
  <2>1. data = v.total_sectors - (res + fats)
    BY DEF data
  <2>2. QED BY <2>1, <1>1, <1>5, <1>6, <1>7, <1>9
<1>11. fatClusterToLba(v, c) = v.data_start_lba + (c - 2) * spc
  <2>1. fatClusterToLba(v, c) = (v.data_start_lba + (c - 2) * spc) % WORD
    BY <1>8 DEF fatClusterToLba, spc
  <2>2. v.data_start_lba + (c - 2) * spc < WORD
    BY <1>1, <1>2, <1>9, <1>10
  <2>3. QED BY <2>1, <2>2, <1>1, <1>10, ModSmall
<1>12. QED BY <1>1, <1>4, <1>5, <1>9, <1>10, <1>11 DEF spc, fats

----------------------------------------------------------------------------
\* Unless fat32_init has worked the volume is not initialised.
VolumeOK ==
  /\ medium \in Media /\ booted \in BOOLEAN /\ vol.is_initialized \in BOOLEAN
  /\ ~booted => vol = NoVolume
  /\ vol.is_initialized => booted /\ Partitioned(medium) /\ vol = Mounted(medium)

LEMMA VolumeInit == VolInit => VolumeOK
<1> SUFFICES ASSUME VolInit PROVE VolumeOK
  OBVIOUS
<1>1. medium \in Media /\ vol = NoVolume /\ vol.is_initialized = FALSE
  BY DEF VolInit, NoVolume
<1>2. booted \in BOOLEAN /\ vol.is_initialized \in BOOLEAN
  BY <1>1 DEF VolInit
<1>3. ~vol.is_initialized
  BY <1>1
<1>4. QED BY <1>1, <1>2, <1>3 DEF VolumeOK

\* fat32_init leaves a volume, or none.
LEMMA MountStep == ASSUME VolumeOK, MountFails \/ MountWorks PROVE VolumeOK'
<1>1. CASE MountFails
  <2>1. medium' = medium /\ booted' = TRUE /\ vol = NoVolume
    BY <1>1 DEF MountFails, VolumeOK
  <2>2. vol'.is_initialized = FALSE
    <3>1. CASE UNCHANGED vol
      BY <2>1, <3>1 DEF NoVolume
    <3>2. CASE vol' = parseMBR(vol, medium)
      BY <2>1, <3>2 DEF NoVolume, parseMBR
    <3>3. QED BY <1>1, <3>1, <3>2 DEF MountFails
  <2>3. QED BY <2>1, <2>2 DEF VolumeOK
<1>2. CASE MountWorks
  <2>1. /\ medium' = medium /\ booted' = TRUE /\ vol = NoVolume
        /\ Partitioned(medium) /\ vol' = parseBPB(parseMBR(vol, medium), medium.bpb)
    BY <1>2 DEF MountWorks, VolumeOK
  <2>2. vol' = Mounted(medium)
    BY <2>1 DEF Mounted
  <2>3. Mounted(medium).is_initialized = TRUE
    BY <2>1, MountedFields DEF VolumeOK
  <2>4. Mounted(medium) = Mounted(medium') /\ Partitioned(medium')
    BY <2>1
  <2>5. QED BY <2>1, <2>2, <2>3, <2>4 DEF VolumeOK
<1>3. QED BY <1>1, <1>2

\* A FAT entry of a cluster in range is a number of 28 bits.
LEMMA EntryWord ==
  ASSUME NEW m \in Media, Partitioned(m), NEW c \in Nat, InRange(Mounted(m), c)
  PROVE  /\ c \in 2 .. (Mounted(m).total_clusters + 1)
         /\ Entry(m, c) \in Words
<1>1. Mounted(m).total_clusters + 2 \in Nat
  BY MountedTypes
<1>2. /\ (Mounted(m).total_clusters + 2) % WORD \in Nat
      /\ (Mounted(m).total_clusters + 2) % WORD <= Mounted(m).total_clusters + 2
  BY <1>1, ModLess, WordsAre
<1>3. c \in 2 .. (Mounted(m).total_clusters + 1)
  <2>1. 2 <= c /\ c < (Mounted(m).total_clusters + 2) % WORD
    BY DEF InRange
  <2>2. Mounted(m).total_clusters \in Nat
    BY MountedTypes
  <2>3. QED BY <2>1, <2>2, <1>2
<1>4. m.fat[c] \in Nat
  BY <1>3, FatAssumption
<1>5. /\ FAT32_LAST_CLUSTER_VALID \in Nat /\ FAT32_LAST_CLUSTER_VALID < WORD
  BY VolumeAssumption, WordsAre
<1>6. QED BY <1>3, <1>4, <1>5, WordsAre DEF Entry

----------------------------------------------------------------------------
(***************************************************************************)
(* Cluster chains.                                                         *)
(***************************************************************************)

\* The recursion that defines a chain is well defined, and stays in the words.
LEMMA ChainLinks ==
  ASSUME NEW m \in Media, Partitioned(m), NEW c \in Words
  PROVE  LET f == Chain(Mounted(m), m, c)
         IN  /\ f \in [Nat -> Words]
             /\ f[0] = c
             /\ \A k \in Nat : InRange(Mounted(m), f[k]) => f[k + 1] = Entry(m, f[k])
<1> DEFINE v == Mounted(m)
           step == [x \in Words |-> IF InRange(v, x) THEN Entry(m, x) ELSE 0]
           def(f) == [k \in Nat |-> IF k = 0 THEN c
                                    ELSE IF InRange(v, f[k - 1]) THEN Entry(m, f[k - 1]) ELSE 0]
           f0 == Chain(v, m, c)
<1>1. step \in [Words -> Words]
  <2>1. 0 \in Words
    BY WordsAre
  <2>2. ASSUME NEW x \in Words, InRange(v, x) PROVE Entry(m, x) \in Words
    BY <2>2, EntryWord, WordsAre
  <2>3. QED BY <2>1, <2>2
<1>2. PICK f \in [Nat -> Words] : f[0] = c /\ \A k \in Nat \ {0} : f[k] = step[f[k - 1]]
  <2> HIDE DEF step
  <2>1. QED BY <1>1, Iterated
<1>3. f = def(f)
  <2>1. ASSUME NEW k \in Nat PROVE f[k] = def(f)[k]
    <3>1. CASE k = 0
      BY <1>2, <3>1
    <3>2. CASE k # 0
      <4>1. k - 1 \in Nat /\ f[k - 1] \in Words
        BY <1>2, <3>2
      <4>2. QED BY <1>2, <3>2, <4>1
    <3>3. QED BY <3>1, <3>2
  <2>2. QED BY <1>2, <2>1
<1>4. f0 = CHOOSE g : g = def(g)
  BY DEF Chain
<1>5. f0 = def(f0)
  <2> HIDE DEF f0, def
  <2>1. QED BY <1>3, <1>4
<1> HIDE DEF f0
<1>6. f0[0] = c /\ \A k \in Nat \ {0} : f0[k] = IF InRange(v, f0[k - 1]) THEN Entry(m, f0[k - 1]) ELSE 0
  BY <1>5
<1>7. \A k \in Nat : f0[k] \in Words
  <2> DEFINE T == {k \in Nat : f0[k] \in Words}
  <2>1. 0 \in T
    BY <1>6
  <2>2. ASSUME NEW k \in Nat, k \in T PROVE k + 1 \in T
    <3>1. f0[k + 1] = IF InRange(v, f0[k]) THEN Entry(m, f0[k]) ELSE 0
      BY <1>6
    <3>2. f0[k + 1] = step[f0[k]]
      BY <2>2, <3>1
    <3>3. QED BY <1>1, <2>2, <3>2
  <2>3. Nat \subseteq T
    <3> HIDE DEF T
    <3>1. QED BY <2>1, <2>2, Upward
  <2>4. QED BY <2>3
<1>8. f0 \in [Nat -> Words]
  BY <1>5, <1>7
<1>9. ASSUME NEW k \in Nat, InRange(v, f0[k]) PROVE f0[k + 1] = Entry(m, f0[k])
  BY <1>6, <1>9
<1>10. QED BY <1>6, <1>8, <1>9 DEF f0
=============================================================================
