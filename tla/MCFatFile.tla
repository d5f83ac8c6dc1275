----------------------------- MODULE MCFatFile -----------------------------
(***************************************************************************)
(* FatFile on a volume of six clusters of two two-byte sectors.            *)
(***************************************************************************)
EXTENDS FatFile, TLC

Partition(active, type, start, sectors) ==
  [active |-> active, type |-> type, start |-> start, sectors |-> sectors]

Bpb == [bytes_per_sector |-> 2, sectors_per_cluster |-> 2, reserved_sector_count |-> 1,
        num_fats |-> 2, fat_size_sectors |-> 2, root_dir_cluster |-> 2]

\* 31 is all ones: 24..31 end a chain, 23 is a bad cluster.  3 -> 5 -> end with
\* a reserved bit set; 4 is a single cluster; 6 leads to a bad cluster; 7 to
\* itself.  The FAT's last sector has entries behind the last cluster.
FatRest == [c \in 8 .. 22 |-> c + 1]
Fat == FatRest @@ (2 :> 31 @@ 3 :> 32 + 5 @@ 4 :> 24 @@ 5 :> 31 @@ 6 :> 23 @@ 7 :> 7)

File(start, size) == [start |-> start, size |-> size]

\* Two sound files, one of them a whole cluster.
Plain == {File(3, 7), File(4, 4)}

\* A file larger than its chain, one with a bad cluster, and one of half the
\* word size on a circular chain.
Damaged == {File(4, 6), File(6, 5), File(7, 33)}

Medium(signed, parts, files) ==
  [signed |-> signed, parts |-> parts, bpb |-> Bpb, fat |-> Fat, files |-> files]

Good == <<Partition(FALSE, 12, 40, 9), Partition(TRUE, 11, 3, 17), Partition(TRUE, 12, 30, 9)>>

\* Chains that lead to cluster 1 and behind the last cluster, and one that starts
\* there.
Lost(c, size, next) == [Medium(TRUE, Good, {File(c, size)}) EXCEPT !.fat[c] = next]

MCMedia == {Medium(TRUE, Good, Plain), Medium(TRUE, Good, Damaged),
            Lost(6, 5, 1), Lost(6, 5, 9), Lost(8, 7, 9),
            Medium(FALSE, Good, Plain),
            Medium(TRUE, <<Partition(TRUE, 7, 3, 18)>>, Plain)}
=============================================================================
