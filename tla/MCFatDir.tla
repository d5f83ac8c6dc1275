------------------------------ MODULE MCFatDir ------------------------------
(***************************************************************************)
(* FatDir on a volume of three clusters of two sectors of two entries: a   *)
(* root directory of two clusters and a subdirectory that fills one.       *)
(***************************************************************************)
EXTENDS FatDir, TLC

Blank == [kind |-> "end", ord |-> 0, last |-> FALSE, sum |-> 0, piece |-> Junk,
          name |-> <<>>, full |-> <<>>, ck |-> 0, dir |-> FALSE, label |-> FALSE,
          start |-> 0, size |-> 0]
Deleted == [Blank EXCEPT !.kind = "deleted"]
Lfn(ord, last, sum, piece) ==
  [Blank EXCEPT !.kind = "lfn", !.ord = ord, !.last = last, !.sum = sum, !.piece = piece]
Named(name, ck, start) ==
  [Blank EXCEPT !.kind = "sfn", !.name = <<name>>, !.full = <<name>>, !.ck = ck,
                !.start = start, !.size = 1]
Dir(name, start) == [Named(name, 7, start) EXCEPT !.dir = TRUE]
Label == [Named("VOL", 3, 0) EXCEPT !.label = TRUE]
Long(name, full, ck, start) == [Named(name, ck, start) EXCEPT !.full = full]

\* Cluster 4, the subdirectory BIN, has no end mark.
Bin == (9 :> <<Named("X", 1, 11), Named("B", 2, 12)>>
     @@ 10 :> <<Named("C", 3, 13), Named("D", 4, 14)>>)

\* An entry behind the end mark is left over from before.
Short == (5 :> <<Label, Named("A", 5, 20)>> @@ 6 :> <<Deleted, Dir("BIN", 4)>>
       @@ 7 :> <<Named("B", 6, 21), Named("A", 8, 22)>> @@ 8 :> <<Blank, Named("Z", 9, 23)>>)

\* A long name, an orphan LFN entry, one out of range, and a long name whose
\* short name has checksum 0.
WithLong == (5 :> <<Lfn(2, TRUE, 9, "ng"), Lfn(1, FALSE, 9, "lo")>>
          @@ 6 :> <<Long("LO~1", <<"lo", "ng">>, 9, 24), Lfn(1, FALSE, 5, "or")>>
          @@ 7 :> <<Named("A", 5, 25), Lfn(0, FALSE, 5, "x")>>
          @@ 8 :> <<Dir("BIN", 4), Blank>>)

Bpb == [bytes_per_sector |-> 64, sectors_per_cluster |-> 2, reserved_sector_count |-> 1,
        num_fats |-> 1, fat_size_sectors |-> 1, root_dir_cluster |-> 2]

Medium(sectors) ==
  [signed |-> TRUE, bpb |-> Bpb, dirs |-> {2, 4},
   sectors |-> sectors @@ Bin @@ [l \in Words |-> <<Blank, Blank>>],
   parts |-> <<[active |-> TRUE, type |-> 12, start |-> 3, sectors |-> 8]>>,
   subdirs |-> {4}, fat |-> (2 :> 3 @@ 3 :> 31 @@ 4 :> 30)]

\* BIN's chain leads back to itself; nobody lists it.
Looped == [Medium(Short) EXCEPT !.fat[4] = 4, !.dirs = {2}]

MCMedia == {Medium(Short), Medium(WithLong), Looped}

MCPaths == {<< <<"A">> >>, << <<>>, <<"BIN">>, <<"B">> >>, << <<"BIN">>, <<"Z">> >>,
            << <<"BIN">>, <<>> >>, << <<"A">>, <<"X">> >>, << <<"BIN">> >>,
            << <<"BIN">>, <<>>, <<"D">> >>, << <<"Z">> >>, << <<"lo", "ng">> >>}
=============================================================================
