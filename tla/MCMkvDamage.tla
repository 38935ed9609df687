---------------------------- MODULE MCMkvDamage ----------------------------
(***************************************************************************)
(* The files of MCMkvDemux with damage: on every cell in turn, on every    *)
(* pair of cells, in the header and the lacing of every Block, and a cut   *)
(* after every cell.  The header of the first Cluster is spared: opening   *)
(* finds another first Cluster where it is damaged.                        *)
(***************************************************************************)
EXTENDS MCMkvDemux

Damaged(f, at) ==
  [f EXCEPT !.cells = [i \in DOMAIN @ |-> IF i - 1 \in at THEN NoElement ELSE @[i]],
            !.clusters = @ \ at, !.intact = FALSE]

\* Every cell damaged in turn, every pair of cells, every Block's header or
\* lacing, every place to cut the file.
Damaging(f, i) == [p \in {i} \X (1 .. InputLen(f) - 1) |-> Damaged(f, {p[2]})]
DamagingTwice(f, i) ==
  [p \in {p \in {i} \X (1 .. InputLen(f) - 1) \X (1 .. InputLen(f) - 1) : p[2] <= p[3]} |->
     Damaged(f, {p[2], p[3]})]
BadBlocks(f) ==
  [p \in {"Header", "Lacing"}
         \X {i \in DOMAIN f.cells : f.cells[i].id \in {"SimpleBlock", "Block"}} |->
     [f EXCEPT !.cells[p[2]].defect = p[1], !.intact = FALSE]]
CutShort(f) ==
  [p \in {"cut"} \X (3 .. InputLen(f) - 1) |->
     [f EXCEPT !.cells = SubSeq(@, 1, p[2]), !.intact = FALSE,
               !.clusters = {c \in @ : c < p[2]}]]

\* A cell overwritten with what parses as a Void of n cells.
Garbled(f, n) ==
  [p \in {"garbled"} \X {n} \X (2 .. InputLen(f)) |->
     [f EXCEPT !.cells[p[3]] = [id |-> "Void", size |-> n], !.clusters = @ \ {p[3] - 1},
               !.intact = FALSE, !.garbled = TRUE]]

DamagedFiles ==
  DamagingTwice(Plain, "plain") @@ Damaging(FileOf(Imitating, <<>>), "imitating")
  @@ Damaging(Unsized, "unsized") @@ CutShort(Plain) @@ BadBlocks(Plain)
  @@ Garbled(Plain, Unknown) @@ Garbled(Plain, 99)

\* Read strictly: intact files, a cue into a Block and one to damage.
Strict(files) == [n \in DOMAIN files |-> [files[n] EXCEPT !.resilient = FALSE]]
StrictFiles ==
  Strict([p \in {"strict"} \X DOMAIN CleanFiles |-> CleanFiles[p[2]]]
         @@ [p \in {"cue"} \X {1} |-> WithCues(<<Cue(1, 5, 4, None, 2), Cue(2, 5, At[3], None, 1)>>)]
         @@ [p \in {"plain"} \X (At[3] .. At[4]) |-> Damaged(Plain, {p[2]})] @@ BadBlocks(Plain))
IntactFiles ==
  [p \in {"clean"} \X DOMAIN CleanFiles |-> CleanFiles[p[2]]]
  @@ [p \in {"lying"} \X DOMAIN LyingFiles |-> LyingFiles[p[2]]]
  @@ [p \in {"unsorted"} \X DOMAIN UnsortedFiles |-> UnsortedFiles[p[2]]]
  @@ StrictFiles
TwiceReadFiles == Damaging(FileOf(<<Short(0), Short(4), Short(8), Short(12)>>, <<>>), "short")
=============================================================================
