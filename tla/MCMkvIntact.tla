---------------------------- MODULE MCMkvIntact ----------------------------
(***************************************************************************)
(* The files of MCMkvDamage that the run demux_intact reads, with a look   *)
(* at what MkvDemuxInv means by an intact file.                            *)
(***************************************************************************)
EXTENDS MCMkvDamage, MkvDemuxInv

\* The files written without damage are what the theorems call intact.
ASSUME IntactFilesAreWellFormed == \A n \in DOMAIN Files : Files[n].intact => WellFormed(Files[n])

\* A search finds its way in them, and to what was asked for.
ASSUME IntactFilesAreSearchable ==
  \A n \in DOMAIN Files : Files[n].intact => Searchable(Files[n]) /\ Timely(Files[n])
=============================================================================
