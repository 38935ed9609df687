---------------------------- MODULE PacketReader ----------------------------
(***************************************************************************)
(* What a demuxer promises about an intact file, whatever it does about    *)
(* Clusters, BlockGroups and Tags: from where it was last positioned it    *)
(* hands out every packet, once and in storage order, and reports the end  *)
(* exactly when nothing is left.                                           *)
(***************************************************************************)
EXTENDS Naturals, Sequences

VARIABLES all,     \* the packets stored from the last landing on
          out,     \* those handed out since
          ended    \* the end was reported

readerVars == <<all, out, ended>>

ReaderInit == out = <<>> /\ ~ended

Deliver == /\ Len(out) < Len(all)
           /\ out' = Append(out, all[Len(out) + 1])
           /\ ended' = FALSE
           /\ UNCHANGED all

End == out = all /\ ended' = TRUE /\ UNCHANGED <<all, out>>

Reposition == out' = <<>> /\ ~ended'

ReaderSpec == ReaderInit /\ [][Deliver \/ End \/ Reposition]_readerVars
=============================================================================
