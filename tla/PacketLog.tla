----------------------------- MODULE PacketLog -----------------------------
(***************************************************************************)
(* What a muxer promises about the frames it accepts, whatever it does     *)
(* about Clusters, laces and indexes: the file holds a prefix of the       *)
(* accepted frames in the order they were accepted, never more than Slack  *)
(* of them are missing (what a crash loses), none once it is closed.       *)
(***************************************************************************)
EXTENDS Naturals, Sequences

CONSTANT Slack     \* a natural number

VARIABLES log,     \* the accepted frames
          disk,    \* the frames a reader of the output finds
          closed   \* the trailer is written

logVars == <<log, disk, closed>>

PrefixOf(s, t) == Len(s) <= Len(t) /\ s = SubSeq(t, 1, Len(s))

LogInit == log = <<>> /\ disk = <<>> /\ closed = FALSE

\* The output grows along the log, to at most Slack frames of its end.
Persist == PrefixOf(disk, disk') /\ PrefixOf(disk', log') /\ Len(log') - Len(disk') <= Slack

AcceptFrame == /\ ~closed
               /\ Len(log') = Len(log) + 1 /\ PrefixOf(log, log')
               /\ Persist
               /\ UNCHANGED closed

Flush == ~closed /\ Persist /\ UNCHANGED <<log, closed>>

Close == ~closed /\ closed' = TRUE /\ disk' = log /\ UNCHANGED log

LogNext == AcceptFrame \/ Flush \/ Close

LogSpec == LogInit /\ [][LogNext]_logVars
=============================================================================
