--------------------------- MODULE MkvHeaderProps ---------------------------
(***************************************************************************)
(* What a written header promises, judged by the crate's own validators.   *)
(***************************************************************************)
EXTENDS MkvHeaderInv, MkvValidate

\* Fields whose schema range no setter checks.
UncheckedRanges ==
  {"BlockAddIDValue", "GammaValue", "FrameRate", "CodecDecodeAll", "TrickTrackFlag",
   "LuminanceMax", "ProjectionPoseYaw"}

Tolerated == {"OutOfRange"} \X UncheckedRanges

\* The elements of a version 5 of the schema that occur in the file.
NewIn(doc) == {f \in Validate(doc).findings : f[1] = "VersionMismatch"}
AsVersion4(doc) == [doc EXCEPT ![1] = [@ EXCEPT !.kids =
                      [k \in DOMAIN @ |-> IF @[k].id = "DocTypeVersion"
                                          THEN UintElement("DocTypeVersion", 4) ELSE @[k]]]]

-----------------------------------------------------------------------------
\* Whatever was configured, the schema validator finds nothing wrong with the
\* header but values of fields whose range no setter checks: every element in
\* its master, none too often, none of the mandatory ones missing.
HeaderIsLegal ==
  written => \A rep \in {Validate(file)} : Violations(rep) \subseteq Tolerated /\ ~rep.stopped

\* README.md:1245: strict WebM output is conformant.  So it is as long as no
\* UncompressedFourCC is set, which no guard keeps out.
StrictIsConformant ==
  written /\ profile.strict /\ (\A t \in Streams : ~Has(hints[t], "fourcc"))
    => IsConformant(Scan(file))

\* The header announces version 5 exactly when it has to, and no live Tag
\* brings an element into the stream that its header does not announce.
VersionIsAnnounced ==
  written => /\ NewIn(file) = {}
             /\ emittedVersion = 5 <=> NewIn(AsVersion4(file)) # {}
=============================================================================
