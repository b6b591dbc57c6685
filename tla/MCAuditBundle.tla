--------------------------- MODULE MCAuditBundle ---------------------------
(* Four events, of which a conflicting one arrives after the cutoff; two     *)
(* makers; members in two directories; and bundles that are complete,        *)
(* limited, for a purpose nothing satisfies, with only README.md as a        *)
(* member, with a misdescribed member, and with a timeline written by hand.  *)
EXTENDS AuditBundle, TLC

CONSTANTS e1, e2, g2, f2, policies, snapshot, timeline, k1, k2

MCEvents == {e1, e2, g2, f2}
MCNamespace == [e \in MCEvents |-> "ns"]
MCEpoch == [e \in MCEvents |-> IF e = g2 THEN 2 ELSE 1]
MCSequence == [e \in MCEvents |-> IF e = e1 THEN 1 ELSE 2]
MCPredecessor == [e \in MCEvents |-> IF e = e1 THEN NoEvent ELSE e1]
MCAvailableAt == [e \in MCEvents |-> IF e = f2 THEN 2 ELSE 1]
MCRevokes == {e2}
MCSupersedes == {f2}

MCMemberPaths == {policies, snapshot, timeline, Readme}
MCSchema == policies :> "policy-set" @@ snapshot :> "snapshot" @@ timeline :> "timeline"
              @@ Readme :> "other"
MCDirectories == {"top", "sub"}
MCDirectoryOf == [p \in MCMemberPaths \cup {Manifest, Readme, Temporary, Stray} |->
                    IF p \in {timeline, Stray} THEN "sub" ELSE "top"]
MCMakers == {k1, k2}

Whole == [members |-> {policies, snapshot, timeline}, purpose |-> "RELEASE",
          exclusions |-> FALSE, misdescribed |-> {}, claim |-> "BUILT"]
MCPlans ==
  {Whole,
   [Whole EXCEPT !.exclusions = TRUE],
   [Whole EXCEPT !.claim = "COMPLETE_FOR_DECLARED_RANGE"],
   [Whole EXCEPT !.members = {policies}, !.purpose = "REGULATORY_EVIDENCE_EXPORT"],
   [Whole EXCEPT !.members = {Readme}],
   [Whole EXCEPT !.members = {policies}, !.misdescribed = {policies}]}

MCEdits ==
  {<<policies, "absent">>, <<policies, "declared">>, <<snapshot, "link">>, <<Stray, "other">>}
=============================================================================
