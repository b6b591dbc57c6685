------------------------ MODULE MCReleaseGovernance ------------------------
(* A policy of three requirements (one ordinary and lenient, one fresh and   *)
(* reviewable, one optional) over eight evidence references, decided from    *)
(* nothing; and a release with three actors, one of them the requester and   *)
(* one a colleague with the requester's key, over two decisions made before: *)
(* of two artifacts, or of one that was decided again and denied.            *)
EXTENDS ReleaseGovernance, TLC

CONSTANTS v1, v2, rita, alan, bert, carl

R(c, optional, reviewable, lenient, blocking, adapter, freshness, minimum) ==
  [category |-> c, optional |-> optional, reviewable |-> reviewable, lenient |-> lenient,
   blocking |-> blocking, adapter |-> adapter, freshness |-> freshness, minimum |-> minimum]
MCRequirements ==
  [structure |-> R("structure", FALSE, FALSE, TRUE, TRUE, FALSE, NotGiven, 2),
   signature |-> R("signature", FALSE, TRUE, FALSE, FALSE, TRUE, 0, 1),
   security |-> R("security", TRUE, FALSE, FALSE, FALSE, TRUE, NotGiven, 0)]

Good(c) == [category |-> c, notApplicable |-> FALSE, adapted |-> FALSE, meets |-> TRUE,
            available |-> TRUE, trust |-> "GOOD", observed |-> 1, limited |-> FALSE]
MCItems ==
  [s1 |-> Good("structure"), s2 |-> [Good("structure") EXCEPT !.limited = TRUE],
   s3 |-> [Good("structure") EXCEPT !.meets = FALSE, !.trust = "REVOKED"],
   g1 |-> [Good("signature") EXCEPT !.adapted = TRUE], g2 |-> [Good("signature") EXCEPT !.observed = NotGiven],
   g3 |-> [Good("signature") EXCEPT !.notApplicable = TRUE],
   c1 |-> [Good("security") EXCEPT !.trust = "BROKEN", !.adapted = TRUE],
   c2 |-> [Good("security") EXCEPT !.available = FALSE]]

MCActors == {rita, alan, bert, carl}
MCIdentity == rita :> 1 @@ alan :> 2 @@ bert :> 3 @@ carl :> 4
MCSigningKey == rita :> 1 @@ alan :> 2 @@ bert :> 1 @@ carl :> 4
MCTrustRoot == rita :> 1 @@ alan :> 1 @@ bert :> 2 @@ carl :> 2
MCAssigned == {<<alan, "APPROVER">>, <<alan, "RELEASE_MANAGER">>, <<bert, "APPROVER">>,
               <<carl, "RELEASE_MANAGER">>, <<carl, "VALIDATOR">>, <<rita, "PROMOTER">>}
MCQuorum ==
  [count |-> 2, signers |-> 1, keys |-> 0, roots |-> 0, roles |-> {"APPROVER"},
   permitted |-> {"APPROVER", "RELEASE_MANAGER"}, rejectionBlocks |-> TRUE,
   abstentions |-> FALSE, conditional |-> TRUE, signed |-> TRUE]
MCSeparation ==
  [requester |-> TRUE, producer |-> TRUE, transformer |-> TRUE, validator |-> TRUE,
   promoter |-> TRUE, independence |-> {MCIdentity}, sameRoot |-> FALSE]
MCGate == [accepted |-> {"ALLOW", "ALLOW_WITH_LIMITATIONS"}, request |-> TRUE, quorum |-> TRUE,
           separation |-> TRUE, conditions |-> TRUE]

A(by, role, until) ==
  [by |-> by, role |-> role, outcome |-> "APPROVED", until |-> until, signed |-> TRUE]
MCIssuable == {A(alan, "APPROVER", 1), A(bert, "APPROVER", NotGiven),
               [A(carl, "RELEASE_MANAGER", NotGiven) EXCEPT !.outcome = "APPROVED_WITH_CONDITIONS"]}
MCRejectable == {[by |-> carl, role |-> "RELEASE_MANAGER"]}

Dec(s, outcome) == [subject |-> s, outcome |-> outcome]
Pairs == {<<Dec(v1, "ALLOW"), Dec(v2, "ALLOW_WITH_LIMITATIONS")>>,
          <<Dec(v1, "ALLOW"), Dec(v1, "DENY")>>}
MCPriorDecisions == {<<>>} \cup Pairs

\* Collecting and deciding touch nothing that approving and promoting read but
\* the decisions: the two parts are explored one at a time, up to a promotion.
OneAtATime == requested # {} => decisions \in Pairs /\ items = {}
PartNext == promotion = NotGiven /\ GovernanceNext /\ OneAtATime'
=============================================================================
