-------------------------------- MODULE MCTrust --------------------------------
(* Trust verification, the propagation of a revocation, and audit bundles in   *)
(* one run, one at a time: focus says which one works while the others rest in *)
(* an initial state.                                                           *)
EXTENDS MCTrustVerification, MCRevocationPropagation, MCAuditBundle

VARIABLE focus
theirVars == <<focus, trustVars, vars, auditVars>>

SomeInput == CHOOSE i \in Inputs : TRUE
NoVerification ==
  bundle = SomeInput.bundle /\ envelope = SomeInput.envelope /\ policy = SomeInput.policy
NoPropagation ==
  out \in {CHOOSE g \in Graphs : TRUE} /\ target = n1 /\ authorized = FALSE /\ snapshots = 0

AllInit ==
  /\ focus \in {"verification", "propagation", "bundle"}
  /\ focus = "verification" \/ NoVerification
  /\ focus = "propagation" \/ NoPropagation
  /\ TrustInit /\ Init /\ AuditInit

AllNext ==
  \/ focus = "verification" /\ TrustNext /\ UNCHANGED <<focus, vars, auditVars>>
  \/ focus = "propagation" /\ Next /\ UNCHANGED <<focus, trustVars, auditVars>>
  \/ focus = "bundle" /\ AuditNext /\ UNCHANGED <<focus, trustVars, vars>>

\* The fairness of FairTrustSpec and FairSpec, for the one at work.
AllSpec ==
  /\ AllInit /\ [][AllNext]_theirVars
  /\ WF_theirVars(focus = "verification" /\ VerifyEnvelope /\ UNCHANGED <<focus, vars, auditVars>>)
  /\ WF_theirVars(focus = "propagation" /\ Walk /\ UNCHANGED <<focus, trustVars, auditVars>>)

\* verify_envelope comes to an end, also over delegations that go round (TrustEnds,
\* for the verification at work).
VerificationEnds == focus = "verification" => TrustEnds

\* propagate_revocation comes to an end, also over edges that go round (Ends of
\* RevocationPropagation, for the propagation at work).
PropagationEnds == focus = "propagation" => Ends
=============================================================================
