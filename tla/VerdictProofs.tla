----------------------------- MODULE VerdictProofs -----------------------------
(***************************************************************************)
(* What three components promise of the verdicts they reach, for any       *)
(* evidence, policy and bounds: on a running instance (RuntimeContinuity), *)
(* on a release (ReleaseGovernance) and on the signatures of an envelope   *)
(* (TrustVerification).  The three share no state; each has its section.   *)
(***************************************************************************)
EXTENDS RuntimeContinuity, ReleaseGovernance, TrustVerification, Descent,
        FiniteSetTheorems, TLAPS

(***************************************************************************)
(* RuntimeContinuity: what a verdict says of members and evidence.         *)
(*                                                                         *)
(* The invariant is TypeOK with the two properties themselves: neither the *)
(* observation nor the policy changes under a result, so all that is left  *)
(* is the step that makes one.  There the chain of conditions says which   *)
(* of them cannot have held (Earlier), and together with what an honest    *)
(* observer records these give the properties (PassEarned, Intact).        *)
(***************************************************************************)

\* The verdict of each condition, by its place in the evaluation.
VerdictAt ==
  <<"EVIDENCE_BROKEN", "REPLAY_REJECTED", "DRIFT_DETECTED", "OBSERVER_UNAUTHORIZED",
    "DEPLOYMENT_UNVERIFIED", "OBSERVER_UNTRUSTED", "DEPLOYMENT_UNVERIFIED",
    "COVERAGE_INCOMPLETE", "STALE", "NOT_OBSERVED", "NOT_EVALUATED", "NOT_EVALUATED",
    "OBSERVER_UNTRUSTED", "PARTIAL_CONTINUITY", "OBSERVER_UNAUTHORIZED",
    "PARTIAL_CONTINUITY", "IDENTITY_PROXY_MATCH", "PARTIAL_CONTINUITY",
    "PASS_WITH_LIMITATIONS", "PASS">>

\* The chain has twenty conditions, each with its verdict.
LEMMA ChainVerdicts ==
  ASSUME NEW m, NEW r, NEW p, NEW at
  PROVE  /\ Len(Chain(m, r, p, at)) = 20
         /\ \A i \in 1..20 : Chain(m, r, p, at)[i].verdict = VerdictAt[i]
BY DEF Chain, VerdictAt

\* Every verdict is one that the policy's precedence lists.
LEMMA VerdictsListed == \A i \in 1..20 : VerdictAt[i] \in Verdicts
<1>1. Verdicts = {"EVIDENCE_BROKEN", "REPLAY_REJECTED", "MISMATCH", "DRIFT_DETECTED",
        "OBSERVER_UNAUTHORIZED", "OBSERVER_UNTRUSTED", "DEPLOYMENT_UNVERIFIED",
        "COVERAGE_INCOMPLETE", "STALE", "NOT_OBSERVED", "NOT_EVALUATED",
        "IDENTITY_PROXY_MATCH", "PARTIAL_CONTINUITY", "PASS_WITH_LIMITATIONS", "PASS"}
  BY DEF Verdicts, Precedence
<1> QED BY <1>1 DEF VerdictAt

\* A verdict that comes late in the chain means that what comes before it did
\* not hold: for a reviewable one the first six conditions, for PASS all.
LEMMA Earlier ==
  ASSUME NEW m, NEW r, NEW p, NEW at, NEW i \in 1..Len(Chain(m, r, p, at)),
         Decides(Chain(m, r, p, at), i)
  PROVE  /\ VerdictAt[i] \in Reviewable \cup {"PASS"} =>
              /\ ~Broken(m, r, p) /\ ~Replayed(m, p) /\ ~Drift
              /\ ~Fails({"observer_authority"}) /\ ~Fails({"deployment_authority"})
              /\ ~Fails({"untrusted"})
         /\ VerdictAt[i] = "PASS" =>
              /\ ~Fails({"deployment_strength", "deployment_unsigned",
                         "deployment_status"})
              /\ Covered /\ Current(at)
              /\ ~Fails({"observation_status"}) /\ ~Fails({"limited_security"})
              /\ profile # "regulated"
              /\ ~Fails({"observation_unsigned"}) /\ ~Fails({"observation_strength"})
              /\ ~Fails({"same_actor", "same_signer", "same_key", "same_root"})
              /\ ~Fails({"uncorroborated"})
              /\ ~Proxy /\ ~OptionalUnobserved /\ profile # "air_gapped"
<1>0. Len(Chain(m, r, p, at)) = 20
  BY ChainVerdicts
<1>1. i \in 1..20
  BY <1>0
<1>2. \A j \in 1..(i - 1) : ~Chain(m, r, p, at)[j].holds
  BY DEF Decides
<1>3. VerdictAt[i] \in Reviewable \cup {"PASS"} => i > 8
  BY <1>1 DEF VerdictAt, Reviewable
<1>4. VerdictAt[i] = "PASS" => i = 20
  BY <1>1 DEF VerdictAt
<1>5. ASSUME i > 8
      PROVE  /\ ~Broken(m, r, p) /\ ~Replayed(m, p) /\ ~Drift
             /\ ~Fails({"observer_authority"}) /\ ~Fails({"deployment_authority"})
             /\ ~Fails({"untrusted"})
  <2>1. \A j \in 1..6 : ~Chain(m, r, p, at)[j].holds
    BY <1>1, <1>2, <1>5
  <2> QED BY <2>1 DEF Chain
<1>6. ASSUME i = 20
      PROVE  /\ ~Fails({"deployment_strength", "deployment_unsigned",
                        "deployment_status"})
             /\ Covered /\ Current(at)
             /\ ~Fails({"observation_status"}) /\ ~Fails({"limited_security"})
             /\ profile # "regulated"
             /\ ~Fails({"observation_unsigned"}) /\ ~Fails({"observation_strength"})
             /\ ~Fails({"same_actor", "same_signer", "same_key", "same_root"})
             /\ ~Fails({"uncorroborated"})
             /\ ~Proxy /\ ~OptionalUnobserved /\ profile # "air_gapped"
  <2>1. \A j \in 7..19 : j \in 1..(i - 1)
    BY <1>6
  <2>2. \A j \in 7..19 : ~Chain(m, r, p, at)[j].holds
    BY <1>2, <2>1
  <2>3. /\ ~Fails({"deployment_strength", "deployment_unsigned",
                    "deployment_status"})
        /\ Covered /\ Current(at)
        /\ ~Fails({"observation_status"}) /\ ~Fails({"limited_security"})
        /\ profile # "regulated"
    <3>1. ~Chain(m, r, p, at)[7].holds /\ ~Chain(m, r, p, at)[8].holds
          /\ ~Chain(m, r, p, at)[9].holds /\ ~Chain(m, r, p, at)[10].holds
          /\ ~Chain(m, r, p, at)[11].holds /\ ~Chain(m, r, p, at)[12].holds
      BY <2>2
    <3> QED BY <3>1 DEF Chain
  <2>4. /\ ~Fails({"observation_unsigned"}) /\ ~Fails({"observation_strength"})
        /\ ~Fails({"same_actor", "same_signer", "same_key", "same_root"})
        /\ ~Fails({"uncorroborated"})
        /\ ~Proxy /\ ~OptionalUnobserved /\ profile # "air_gapped"
    <3>1. ~Chain(m, r, p, at)[13].holds /\ ~Chain(m, r, p, at)[14].holds
          /\ ~Chain(m, r, p, at)[15].holds /\ ~Chain(m, r, p, at)[16].holds
          /\ ~Chain(m, r, p, at)[17].holds /\ ~Chain(m, r, p, at)[18].holds
          /\ ~Chain(m, r, p, at)[19].holds
      BY <2>2
    <3> QED BY <3>1 DEF Chain
  <2> QED BY <2>3, <2>4
<1> QED BY <1>3, <1>4, <1>5, <1>6

\* An observation is of a deployment, and its observer was truthful.
LEMMA EvidenceOf ==
  ASSUME TypeOK, observation # None
  PROVE  /\ observation.evidence \in EvidenceRecord /\ Truthful(observation.evidence)
         /\ observation.instance \in 1..MaxInstances
         /\ observation.sequence \in 1..MaxSequence
         /\ observation.plan \in Plans
BY EvidenceAssumption DEF TypeOK, Observations

\* An observation that shows no difference: what was observed is as declared.
LEMMA NoDifference ==
  ASSUME TypeOK, observation # None, ~Drift
  PROVE  LET e == observation.evidence
         IN  e.wrong \cap (e.values \cup {m \in Members : e.method[m] = "direct"}) = {}
<1> DEFINE e == observation.evidence
<1>1. Truthful(e) /\ e.differs = {} /\ e \in EvidenceRecord
  BY EvidenceOf DEF Drift
<1>2. e.wrong \cap e.values = {}
  BY <1>1 DEF Truthful, EvidenceRecord
<1>3. \A m \in Members : e.method[m] = "direct" => m \notin e.wrong
  BY <1>1 DEF Truthful
<1> QED BY <1>2, <1>3

\* What PASS requires of the evidence, for the evaluation of a PASS.
LEMMA PassEarned ==
  ASSUME TypeOK, observation # None,
         NEW m \in 1..MaxInstances, NEW r, NEW p \in Plans, NEW at \in 1..MaxSequence,
         NEW i \in 1..Len(Chain(m, r, p, at)), Decides(Chain(m, r, p, at), i),
         VerdictAt[i] = "PASS"
  PROVE  LET e == observation.evidence
         IN  /\ observation.instance = m
             /\ observation.plan = [instance |-> m, expected |-> observation.sequence]
             /\ at - observation.sequence \in 0..MaxAge
             /\ e.wrong \cap (e.values \cup RequiredBy[profile]) = {}
             /\ \A x \in Members : \/ e.method[x] = "direct" /\ x \notin e.wrong
                                   \/ e.method[x] = "none" /\ x \notin Optional
             /\ e.flaws \cap Unacceptable[profile] = {}
             /\ profile \notin {"air_gapped", "regulated"}
<1> DEFINE e == observation.evidence
<1>1. /\ e \in EvidenceRecord /\ Truthful(e) /\ observation.plan \in Plans
      /\ profile \in Profiles
  BY EvidenceOf DEF TypeOK
<1>2. ~Broken(m, r, p) /\ ~Replayed(m, p) /\ ~Drift
  BY Earlier
<1>3. observation.instance = m /\ observation.plan = p /\ p.instance = m
  BY <1>2 DEF Broken
<1>4. observation.plan = [instance |-> m, expected |-> observation.sequence]
  BY <1>1, <1>2, <1>3 DEF Replayed, Plans
<1>5. at - observation.sequence \in 0..MaxAge
  BY Earlier DEF Current
<1>6. e.wrong \cap e.values = {} /\ \A x \in Members : e.method[x] = "direct" => x \notin e.wrong
  BY <1>2, NoDifference
<1>7. RequiredBy[profile] \cap Values \subseteq e.values
  BY Earlier DEF Covered
<1>8. e.wrong \cap RequiredBy[profile] = {}
  <2>1. e.wrong \subseteq Members \cup Values \cup {"unexpected"}
    BY <1>1 DEF EvidenceRecord
  <2>2. RequiredBy[profile] \subseteq Dimensions
    BY <1>1 DEF RequiredBy, Dimensions, Values
  <2>3. Members \cap Dimensions = {} /\ "unexpected" \notin Dimensions
    BY MembersAssumption DEF Dimensions, Values
  <2> QED BY <1>6, <1>7, <2>1, <2>2, <2>3 DEF Dimensions, Values
<1>9. \A x \in Members : \/ e.method[x] = "direct" /\ x \notin e.wrong
                         \/ e.method[x] = "none" /\ x \notin Optional
  <2>1. ~Proxy /\ ~OptionalUnobserved
    BY Earlier
  <2>2. \A x \in Members : e.method[x] \in {"direct", "proxy", "none"}
    BY <1>1 DEF EvidenceRecord
  <2>3. Optional \subseteq Members
    BY MembersAssumption
  <2> QED BY <1>6, <2>1, <2>2, <2>3 DEF Proxy, OptionalUnobserved
<1>10. e.flaws \cap Unacceptable[profile] = {}
  <2>1. "context" \notin e.flaws
    BY <1>2 DEF Replayed
  <2>2. \A f \in {"observer_authority", "deployment_authority", "untrusted",
          "deployment_strength", "deployment_unsigned", "deployment_status",
          "observation_status", "limited_security", "observation_unsigned",
          "observation_strength", "same_actor", "same_signer", "same_key",
          "same_root", "uncorroborated"} : f \notin e.flaws \cap Unacceptable[profile]
    BY Earlier DEF Fails
  <2>3. Unacceptable[profile] \subseteq Flaws
    BY <1>1 DEF Unacceptable, Flaws
  <2> QED BY <2>1, <2>2, <2>3 DEF Flaws
<1>11. profile \notin {"air_gapped", "regulated"}
  BY Earlier
<1> QED BY <1>3, <1>4, <1>5, <1>6, <1>8, <1>9, <1>10, <1>11

\* What a reviewable verdict requires of the evidence.
LEMMA Intact ==
  ASSUME TypeOK, observation # None,
         NEW m \in 1..MaxInstances, NEW r, NEW p \in Plans, NEW at \in 1..MaxSequence,
         NEW i \in 1..Len(Chain(m, r, p, at)), Decides(Chain(m, r, p, at), i),
         VerdictAt[i] \in Reviewable
  PROVE  LET e == observation.evidence
         IN  /\ observation.instance = m
             /\ observation.plan.expected = observation.sequence
             /\ e.wrong \cap (e.values \cup {x \in Members : e.method[x] = "direct"}) = {}
             /\ e.flaws \cap Unacceptable[profile] \cap
                  {"observer_authority", "deployment_authority", "untrusted"} = {}
<1>1. /\ ~Broken(m, r, p) /\ ~Replayed(m, p) /\ ~Drift
      /\ ~Fails({"observer_authority"}) /\ ~Fails({"deployment_authority"})
      /\ ~Fails({"untrusted"})
  BY Earlier
<1>2. observation.instance = m /\ observation.plan = p /\ p.expected = observation.sequence
  BY <1>1 DEF Broken, Replayed
<1>3. observation.evidence.flaws \cap Unacceptable[profile] \cap
        {"observer_authority", "deployment_authority", "untrusted"} = {}
  BY <1>1 DEF Fails
<1> QED BY <1>1, <1>2, <1>3, NoDifference
-----------------------------------------------------------------------------
IInv == TypeOK /\ PassIsEarned /\ ReviewableIsIntact

\* Nothing was evaluated at first.
LEMMA InitIInv == Init => IInv
BY BoundsAssumption DEF Init, IInv, TypeOK, PassIsEarned, ReviewableIsIntact, Is

\* Deployments and observations come before results or leave them alone, and an
\* evaluation yields what the chain decides.
LEMMA NextIInv == IInv /\ [Next]_vars => IInv'
<1> SUFFICES ASSUME IInv, [Next]_vars PROVE IInv'
  OBVIOUS
<1>1. CASE Redeploy
  <2>1. TypeOK'
    BY <1>1, BoundsAssumption DEF Redeploy, IInv, TypeOK
  <2> QED BY <1>1, <2>1 DEF Redeploy, IInv, PassIsEarned, ReviewableIsIntact, Is
<1>2. CASE Observe
  <2>1. result = None /\ result' = None
    BY <1>2 DEF Observe, IInv, TypeOK
  <2>2. PICK e \in Evidence, p \in Plans, s \in 1..MaxSequence :
          observation' = [evidence |-> e, instance |-> instance, plan |-> p, sequence |-> s]
    BY <1>2 DEF Observe
  <2>3. TypeOK'
    BY <1>2, <2>1, <2>2 DEF Observe, IInv, TypeOK, Observations
  <2> QED BY <2>1, <2>3 DEF IInv, PassIsEarned, ReviewableIsIntact, Is
<1>3. CASE Evaluate
  <2>1. /\ observation # None /\ observation' = observation
        /\ profile' = profile /\ instance' = instance
    BY <1>3 DEF Evaluate
  <2>2. PICK m \in 1..instance, r \in 1..instance, p \in Plans, at \in 1..MaxSequence :
          \E i \in 1..Len(Chain(m, r, p, at)) :
            /\ Decides(Chain(m, r, p, at), i)
            /\ result' = [verdict |-> Chain(m, r, p, at)[i].verdict,
                          instance |-> m, at |-> at]
    BY <1>3 DEF Evaluate
  <2>3. PICK i \in 1..Len(Chain(m, r, p, at)) :
          /\ Decides(Chain(m, r, p, at), i)
          /\ result' = [verdict |-> Chain(m, r, p, at)[i].verdict,
                        instance |-> m, at |-> at]
    BY <2>2
  <2>4. Len(Chain(m, r, p, at)) = 20
        /\ \A k \in 1..20 : Chain(m, r, p, at)[k].verdict = VerdictAt[k]
    BY ChainVerdicts
  <2>5. i \in 1..20 /\ result'.verdict = VerdictAt[i] /\ result'.instance = m
        /\ result'.at = at
    BY <2>3, <2>4
  <2>6. TypeOK /\ m \in 1..MaxInstances
    BY BoundsAssumption DEF IInv, TypeOK
  <2>7. TypeOK'
    <3>1. VerdictAt[i] \in Verdicts
      BY <2>4, <2>5, VerdictsListed
    <3>2. result' \in [verdict : Verdicts, instance : 1..MaxInstances, at : 1..MaxSequence]
      BY <2>3, <2>4, <2>5, <2>6, <3>1
    <3> QED BY <2>1, <2>6, <3>2 DEF TypeOK
  <2>8. PassIsEarned'
    <3> SUFFICES ASSUME VerdictAt[i] = "PASS" PROVE PassIsEarned'
      BY <2>5 DEF PassIsEarned, Is
    <3> QED BY <2>1, <2>3, <2>5, <2>6, PassEarned DEF PassIsEarned
  <2>9. ReviewableIsIntact'
    <3> SUFFICES ASSUME VerdictAt[i] \in Reviewable PROVE ReviewableIsIntact'
      BY <2>5 DEF ReviewableIsIntact, Is
    <3> QED BY <2>1, <2>3, <2>5, <2>6, Intact DEF ReviewableIsIntact
  <2> QED BY <2>7, <2>8, <2>9 DEF IInv
<1>4. CASE UNCHANGED vars
  BY <1>4 DEF vars, IInv, TypeOK, PassIsEarned, ReviewableIsIntact, Is
<1> QED BY <1>1, <1>2, <1>3, <1>4 DEF Next

\* The invariant holds always.
LEMMA Invariance == Spec => []IInv
BY InitIInv, NextIInv, PTL DEF Spec

\* Types, and every result is of an observation.
THEOREM TypeCorrect == Spec => []TypeOK
<1>1. IInv => TypeOK
  BY DEF IInv
<1> QED BY <1>1, Invariance, PTL

\* PASS means that this instance was looked at, recently, and found as declared
\* wherever the policy requires it, by somebody the policy has nothing against.
THEOREM PassIsEarnedHolds == Spec => []PassIsEarned
<1>1. IInv => PassIsEarned
  BY DEF IInv
<1> QED BY <1>1, Invariance, PTL

\* Evidence of another instance, evidence that shows a difference and evidence
\* without authority or trust are never just reviewable.
THEOREM ReviewableIsIntactHolds == Spec => []ReviewableIsIntact
<1>1. IInv => ReviewableIsIntact
  BY DEF IInv
<1> QED BY <1>1, Invariance, PTL

-----------------------------------------------------------------------------
(***************************************************************************)
(* ReleaseGovernance.  A satisfied requirement rests on evidence; the      *)
(* quorum is a function of the records, of which none is ever taken back;  *)
(* and what a promotion looked at was so of the records when it was        *)
(* computed.                                                               *)
(***************************************************************************)

(***************************************************************************)
(* The policy decision.                                                    *)
(***************************************************************************)
\* What is satisfied, with limitations or without, rests on evidence.
LEMMA SatisfiedRests ==
  ASSUME NEW r \in DOMAIN Requirements, NEW time,
         RequirementOutcome(r, items, time) \in {"SATISFIED", "SATISFIED_WITH_LIMITATIONS"},
         items \subseteq DOMAIN Items, time # NotGiven => time \in Int
  PROVE  RestsOnEvidence(r, time)
<1> DEFINE accepted == Meeting(r, items)
<1>1. \A i \in Matches(r, items) : Items[i] \in ItemTypes
  BY GovernanceAssumption DEF Matches
<1>2. \A i \in Matches(r, items) : Items[i].available /\ Items[i].trust = "GOOD"
  BY <1>1 DEF RequirementOutcome, ItemTypes
<1>3. Requirements[r].adapter => \E i \in Matches(r, items) : Items[i].adapted
  BY DEF RequirementOutcome
<1>4. Measured(r, items, time) \in {"SATISFIED", "SATISFIED_WITH_LIMITATIONS"}
  BY DEF RequirementOutcome
<1>5. accepted # {} /\ ~(Requirements[r].minimum > Cardinality(accepted))
  BY <1>4 DEF Measured
<1>6. Requirements[r].freshness # NotGiven =>
        time # NotGiven /\ \A i \in accepted :
          /\ Items[i].observed # NotGiven
          /\ ~(time - Items[i].observed > Requirements[r].freshness)
  BY <1>4 DEF Measured
<1>7. Requirements[r] \in RequirementTypes
  BY GovernanceAssumption
<1>8. Cardinality(accepted) >= Requirements[r].minimum
  <2>1. IsFiniteSet(accepted)
    BY FS_Subset, GovernanceAssumption DEF Meeting, Matches
  <2>2. Cardinality(accepted) \in Nat
    BY <2>1, FS_CardinalityType
  <2> QED BY <1>5, <1>7, <2>2 DEF RequirementTypes
<1>9. Requirements[r].freshness # NotGiven =>
        \A i \in accepted : time - Items[i].observed <= Requirements[r].freshness
  <2> SUFFICES ASSUME Requirements[r].freshness # NotGiven, NEW i \in accepted
               PROVE  time - Items[i].observed <= Requirements[r].freshness
    OBVIOUS
  <2>1. Requirements[r].freshness \in Nat /\ time \in Int
    BY <1>6, <1>7 DEF RequirementTypes
  <2>2. Items[i].observed \in Nat
    BY <1>1, <1>6 DEF Meeting, ItemTypes, Days
  <2> QED BY <1>6, <2>1, <2>2
<1> QED BY <1>2, <1>3, <1>5, <1>6, <1>8, <1>9 DEF RestsOnEvidence

\* A policy that allows found every requirement that is not optional
\* satisfied, if need be with limitations, or declared not applicable.
LEMMA AllowedIsSatisfied ==
  ASSUME NEW time, NEW collected, NEW r \in DOMAIN Requirements, ~Requirements[r].optional,
         DecisionOutcome(collected, time) \in {"ALLOW", "ALLOW_WITH_LIMITATIONS"}
  PROVE  RequirementOutcome(r, collected, time) \in
           {"SATISFIED", "SATISFIED_WITH_LIMITATIONS", "NOT_APPLICABLE"}
<1> DEFINE outcome == RequirementOutcome(r, collected, time)
<1>1. ~Blocks(r, outcome)
  BY DEF DecisionOutcome
<1>2. ~(Requirements[r].reviewable /\ outcome \notin {"SATISFIED", "NOT_APPLICABLE"})
  BY DEF DecisionOutcome
<1> QED BY <1>1, <1>2 DEF Blocks

LEMMA OnlyDeclared ==
  ASSUME NEW r, NEW collected, NEW time,
         RequirementOutcome(r, collected, time) = "NOT_APPLICABLE"
  PROVE  \E i \in Matches(r, collected) : Items[i].notApplicable
BY DEF RequirementOutcome, Measured

LEMMA AllowedRests == GovernanceTypeOK => AllowedRestsOnEvidence
<1> SUFFICES ASSUME GovernanceTypeOK, NEW time \in {day, NotGiven},
                    DecisionOutcome(items, time) \in {"ALLOW", "ALLOW_WITH_LIMITATIONS"},
                    NEW r \in DOMAIN Requirements, ~Requirements[r].optional,
                    ~\E i \in Matches(r, items) : Items[i].notApplicable
             PROVE  RestsOnEvidence(r, time)
  BY DEF AllowedRestsOnEvidence
<1>1. RequirementOutcome(r, items, time) \in {"SATISFIED", "SATISFIED_WITH_LIMITATIONS"}
  BY AllowedIsSatisfied, OnlyDeclared
<1>2. items \subseteq DOMAIN Items /\ (time # NotGiven => time \in Int)
  BY DEF GovernanceTypeOK, Days
<1> QED BY <1>1, <1>2, SatisfiedRests

(***************************************************************************)
(* Records.                                                                *)
(***************************************************************************)
LEMMA AddressedApproval ==
  ASSUME NEW t \in Issuable, NEW n
  PROVE  LET a == Addressed(t, n) IN
         /\ a.request = n /\ a.by = t.by /\ a.role = t.role /\ a.outcome = t.outcome
         /\ a.until = t.until /\ a.until \in Days \cup {NotGiven}
<1>1. t \in ApprovalTypes
  BY GovernanceAssumption
<1>2. DOMAIN t = {"by", "role", "outcome", "until", "signed"}
  BY <1>1 DEF ApprovalTypes
<1> QED BY <1>1, <1>2 DEF Addressed, ApprovalTypes

LEMMA AddressedRejection ==
  ASSUME NEW t \in Rejectable, NEW n
  PROVE  Addressed(t, n).request = n
<1>1. DOMAIN t = {"by", "role"}
  BY GovernanceAssumption DEF RejectionTypes
<1> QED BY <1>1 DEF Addressed

(***************************************************************************)
(* Type correctness, with finitely many approvals.                         *)
(***************************************************************************)
GovernanceTyped == GovernanceTypeOK /\ IsFiniteSet(approvals)

LEMMA GovernanceInitTyped == GovernanceInit => GovernanceTyped
BY GovernanceAssumption, FS_EmptySet DEF GovernanceInit, GovernanceTyped, GovernanceTypeOK, Days

LEMMA OutcomeTyped ==
  ASSUME NEW collected, NEW time
  PROVE  DecisionOutcome(collected, time) \in Outcomes
BY DEF DecisionOutcome, Outcomes

LEMMA QuorumTyped ==
  ASSUME NEW n, NEW given, NEW against, NEW time
  PROVE  QuorumOutcome(n, given, against, time) \in QuorumOutcomes
BY DEF QuorumOutcome, QuorumOutcomes

LEMMA SeparationTyped ==
  ASSUME NEW given
  PROVE  SeparationOutcome(given) \in SeparationOutcomes
BY DEF SeparationOutcome, SeparationOutcomes

LEMMA GovernanceNextTyped ==
  ASSUME GovernanceTyped, [GovernanceNext]_governanceVars
  PROVE  GovernanceTyped'
<1> USE DEF GovernanceTyped, GovernanceTypeOK
<1>1. CASE NextDay
  BY <1>1, GovernanceAssumption DEF NextDay, Days
<1>2. ASSUME NEW i \in DOMAIN Items, Collect(i)
      PROVE  GovernanceTyped'
  BY <1>2 DEF Collect
<1>3. ASSUME NEW subject \in Subjects, NEW time \in {day, NotGiven}, Decide(subject, time)
      PROVE  GovernanceTyped'
  <2> DEFINE made == [subject |-> subject, outcome |-> DecisionOutcome(items, time)]
  <2>1. made \in Decisions
    BY OutcomeTyped DEF Decisions
  <2>2. decisions' = Append(decisions, made)
    BY <1>3 DEF Decide
  <2>3. decisions' \in Seq(Decisions) /\ DOMAIN decisions \subseteq DOMAIN decisions'
    BY <2>1, <2>2
  <2>4. items' = {}
    BY <1>3 DEF Decide
  <2>5. UNCHANGED <<day, requested, approvals, rejections, quorum, separation, promotion>>
    BY <1>3 DEF Decide
  <2> QED BY <2>3, <2>4, <2>5
<1>4. ASSUME NEW n \in DOMAIN decisions, Request(n)
      PROVE  GovernanceTyped'
  BY <1>4 DEF Request
<1>5. ASSUME NEW n \in DOMAIN decisions, NEW a \in Issuable, Approve(a, n)
      PROVE  GovernanceTyped'
  <2>1. Addressed(a, n).request = n
    BY AddressedApproval
  <2>2. IsFiniteSet(approvals')
    BY <1>5, FS_AddElement DEF Approve
  <2> QED BY <1>5, <2>1, <2>2 DEF Approve
<1>6. ASSUME NEW n \in DOMAIN decisions, NEW x \in Rejectable, Reject(x, n)
      PROVE  GovernanceTyped'
  <2>1. Addressed(x, n).request = n
    BY AddressedRejection
  <2> QED BY <1>6, <2>1 DEF Reject
<1>7. ASSUME NEW n \in DOMAIN decisions, NEW time \in {day, NotGiven}, EvaluateQuorum(n, time)
      PROVE  GovernanceTyped'
  <2>1. QuorumOutcome(n, approvals, rejections, time) \in QuorumOutcomes
    BY QuorumTyped
  <2>2. Valid(n, approvals, time) \subseteq approvals
    BY DEF Valid
  <2> QED BY <1>7, <2>1, <2>2 DEF EvaluateQuorum
<1>8. ASSUME NEW n \in DOMAIN decisions, EvaluateSeparation(n)
      PROVE  GovernanceTyped'
  <2> DEFINE given == {a \in approvals : a.request = n}
  <2>1. SeparationOutcome(given) \in SeparationOutcomes
    BY SeparationTyped
  <2>2. separation' = [given |-> given, outcome |-> SeparationOutcome(given)]
    BY <1>8 DEF EvaluateSeparation
  <2>3. separation'.given \subseteq approvals /\ separation'.outcome \in SeparationOutcomes
    BY <2>1, <2>2
  <2> QED BY <1>8, <2>3 DEF EvaluateSeparation
<1>9. ASSUME NEW c \in DOMAIN decisions, NEW d \in DOMAIN decisions,
             NEW n \in requested \cup {NotGiven}, NEW listed \in Listings,
             Promote(c, d, n, listed)
      PROVE  GovernanceTyped'
  <2>1. listed \subseteq approvals
    BY DEF Listings
  <2>2. promotion'.candidate = c /\ promotion'.decision = d /\ promotion'.listed = listed
    BY <1>9 DEF Promote
  <2> QED BY <1>9, <2>1, <2>2 DEF Promote
<1>10. CASE UNCHANGED governanceVars
  BY <1>10 DEF governanceVars
<1> QED BY <1>1, <1>2, <1>3, <1>4, <1>5, <1>6, <1>7, <1>8, <1>9, <1>10 DEF GovernanceNext

\* The types of the governance of a release: records, results and decisions.
THEOREM GovernanceTypeCorrect == GovernanceSpec => []GovernanceTypeOK
<1>1. GovernanceSpec => []GovernanceTyped
  BY GovernanceInitTyped, GovernanceNextTyped, PTL DEF GovernanceSpec
<1>2. GovernanceTyped => GovernanceTypeOK
  BY DEF GovernanceTyped
<1> QED BY <1>1, <1>2, PTL

\* A policy allows only what rests on evidence that meets every requirement
\* (_evaluate_requirement, evaluate_policy).
THEOREM AllowedRestsOnEvidenceHolds == GovernanceSpec => []AllowedRestsOnEvidence
BY GovernanceTypeCorrect, AllowedRests, PTL

(***************************************************************************)
(* The quorum.                                                             *)
(***************************************************************************)
LEMMA TokensFinite ==
  ASSUME NEW S, IsFiniteSet(S), NEW token
  PROVE  IsFiniteSet(Tokens(S, token)) /\ Cardinality(Tokens(S, token)) \in Nat
<1> DEFINE all == {token[a.by] : a \in S}
<1> DEFINE f == [a \in S |-> token[a.by]]
<1>1. f \in Surjection(S, all)
  BY DEF Surjection
<1>2. IsFiniteSet(all)
  BY <1>1, FS_Surjection
<1>3. IsFiniteSet(Tokens(S, token))
  BY <1>2, FS_Subset DEF Tokens
<1> QED BY <1>3, FS_CardinalityType

LEMMA TokensGrow ==
  ASSUME NEW S, NEW T, S \subseteq T, IsFiniteSet(T), NEW token, NEW k \in Nat,
         Cardinality(Tokens(S, token)) >= k
  PROVE  Cardinality(Tokens(T, token)) >= k
<1>1. IsFiniteSet(S)
  BY FS_Subset
<1>2. /\ IsFiniteSet(Tokens(T, token)) /\ Cardinality(Tokens(T, token)) \in Nat
      /\ Cardinality(Tokens(S, token)) \in Nat
  BY <1>1, TokensFinite
<1>3. Tokens(S, token) \subseteq Tokens(T, token)
  BY DEF Tokens
<1>4. Cardinality(Tokens(S, token)) <= Cardinality(Tokens(T, token))
  BY <1>2, <1>3, FS_Subset
<1> QED BY <1>2, <1>4

\* Enough stays enough when there are more.
LEMMA EnoughGrows ==
  ASSUME NEW S, NEW T, S \subseteq T, IsFiniteSet(T), Enough(S)
  PROVE  Enough(T)
<1>1. Cardinality(S) <= Cardinality(T) /\ Cardinality(S) \in Nat /\ Cardinality(T) \in Nat
  BY FS_Subset, FS_CardinalityType
<1>5. {a.role : a \in S} \subseteq {a.role : a \in T}
  OBVIOUS
<1>6. Cardinality(T) >= Quorum.count
  BY <1>1, GovernanceAssumption DEF Enough
<1>7. Quorum.signers \in Nat /\ Quorum.keys \in Nat /\ Quorum.roots \in Nat
  BY GovernanceAssumption
<1>8. Cardinality(Tokens(T, Identity)) >= Quorum.signers
  BY <1>7, TokensGrow DEF Enough
<1>9. Cardinality(Tokens(T, SigningKey)) >= Quorum.keys
  BY <1>7, TokensGrow DEF Enough
<1>10. Cardinality(Tokens(T, TrustRoot)) >= Quorum.roots
  BY <1>7, TokensGrow DEF Enough
<1> QED BY <1>5, <1>6, <1>8, <1>9, <1>10 DEF Enough

\* Enough is at least one, and who speaks has a role.
LEMMA EnoughIsSome ==
  ASSUME NEW S, Enough(S)
  PROVE  S # {}
<1>1. Cardinality(S) >= Quorum.count
  BY DEF Enough
<1>2. Quorum.count \in Nat \ {0}
  BY GovernanceAssumption
<1>3. Cardinality({}) = 0
  BY FS_EmptySet
<1> QED BY <1>1, <1>2, <1>3

LEMMA BlockedIsSaid ==
  ASSUME NEW n, NEW given, NEW against, NEW time
  PROVE  QuorumOutcome(n, given, against, time) = "BLOCKED_BY_REJECTION" <=>
           Quorum.rejectionBlocks /\ \E x \in against : Speaks(x, n)
<1> DEFINE valid == Valid(n, given, time)
<1>1. ASSUME NEW x \in against, Speaks(x, n)
      PROVE  Assigned # {}
  BY <1>1 DEF Speaks, RoleIsAssigned
<1> QED BY <1>1 DEF QuorumOutcome

LEMMA SatisfiedIsEnough ==
  ASSUME NEW n, NEW given, NEW against, NEW time
  PROVE  QuorumOutcome(n, given, against, time) = "SATISFIED" <=>
           /\ Enough(Valid(n, given, time))
           /\ ~(Quorum.rejectionBlocks /\ \E x \in against : Speaks(x, n))
<1> DEFINE valid == Valid(n, given, time)
<1>1. ASSUME Enough(valid)
      PROVE  Assigned # {}
  <2>1. PICK a \in valid : TRUE
    BY <1>1, EnoughIsSome
  <2>2. Speaks(a, n)
    BY <2>1 DEF Valid, Counts
  <2> QED BY <2>2 DEF Speaks, RoleIsAssigned
<1> QED BY <1>1 DEF QuorumOutcome

LEMMA RecordsStay ==
  ASSUME [GovernanceNext]_governanceVars
  PROVE  approvals \subseteq approvals' /\ rejections \subseteq rejections'
<1>1. CASE UNCHANGED governanceVars
  BY <1>1 DEF governanceVars
<1>2. CASE GovernanceNext
  BY <1>2 DEF GovernanceNext, NextDay, Collect, Decide, Request, Approve, Reject,
              EvaluateQuorum, EvaluateSeparation, Promote
<1> QED BY <1>1, <1>2

QuorumStaysPut ==
  \A n \in requested :
    /\ QuorumNow(n) = "BLOCKED_BY_REJECTION" => QuorumNow(n)' = "BLOCKED_BY_REJECTION"
    /\ QuorumNow(n) = "SATISFIED" =>
         QuorumNow(n)' = "SATISFIED" \/ day' # day \/ rejections' # rejections

LEMMA QuorumStays ==
  ASSUME GovernanceTyped', [GovernanceNext]_governanceVars
  PROVE  QuorumStaysPut
<1> SUFFICES ASSUME NEW n \in requested
             PROVE  /\ QuorumNow(n) = "BLOCKED_BY_REJECTION" =>
                         QuorumNow(n)' = "BLOCKED_BY_REJECTION"
                    /\ QuorumNow(n) = "SATISFIED" =>
                         QuorumNow(n)' = "SATISFIED" \/ day' # day \/ rejections' # rejections
  BY DEF QuorumStaysPut
<1>1. approvals \subseteq approvals' /\ rejections \subseteq rejections'
  BY RecordsStay
<1>2. ASSUME QuorumNow(n) = "BLOCKED_BY_REJECTION"
      PROVE  QuorumNow(n)' = "BLOCKED_BY_REJECTION"
  BY <1>1, <1>2, BlockedIsSaid DEF QuorumNow
<1>3. ASSUME QuorumNow(n) = "SATISFIED", day' = day, rejections' = rejections
      PROVE  QuorumNow(n)' = "SATISFIED"
  <2>1. /\ Enough(Valid(n, approvals, day))
        /\ ~(Quorum.rejectionBlocks /\ \E x \in rejections : Speaks(x, n))
    BY <1>3, SatisfiedIsEnough DEF QuorumNow
  <2>2. Valid(n, approvals, day) \subseteq Valid(n, approvals', day)
    BY <1>1 DEF Valid
  <2>3. IsFiniteSet(Valid(n, approvals', day))
    BY FS_Subset DEF Valid, GovernanceTyped
  <2>4. Enough(Valid(n, approvals', day))
    BY <2>1, <2>2, <2>3, EnoughGrows
  <2>5. QuorumOutcome(n, approvals', rejections', day) = "SATISFIED"
    BY <1>3, <2>1, <2>4, SatisfiedIsEnough
  <2> QED BY <1>3, <2>5 DEF QuorumNow
<1> QED BY <1>2, <1>3

\* A rejection stays final, and a quorum reached is lost only by a rejection
\* or in time.
THEOREM QuorumIsStableHolds == GovernanceSpec => QuorumIsStable
<1>1. GovernanceTyped /\ [GovernanceNext]_governanceVars => GovernanceTyped'
  BY GovernanceNextTyped
<1>2. GovernanceTyped' /\ [GovernanceNext]_governanceVars => [QuorumStaysPut]_governanceVars
  BY QuorumStays
<1>3. [QuorumStaysPut]_governanceVars =>
      [\A n \in requested :
         /\ QuorumNow(n) = "BLOCKED_BY_REJECTION" => QuorumNow(n)' = "BLOCKED_BY_REJECTION"
         /\ QuorumNow(n) = "SATISFIED" =>
              QuorumNow(n)' = "SATISFIED" \/ day' # day \/ rejections' # rejections
      ]_governanceVars
  BY DEF QuorumStaysPut
<1> QED BY <1>1, <1>2, <1>3, GovernanceInitTyped, PTL DEF GovernanceSpec, QuorumIsStable

(***************************************************************************)
(* Promotion.  What a result says was so of the records it was computed    *)
(* from; what the gate let through had such results, an acceptable         *)
(* decision, and the subject that was approved.                            *)
(***************************************************************************)
QuorumSpoke(q) ==
  q # NotGiven =>
    /\ \A a \in q.counted : Counts(a, q.request, q.at)
    /\ q.outcome = "SATISFIED" =>
         /\ Enough(q.counted)
         /\ ~(Quorum.rejectionBlocks /\ \E x \in q.against : Speaks(x, q.request))

DutiesSeparated(s) ==
  s # NotGiven /\ s.outcome = "SATISFIED" =>
    /\ ~Violated(s.given)
    /\ \A token \in Separation.independence : ~Lacking(s.given, token)

PromotedSoundly ==
  promotion # NotGiven =>
    /\ QuorumSpoke(promotion.quorum)
    /\ DutiesSeparated(promotion.separation)
    /\ promotion.request \in requested \cup {NotGiven}
    /\ promotion.listed # {} =>
         /\ promotion.request # NotGiven
         /\ \A a \in promotion.listed : a.request = promotion.request
         /\ decisions[promotion.request].subject = decisions[promotion.candidate].subject
    /\ promotion.outcome # "PROMOTION_DENIED" =>
         /\ decisions[promotion.decision].outcome \in Gate.accepted
         /\ decisions[promotion.decision].subject = decisions[promotion.candidate].subject
         /\ Gate.quorum => promotion.quorum.outcome = "SATISFIED"
         /\ Gate.separation => promotion.separation.outcome = "SATISFIED"

PromotionInv ==
  GovernanceTyped /\ QuorumSpoke(quorum) /\ DutiesSeparated(separation) /\ PromotedSoundly

\* A step that appends to the decisions and the requests and leaves the
\* promotion alone.
LEMMA PromotionStays ==
  ASSUME PromotionInv, promotion' = promotion, requested \subseteq requested',
         DOMAIN decisions \subseteq DOMAIN decisions',
         \A k \in DOMAIN decisions : decisions'[k] = decisions[k]
  PROVE  PromotedSoundly'
<1> SUFFICES ASSUME promotion # NotGiven
             PROVE  PromotedSoundly'
  BY DEF PromotedSoundly
<1>1. {promotion.candidate, promotion.decision} \subseteq DOMAIN decisions
  BY DEF PromotionInv, GovernanceTyped, GovernanceTypeOK
<1>2. promotion.request \in DOMAIN decisions \cup {NotGiven}
  BY DEF PromotionInv, GovernanceTyped, GovernanceTypeOK, PromotedSoundly
<1>3. PromotedSoundly
  BY DEF PromotionInv
<1> QED BY <1>1, <1>2, <1>3 DEF PromotedSoundly

LEMMA QuorumSpeaks ==
  ASSUME NEW n, NEW time, EvaluateQuorum(n, time)
  PROVE  QuorumSpoke(quorum')
<1> DEFINE valid == Valid(n, approvals, time)
           q == [request |-> n, at |-> time, against |-> rejections, counted |-> valid,
                 outcome |-> QuorumOutcome(n, approvals, rejections, time)]
<1>1. quorum' = q
  BY DEF EvaluateQuorum
<1>2. \A a \in valid : Counts(a, n, time)
  BY DEF Valid
<1>3. q.outcome = "SATISFIED" =>
        /\ Enough(valid)
        /\ ~(Quorum.rejectionBlocks /\ \E x \in rejections : Speaks(x, n))
  BY SatisfiedIsEnough
<1>4. QuorumSpoke(q)
  BY <1>2, <1>3 DEF QuorumSpoke
<1> QED BY <1>1, <1>4

LEMMA DutiesAreSeparated ==
  ASSUME NEW n, EvaluateSeparation(n)
  PROVE  DutiesSeparated(separation')
<1> DEFINE given == {a \in approvals : a.request = n}
<1>1. separation' = [given |-> given, outcome |-> SeparationOutcome(given)]
  BY DEF EvaluateSeparation
<1>2. SeparationOutcome(given) = "SATISFIED" =>
        /\ ~Violated(given)
        /\ \A token \in Separation.independence : ~Lacking(given, token)
  BY DEF SeparationOutcome
<1> HIDE DEF given
<1> QED BY <1>1, <1>2 DEF DutiesSeparated

LEMMA PromotesSoundly ==
  ASSUME PromotionInv, NEW c \in DOMAIN decisions, NEW d \in DOMAIN decisions,
         NEW n \in requested \cup {NotGiven}, NEW listed, Promote(c, d, n, listed)
  PROVE  PromotedSoundly'
<1>1. /\ promotion'.candidate = c /\ promotion'.decision = d /\ promotion'.request = n
      /\ promotion'.listed = listed
      /\ promotion'.quorum = quorum /\ promotion'.separation = separation
      /\ promotion'.outcome # "PROMOTION_DENIED" => ~GateBlocks(c, d, n)
  BY DEF Promote
<1>2. UNCHANGED <<decisions, requested>>
  BY DEF Promote
<1>3. listed # {} => /\ n # NotGiven /\ \A a \in listed : a.request = n
                     /\ decisions[n].subject = decisions[c].subject
  BY DEF Promote, IsCandidate
<1>4. ~GateBlocks(c, d, n) =>
        /\ decisions[d].outcome \in Gate.accepted
        /\ decisions[d].subject = decisions[c].subject
        /\ Gate.quorum => quorum.outcome = "SATISFIED"
        /\ Gate.separation => separation.outcome = "SATISFIED"
  BY DEF GateBlocks
<1>5. QuorumSpoke(promotion'.quorum) /\ DutiesSeparated(promotion'.separation)
  BY <1>1 DEF PromotionInv
<1> QED BY <1>1, <1>2, <1>3, <1>4, <1>5 DEF PromotedSoundly

LEMMA PromotionNext ==
  ASSUME PromotionInv, [GovernanceNext]_governanceVars
  PROVE  PromotionInv'
<1>1. GovernanceTyped'
  BY GovernanceNextTyped DEF PromotionInv
<1>2. ASSUME UNCHANGED <<quorum, separation, promotion>>, requested \subseteq requested',
             DOMAIN decisions \subseteq DOMAIN decisions',
             \A k \in DOMAIN decisions : decisions'[k] = decisions[k]
      PROVE  PromotionInv'
  BY <1>1, <1>2, PromotionStays DEF PromotionInv
<1>3. ASSUME NEW subject \in Subjects, NEW time \in {day, NotGiven}, Decide(subject, time)
      PROVE  PromotionInv'
  <2> DEFINE made == [subject |-> subject, outcome |-> DecisionOutcome(items, time)]
  <2>1. made \in Decisions
    BY OutcomeTyped DEF Decisions
  <2>2. decisions' = Append(decisions, made) /\ decisions \in Seq(Decisions)
    BY <1>3 DEF Decide, PromotionInv, GovernanceTyped, GovernanceTypeOK
  <2>3. /\ DOMAIN decisions \subseteq DOMAIN decisions'
        /\ \A k \in DOMAIN decisions : decisions'[k] = decisions[k]
    BY <2>1, <2>2
  <2> QED BY <1>2, <1>3, <2>3 DEF Decide
<1>4. ASSUME NEW n \in DOMAIN decisions, NEW time \in {day, NotGiven}, EvaluateQuorum(n, time)
      PROVE  PromotionInv'
  <2>1. UNCHANGED <<decisions, requested, separation, promotion>>
    BY <1>4 DEF EvaluateQuorum
  <2> QED BY <1>1, <1>4, <2>1, PromotionStays, QuorumSpeaks DEF PromotionInv
<1>5. ASSUME NEW n \in DOMAIN decisions, EvaluateSeparation(n)
      PROVE  PromotionInv'
  <2>1. UNCHANGED <<decisions, requested, quorum, promotion>>
    BY <1>5 DEF EvaluateSeparation
  <2> QED BY <1>1, <1>5, <2>1, PromotionStays, DutiesAreSeparated DEF PromotionInv
<1>6. ASSUME NEW c \in DOMAIN decisions, NEW d \in DOMAIN decisions,
             NEW n \in requested \cup {NotGiven}, NEW listed \in Listings,
             Promote(c, d, n, listed)
      PROVE  PromotionInv'
  <2>1. UNCHANGED <<quorum, separation>>
    BY <1>6 DEF Promote
  <2> QED BY <1>1, <1>6, <2>1, PromotesSoundly DEF PromotionInv
<1>7. CASE \/ NextDay \/ UNCHANGED governanceVars
           \/ \E i \in DOMAIN Items : Collect(i)
           \/ \E n \in DOMAIN decisions :
                \/ Request(n)
                \/ \E a \in Issuable : Approve(a, n)
                \/ \E x \in Rejectable : Reject(x, n)
  BY <1>2, <1>7 DEF NextDay, governanceVars, Collect, Request, Approve, Reject
<1> QED BY <1>3, <1>4, <1>5, <1>6, <1>7 DEF GovernanceNext

LEMMA SoundIsApproved == PromotionInv => PromotedWasApproved
<1> DEFINE n == promotion.request
           p == promotion
<1> SUFFICES ASSUME PromotionInv, promotion # NotGiven, promotion.outcome # "PROMOTION_DENIED",
                    Gate.quorum, Gate.separation, Coherent(promotion)
             PROVE  /\ decisions[p.decision].outcome \in Gate.accepted
                    /\ n \in requested /\ decisions[n].subject = decisions[p.decision].subject
                    /\ Enough(p.listed)
                    /\ \A a \in p.listed :
                         /\ a.request = n /\ <<a.by, a.role>> \in Assigned
                         /\ \/ a.outcome = "ABSTAINED" /\ Quorum.abstentions
                            \/ a.until = NotGiven
                            \/ p.quorum.at # NotGiven /\ a.until >= p.quorum.at
                    /\ Quorum.rejectionBlocks => \A x \in p.quorum.against : ~Speaks(x, n)
                    /\ Separation.requester =>
                         \A a \in p.listed :
                           /\ Identity[Requester] = NotGiven \/ Identity[a.by] # Identity[Requester]
                           /\ SigningKey[Requester] = NotGiven
                              \/ SigningKey[a.by] # SigningKey[Requester]
                    /\ Identity \in Separation.independence =>
                         \A a, b \in p.listed : Identity[a.by] = Identity[b.by] => a = b
  BY DEF PromotedWasApproved
<1>1. /\ QuorumSpoke(p.quorum) /\ DutiesSeparated(p.separation)
      /\ p.request \in requested \cup {NotGiven}
      /\ p.listed # {} => /\ p.request # NotGiven /\ \A a \in p.listed : a.request = n
                          /\ decisions[n].subject = decisions[p.candidate].subject
      /\ decisions[p.decision].outcome \in Gate.accepted
      /\ decisions[p.decision].subject = decisions[p.candidate].subject
      /\ p.quorum.outcome = "SATISFIED" /\ p.separation.outcome = "SATISFIED"
  BY DEF PromotionInv, PromotedSoundly
<1>2. /\ p.quorum # NotGiven /\ p.separation # NotGiven /\ p.listed # {}
      /\ p.listed = p.quorum.counted /\ p.listed \subseteq p.separation.given
  BY DEF Coherent
<1>3. /\ \A a \in p.listed : Counts(a, p.quorum.request, p.quorum.at)
      /\ Enough(p.listed)
      /\ ~(Quorum.rejectionBlocks /\ \E x \in p.quorum.against : Speaks(x, p.quorum.request))
  BY <1>1, <1>2 DEF QuorumSpoke
<1>4. p.quorum.request = n
  BY <1>1, <1>2, <1>3 DEF Counts, Speaks
<1>5. ASSUME NEW a \in p.listed
      PROVE  /\ a.request = n /\ <<a.by, a.role>> \in Assigned
             /\ \/ a.outcome = "ABSTAINED" /\ Quorum.abstentions
                \/ a.until = NotGiven
                \/ p.quorum.at # NotGiven /\ a.until >= p.quorum.at
  BY <1>1, <1>3, <1>5 DEF Counts, Speaks, RoleIsAssigned, InForceAt
<1>6. ~Violated(p.separation.given)
      /\ \A token \in Separation.independence : ~Lacking(p.separation.given, token)
  BY <1>1, <1>2 DEF DutiesSeparated
<1>7. ASSUME Separation.requester, NEW a \in p.listed
      PROVE  /\ Identity[Requester] = NotGiven \/ Identity[a.by] # Identity[Requester]
             /\ SigningKey[Requester] = NotGiven \/ SigningKey[a.by] # SigningKey[Requester]
  BY <1>2, <1>6, <1>7 DEF Violated, SelfApproved
<1>8. ASSUME Identity \in Separation.independence, NEW a \in p.listed, NEW b \in p.listed,
             Identity[a.by] = Identity[b.by]
      PROVE  a = b
  BY <1>2, <1>6, <1>8 DEF Violated, Shared
<1> QED BY <1>1, <1>2, <1>3, <1>4, <1>5, <1>7, <1>8

\* What the gate lets through was decided and approved, whatever the order in
\* which results were computed and records came in.
THEOREM PromotedWasApprovedHolds == GovernanceSpec => []PromotedWasApproved
<1>1. GovernanceInit => PromotionInv
  BY GovernanceInitTyped
     DEF GovernanceInit, PromotionInv, QuorumSpoke, DutiesSeparated, PromotedSoundly
<1>2. PromotionInv /\ [GovernanceNext]_governanceVars => PromotionInv'
  BY PromotionNext
<1> QED BY <1>1, <1>2, SoundIsApproved, PTL DEF GovernanceSpec

-----------------------------------------------------------------------------
(***************************************************************************)
(* TrustVerification.  Every chain of delegations that may anchor the      *)
(* signer still passes through an entry of the frontier; from there to     *)
(* what a path, a result and the overall status say.                       *)
(***************************************************************************)

(***************************************************************************)
(* The order in which statuses are combined.                               *)
(***************************************************************************)
LEMMA FirstOfThree ==
  ASSUME NEW a, NEW b, NEW c, NEW S, NEW other
  PROVE  FirstOf(<<a, b, c>>, S, other) =
           IF a \in S THEN a ELSE IF b \in S THEN b ELSE IF c \in S THEN c ELSE other
<1> DEFINE order == <<a, b, c>>
           Least(i) == order[i] \in S /\ \A j \in 1..i-1 : order[j] \notin S
<1>1. DOMAIN order = 1..3 /\ order[1] = a /\ order[2] = b /\ order[3] = c
  OBVIOUS
<1>2. CASE a \in S
  <2>1. \A i \in DOMAIN order : Least(i) <=> i = 1
    BY <1>1, <1>2
  <2>2. (CHOOSE i \in DOMAIN order : Least(i)) = 1
    BY <1>1, <2>1
  <2> QED BY <1>1, <1>2, <2>2 DEF FirstOf
<1>3. CASE a \notin S /\ b \in S
  <2>1. \A i \in DOMAIN order : Least(i) <=> i = 2
    BY <1>1, <1>3
  <2>2. (CHOOSE i \in DOMAIN order : Least(i)) = 2
    BY <1>1, <2>1
  <2> QED BY <1>1, <1>3, <2>2 DEF FirstOf
<1>4. CASE a \notin S /\ b \notin S /\ c \in S
  <2>1. \A i \in DOMAIN order : Least(i) <=> i = 3
    BY <1>1, <1>4
  <2>2. (CHOOSE i \in DOMAIN order : Least(i)) = 3
    BY <1>1, <2>1
  <2> QED BY <1>1, <1>4, <2>2 DEF FirstOf
<1>5. CASE a \notin S /\ b \notin S /\ c \notin S
  <2>1. ~\E i \in DOMAIN order : order[i] \in S
    BY <1>1, <1>5
  <2> QED BY <1>5, <2>1 DEF FirstOf
<1> QED BY <1>2, <1>3, <1>4, <1>5

LEMMA FirstOfFour ==
  ASSUME NEW a, NEW b, NEW c, NEW d, NEW S, NEW other
  PROVE  FirstOf(<<a, b, c, d>>, S, other) =
           IF a \in S THEN a ELSE IF b \in S THEN b ELSE IF c \in S THEN c
           ELSE IF d \in S THEN d ELSE other
<1> DEFINE order == <<a, b, c, d>>
           Least(i) == order[i] \in S /\ \A j \in 1..i-1 : order[j] \notin S
<1>1. DOMAIN order = 1..4 /\ order[1] = a /\ order[2] = b /\ order[3] = c /\ order[4] = d
  OBVIOUS
<1>2. ASSUME NEW n \in 1..4, \A i \in DOMAIN order : Least(i) <=> i = n
      PROVE  FirstOf(<<a, b, c, d>>, S, other) = order[n]
  <2>1. (CHOOSE i \in DOMAIN order : Least(i)) = n
    BY <1>1, <1>2
  <2>2. \E i \in DOMAIN order : order[i] \in S
    BY <1>1, <1>2
  <2> QED BY <2>1, <2>2 DEF FirstOf
<1>3. CASE a \in S
  <2>1. \A i \in DOMAIN order : Least(i) <=> i = 1
    BY <1>1, <1>3
  <2> QED BY <1>1, <1>2, <1>3, <2>1
<1>4. CASE a \notin S /\ b \in S
  <2>1. \A i \in DOMAIN order : Least(i) <=> i = 2
    BY <1>1, <1>4
  <2> QED BY <1>1, <1>2, <1>4, <2>1
<1>5. CASE a \notin S /\ b \notin S /\ c \in S
  <2>1. \A i \in DOMAIN order : Least(i) <=> i = 3
    BY <1>1, <1>5
  <2> QED BY <1>1, <1>2, <1>5, <2>1
<1>6. CASE a \notin S /\ b \notin S /\ c \notin S /\ d \in S
  <2>1. \A i \in DOMAIN order : Least(i) <=> i = 4
    BY <1>1, <1>6
  <2> QED BY <1>1, <1>2, <1>6, <2>1
<1>7. CASE a \notin S /\ b \notin S /\ c \notin S /\ d \notin S
  <2>1. ~\E i \in DOMAIN order : order[i] \in S
    BY <1>1, <1>7
  <2> QED BY <1>7, <2>1 DEF FirstOf
<1> QED BY <1>3, <1>4, <1>5, <1>6, <1>7

(***************************************************************************)
(* The invariant.  Supplied, the inputs; the frontier of the walk, its     *)
(* order, and that every chain of delegations that may anchor the signer   *)
(* still passes through an entry of it; what a path that was found, a      *)
(* result, and the overall status say.                                     *)
(***************************************************************************)
Supplied == IsBundle(bundle) /\ envelope \in EnvelopeTypes /\ policy \in PolicyTypes
            /\ envelope.signatures # <<>>
            /\ \A m, n \in DOMAIN envelope.signatures :
                 envelope.signatures[m].key = envelope.signatures[n].key => m = n

Entries == [key : Keys, path : Seq(Delegations), visited : SUBSET Keys]
Statuses == Fatal \cup {"NOT_EVALUATED", "NOT_REVOKED"}
DelegationStatuses ==
  {"UNVERIFIED", "DIRECT_ROOT", "INVALID_DELEGATION", "NOT_APPLICABLE", "VALID_DELEGATION",
   "CYCLE_DETECTED", "DEPTH_EXCEEDED"}
ResultTypes ==
  [key : Keys, delegation : DelegationStatuses, root : Keys \cup {Absent},
   path : Seq(Delegations), revocation : Statuses,
   expiration : {"VALID", "EXPIRED", "NOT_YET_VALID", "NOT_EVALUATED", "UNAVAILABLE"},
   trusted : BOOLEAN]

TrustTyped ==
  /\ Supplied
  /\ pc \in {"bundle", "path", "walk", "judge", "total", "done"}
  /\ sawCycle \in BOOLEAN /\ sawDepth \in BOOLEAN
  /\ frontier \in Seq(Entries)
  /\ delegation \in DelegationStatuses /\ root \in Keys \cup {Absent}
  /\ path \in Seq(Delegations)
  /\ results \in Seq(ResultTypes)
  /\ Len(results) <= Len(envelope.signatures)
  /\ pc \notin {"total", "done"} => Len(results) < Len(envelope.signatures)

EntryOK(e) ==
  /\ IsChain(Signer, e.path) /\ Len(e.path) <= policy.depth
  /\ e.key = IF e.path = <<>> THEN Signer ELSE e.path[Len(e.path)].by
  /\ e.visited = {Signer} \cup {e.path[j].by : j \in DOMAIN e.path}
  /\ \A j \in DOMAIN e.path : ~ActiveRoot(e.path[j].by)

InWidth ==
  \A i, j \in DOMAIN frontier : i <= j =>
    /\ Len(frontier[i].path) <= Len(frontier[j].path)
    /\ Len(frontier[j].path) <= Len(frontier[1].path) + 1

\* The chains that a walk may follow: those through no active root.
OpenChains(s, n) == {p \in [1..n -> Issued] : \E r \in Keys : IsAnchored(s, r, p)
                         /\ \A i \in 1..n-1 : ~ActiveRoot(p[i].by)}

IsBegun(p, e) ==
  Len(e.path) < Len(p) /\ \A j \in 1..Len(e.path) : e.path[j] = p[j]
NothingOverlooked ==
  \A n \in 1..policy.depth : \A p \in OpenChains(Signer, n) :
    \E i \in DOMAIN frontier : IsBegun(p, frontier[i])

Walking ==
  pc = "walk" => /\ policy.delegation /\ ~ActiveRoot(Signer)
                 /\ \A e \in Range(frontier) : EntryOK(e)
                 /\ InWidth /\ NothingOverlooked

IsRooted(s, r, p) == r = s /\ p = <<>> /\ ActiveRoot(s) /\ Permits(s)

\* What is found for signer s: status d, root r and path p.
Led(s, d, r, p) ==
  /\ d = "DIRECT_ROOT" => IsRooted(s, r, p)
  /\ d = "VALID_DELEGATION" => IsAnchored(s, r, p)
  /\ ~ActiveRoot(s) =>
       \A n \in 1..(IF d = "VALID_DELEGATION" THEN Len(p) - 1 ELSE policy.depth) :
         OpenChains(s, n) = {}

LedNow ==
  \E s, d, r, p : /\ s = Signer /\ d = delegation /\ r = root /\ p = path
                  /\ Led(s, d, r, p)

InWindow(t) ==
  t \in DOMAIN bundle.windows =>
    ExpirationOf(t) = "VALID" \/ (envelope.time = Absent /\ ~policy.requireExpiration)

Sure(r) ==
  /\ Led(r.key, r.delegation, r.root, r.path)
  /\ r.trusted =>
       /\ r.delegation \in {"DIRECT_ROOT", "VALID_DELEGATION"}
       /\ InForce(r) \/ Undecided(r) => Masked(r)
       /\ \A t \in RestsOn(r) \cup {TheBundle} : InWindow(t)
  /\ InForce(r) /\ ~Masked(r) =>
       r.revocation \in Fatal \/ (policy.requireRevocation /\ r.revocation = "NOT_EVALUATED")

TrustInv ==
  /\ TrustTyped
  /\ Walking
  /\ pc = "judge" => LedNow
  /\ \A i \in DOMAIN results : results[i].key = envelope.signatures[i].key
  /\ \A r \in Range(results) : Sure(r)
  /\ pc = "done" => overall \in {"refused", Overall}

LEMMA TrustInvInit == TrustInit => TrustInv
<1> SUFFICES ASSUME TrustInit PROVE TrustInv
  OBVIOUS
<1>1. Supplied
  BY InputAssumption DEF TrustInit, IsInput, Supplied
<1>2. envelope.signatures \in Seq(Signatures) /\ envelope.signatures # <<>>
  BY <1>1 DEF Supplied, EnvelopeTypes
<1>3. Len(envelope.signatures) \in Nat /\ 0 < Len(envelope.signatures)
  BY <1>2
<1>4. TrustTyped
  <2>1. frontier \in Seq(Entries) /\ path \in Seq(Delegations) /\ results \in Seq(ResultTypes)
        /\ Len(results) = 0
    BY DEF TrustInit
  <2>2. pc = "bundle" /\ sawCycle = FALSE /\ sawDepth = FALSE /\ delegation = "UNVERIFIED"
        /\ root = Absent
    BY DEF TrustInit
  <2>3. Len(results) <= Len(envelope.signatures) /\ Len(results) < Len(envelope.signatures)
    BY <1>3, <2>1
  <2>4. pc \in {"bundle", "path", "walk", "judge", "total", "done"}
    BY <2>2
  <2>5. delegation \in DelegationStatuses /\ root \in Keys \cup {Absent}
        /\ sawCycle \in BOOLEAN /\ sawDepth \in BOOLEAN
    BY <2>2 DEF DelegationStatuses
  <2> QED BY <1>1, <2>1, <2>3, <2>4, <2>5 DEF TrustTyped
<1> QED BY <1>4 DEF TrustInit, TrustInv, Walking, Range

\* What depends on the inputs alone does not change.
LEMMA SureStays ==
  ASSUME UNCHANGED supplied, NEW r
  PROVE  Sure(r)' <=> Sure(r)
BY DEF supplied, Sure, Led, IsRooted, IsAnchored, IsChain, OpenChains, Issued, DelegationValid, Pair,
   ActiveRoot, IsRoot, RootOf, Permits, InForce, Undecided, Masked, Concerning, RestsOn, InWindow,
   ExpirationOf

LEMMA LedStays ==
  ASSUME UNCHANGED supplied, NEW s, NEW d, NEW r, NEW p
  PROVE  Led(s, d, r, p)' <=> Led(s, d, r, p)
BY DEF supplied, Led, IsRooted, IsAnchored, IsChain, OpenChains, Issued, DelegationValid, Pair,
   ActiveRoot, IsRoot, RootOf, Permits

(***************************************************************************)
(* The steps of the walk.                                                  *)
(***************************************************************************)
WalkOK ==
  /\ policy.delegation /\ ~ActiveRoot(Signer)
  /\ \A e \in Range(frontier) : EntryOK(e)
  /\ InWidth /\ NothingOverlooked

\* The signer at hand has a key, and the inputs types.
LEMMA SignerTyped ==
  ASSUME TrustTyped, pc \notin {"total", "done"}
  PROVE  Signature \in Signatures /\ Signer \in Keys /\ Len(results) + 1 \in DOMAIN envelope.signatures
<1>1. envelope.signatures \in Seq(Signatures)
  BY DEF TrustTyped, Supplied, EnvelopeTypes
<1>2. Len(results) \in Nat /\ Len(results) < Len(envelope.signatures)
  BY DEF TrustTyped
<1>3. Len(results) + 1 \in DOMAIN envelope.signatures
  BY <1>1, <1>2
<1>4. Signature \in Signatures
  BY <1>1, <1>3 DEF Signature
<1> QED BY <1>3, <1>4 DEF Signer, Signatures

LEMMA EntryTyped ==
  ASSUME TrustTyped, NEW i \in DOMAIN frontier
  PROVE  /\ frontier[i] \in Entries /\ frontier[i].path \in Seq(Delegations)
         /\ Len(frontier[i].path) \in Nat
<1>1. frontier[i] \in Entries
  BY DEF TrustTyped
<1>2. frontier[i].path \in Seq(Delegations)
  BY <1>1 DEF Entries
<1> QED BY <1>1, <1>2

LEMMA FirstTyped ==
  ASSUME TrustTyped, frontier # <<>>
  PROVE  /\ 1 \in DOMAIN frontier /\ Entry \in Entries /\ Entry.path \in Seq(Delegations)
         /\ Len(Entry.path) \in Nat
<1>1. frontier \in Seq(Entries)
  BY DEF TrustTyped
<1>2. 1 \in DOMAIN frontier
  BY <1>1
<1> QED BY <1>2, EntryTyped DEF Entry

\* One more delegation to the key at the end of a chain.
LEMMA ChainGrows ==
  ASSUME TrustTyped, pc = "walk", frontier # <<>>, ~PolicyTooDeep, EntryOK(Entry),
         NEW i \in Candidates, ~Visited(Listed(i))
  PROVE  LET p == Append(Entry.path, Listed(i)) IN
         /\ p \in Seq(Delegations) /\ Listed(i) \in Delegations
         /\ Len(p) = Len(Entry.path) + 1 /\ Len(p) \in 1..policy.depth
         /\ p[Len(p)] = Listed(i)
         /\ \A j \in 1..Len(Entry.path) : p[j] = Entry.path[j]
         /\ IsChain(Signer, p)
<1> DEFINE d == Listed(i)
           p == Append(Entry.path, d)
           L == Len(Entry.path)
<1>1. d \in Delegations /\ d \in Issued
  BY DEF Candidates, Listed, TrustTyped, Supplied, IsBundle, Issued, Range
<1>3. Entry.path \in Seq(Delegations) /\ L \in Nat
  BY FirstTyped
<1>4. /\ p \in Seq(Delegations) /\ Len(p) = L + 1 /\ p[L + 1] = d /\ DOMAIN p = 1..L + 1
      /\ \A j \in 1..L : p[j] = Entry.path[j]
  BY <1>1, <1>3
<1>5. L + 1 \in 1..policy.depth
  <2>1. policy.depth \in Nat
    BY DEF TrustTyped, Supplied, PolicyTypes
  <2> QED BY <1>3, <2>1 DEF PolicyTooDeep, Depth
<1>6. Candidate(d)
  BY DEF Candidates
<1>7. /\ IsChain(Signer, Entry.path)
      /\ Entry.key = IF Entry.path = <<>> THEN Signer ELSE Entry.path[L].by
      /\ Entry.visited = {Signer} \cup {Entry.path[j].by : j \in DOMAIN Entry.path}
  BY DEF EntryOK
<1>8. DOMAIN Entry.path = 1..L
  BY <1>3
<1>9. IsChain(Signer, p)
  <2> SUFFICES ASSUME NEW j \in 1..L + 1
               PROVE  /\ p[j] \in Issued /\ DelegationValid(p[j]) /\ j - 1 <= p[j].depth
                      /\ p[j].to = IF j = 1 THEN Signer ELSE p[j-1].by
                      /\ p[j].by # Signer /\ \A k \in 1..j-1 : p[j].by # p[k].by
    BY <1>4 DEF IsChain
  <2>1. CASE j \in 1..L
    <3>1. /\ Entry.path[j] \in Issued /\ DelegationValid(Entry.path[j])
          /\ j - 1 <= Entry.path[j].depth
          /\ Entry.path[j].to = IF j = 1 THEN Signer ELSE Entry.path[j-1].by
          /\ Entry.path[j].by # Signer
          /\ \A k \in 1..j-1 : Entry.path[j].by # Entry.path[k].by
      BY <1>7, <1>8, <2>1 DEF IsChain
    <3>2. p[j] = Entry.path[j] /\ \A k \in 1..j-1 : p[k] = Entry.path[k]
      BY <1>3, <1>4, <2>1
    <3>3. j # 1 => p[j-1] = Entry.path[j-1]
      BY <1>3, <1>4, <2>1
    <3> QED BY <3>1, <3>2, <3>3
  <2>2. CASE j = L + 1
    <3>1. p[j] = d
      BY <1>4, <2>2
    <3>2. d \in Issued /\ DelegationValid(d) /\ L <= d.depth /\ d.to = Entry.key
      BY <1>1, <1>6 DEF Candidate, Subordinate
    <3>3. d.to = IF j = 1 THEN Signer ELSE p[j-1].by
      <4>1. CASE L = 0
        BY <1>3, <1>7, <2>2, <3>2, <4>1
      <4>2. CASE L # 0
        <5>1. j - 1 = L /\ L \in 1..L /\ j # 1
          BY <1>3, <2>2, <4>2
        <5>2. Entry.path # <<>>
          BY <4>2
        <5> QED BY <1>4, <1>7, <3>2, <5>1, <5>2
      <4> QED BY <4>1, <4>2
    <3>4. d.by # Signer /\ \A k \in 1..L : d.by # p[k].by
      BY <1>4, <1>7, <1>8 DEF Visited
    <3>5. j - 1 = L
      BY <1>3, <2>2
    <3> QED BY <3>1, <3>2, <3>3, <3>4, <3>5
  <2> QED BY <1>3, <2>1, <2>2
<1> QED BY <1>1, <1>4, <1>5, <1>9

\* The root whose delegation ends the walk anchors the signer, over a chain
\* than which there is none shorter.
LEMMA AnchorLeads ==
  ASSUME TrustTyped, pc = "walk", frontier # <<>>, ~PolicyTooDeep, WalkOK,
         NEW i \in Candidates, Anchors(Listed(i))
  PROVE  /\ Led(Signer, "VALID_DELEGATION", Listed(i).by, Append(Entry.path, Listed(i)))
         /\ Append(Entry.path, Listed(i)) \in Seq(Delegations) /\ Listed(i).by \in Keys
<1> DEFINE d == Listed(i)
           p == Append(Entry.path, d)
           L == Len(Entry.path)
<1>1. 1 \in DOMAIN frontier /\ Entry \in Entries /\ L \in Nat
  BY FirstTyped
<1>2. EntryOK(Entry)
  BY <1>1 DEF WalkOK, Entry, Range
<1>3. /\ p \in Seq(Delegations) /\ d \in Delegations
      /\ Len(p) = L + 1 /\ Len(p) \in 1..policy.depth /\ p[Len(p)] = d
      /\ IsChain(Signer, p)
  BY <1>2, ChainGrows DEF Anchors
<1>4. d.by \in Keys /\ RootOf(d.by).delegates /\ ~(L + 1 > RootOf(d.by).depth)
  BY <1>3 DEF Delegations, Anchors, RootTooDeep, Depth
<1>5. RootOf(d.by).depth \in Nat
  BY DEF Anchors, ActiveRoot, IsRoot, RootOf, TrustTyped, Supplied, IsBundle, Roots, Range
<1>6. IsAnchored(Signer, d.by, p)
  BY <1>1, <1>3, <1>4, <1>5 DEF IsAnchored, Anchors, WalkOK
<1>7. ASSUME NEW n \in 1..Len(p) - 1, NEW c \in OpenChains(Signer, n)
      PROVE  FALSE
  <2>1. n \in 1..policy.depth /\ n \in 1..L
    <3>1. Len(p) - 1 = L /\ L + 1 \in 1..policy.depth /\ policy.depth \in Nat
      BY <1>1, <1>3 DEF TrustTyped, Supplied, PolicyTypes
    <3> QED BY <1>1, <1>7, <3>1
  <2>2. PICK k \in DOMAIN frontier : IsBegun(c, frontier[k])
    BY <2>1, <1>7 DEF WalkOK, NothingOverlooked
  <2>3. Len(c) = n
    BY <2>1, <1>7 DEF OpenChains
  <2>4. Len(frontier[1].path) <= Len(frontier[k].path)
    BY <1>1, <2>2 DEF WalkOK, InWidth, TrustTyped
  <2>5. Len(frontier[k].path) \in Nat
    BY <2>2, EntryTyped
  <2> QED BY <1>1, <2>1, <2>2, <2>3, <2>4, <2>5 DEF IsBegun, Entry
<1>8. \A n \in 1..Len(p) - 1 : OpenChains(Signer, n) = {}
  BY <1>7
<1>9. Led(Signer, "VALID_DELEGATION", d.by, p)
  BY <1>6, <1>8 DEF Led
<1> QED BY <1>3, <1>4, <1>9

\* No chain is overlooked once the frontier is empty.
LEMMA ExhaustedLeads ==
  ASSUME TrustTyped, WalkOK, frontier = <<>>, NEW s, s # "DIRECT_ROOT", s # "VALID_DELEGATION"
  PROVE  Led(Signer, s, Absent, <<>>)
<1>1. DOMAIN frontier = {}
  OBVIOUS
<1>2. \A n \in 1..policy.depth : OpenChains(Signer, n) = {}
  BY <1>1 DEF WalkOK, NothingOverlooked
<1> QED BY <1>2 DEF Led

\* An entry that is too deep for the policy begins no chain that may anchor.
LEMMA TooDeepBegins ==
  ASSUME TrustTyped, WalkOK, frontier # <<>>, PolicyTooDeep,
         NEW n \in 1..policy.depth, NEW p \in OpenChains(Signer, n)
  PROVE  \E i \in DOMAIN frontier : i # 1 /\ IsBegun(p, frontier[i])
<1>1. PICK i \in DOMAIN frontier : IsBegun(p, frontier[i])
  BY DEF WalkOK, NothingOverlooked
<1>2. Len(p) = n
  BY DEF OpenChains
<1>3. ASSUME i = 1 PROVE FALSE
  <2>1. Len(Entry.path) \in Nat
    BY FirstTyped
  <2>2. Len(Entry.path) < n
    BY <1>1, <1>2, <1>3 DEF IsBegun, Entry
  <2>3. policy.depth \in Nat
    BY DEF TrustTyped, Supplied, PolicyTypes
  <2> QED BY <2>1, <2>2, <2>3 DEF PolicyTooDeep, Depth
<1> QED BY <1>1, <1>3

LEMMA EntryStays ==
  ASSUME UNCHANGED <<supplied, results>>, NEW e
  PROVE  /\ EntryOK(e)' <=> EntryOK(e)
         /\ Signer' = Signer /\ policy' = policy
         /\ \A s, n : OpenChains(s, n)' = OpenChains(s, n)
         /\ \A k : ActiveRoot(k)' <=> ActiveRoot(k)
BY DEF supplied, EntryOK, Signer, Signature, IsAnchored, IsChain, OpenChains, Issued,
   DelegationValid, Pair, ActiveRoot, IsRoot, RootOf, Permits

LEMMA TailTyped ==
  ASSUME TrustTyped, frontier # <<>>
  PROVE  /\ Tail(frontier) \in Seq(Entries)
         /\ Len(Tail(frontier)) = Len(frontier) - 1 /\ Len(frontier) \in Nat \ {0}
         /\ DOMAIN Tail(frontier) = 1..Len(frontier) - 1 /\ DOMAIN frontier = 1..Len(frontier)
         /\ \A i \in 1..Len(frontier) - 1 : Tail(frontier)[i] = frontier[i + 1]
<1>1. frontier \in Seq(Entries)
  BY DEF TrustTyped
<1> QED BY <1>1

LEMMA TooDeepKeepsWalking ==
  ASSUME TrustTyped, pc = "walk", WalkOK, PathTooDeep
  PROVE  WalkOK' /\ frontier' \in Seq(Entries)
<1>1. /\ frontier # <<>> /\ PolicyTooDeep /\ frontier' = Tail(frontier)
      /\ UNCHANGED <<supplied, results>>
  BY DEF PathTooDeep
<1>2. /\ frontier' \in Seq(Entries) /\ DOMAIN frontier' = 1..Len(frontier) - 1
      /\ Len(frontier) \in Nat \ {0} /\ DOMAIN frontier = 1..Len(frontier)
      /\ \A i \in DOMAIN frontier' : frontier'[i] = frontier[i + 1]
  BY <1>1, TailTyped
<1>3. \A i \in DOMAIN frontier' : i + 1 \in DOMAIN frontier
  BY <1>2
<1>4. /\ policy'.delegation /\ ~ActiveRoot(Signer)'
      /\ \A e \in Range(frontier)' : EntryOK(e)'
  <2>1. Range(frontier)' \subseteq Range(frontier)
    BY <1>2, <1>3 DEF Range
  <2> QED BY <1>1, <2>1, EntryStays DEF WalkOK
<1>5. InWidth'
  <2> SUFFICES ASSUME NEW i \in DOMAIN frontier', NEW j \in DOMAIN frontier', i <= j
               PROVE  /\ Len(frontier'[i].path) <= Len(frontier'[j].path)
                      /\ Len(frontier'[j].path) <= Len(frontier'[1].path) + 1
    BY DEF InWidth
  <2>1. i + 1 \in DOMAIN frontier /\ j + 1 \in DOMAIN frontier /\ i + 1 <= j + 1
        /\ 1 \in DOMAIN frontier /\ 2 \in DOMAIN frontier /\ 1 \in DOMAIN frontier'
    BY <1>2
  <2>2. /\ Len(frontier[i + 1].path) <= Len(frontier[j + 1].path)
        /\ Len(frontier[j + 1].path) <= Len(frontier[1].path) + 1
        /\ Len(frontier[1].path) <= Len(frontier[2].path)
    <3>1. InWidth
      BY DEF WalkOK
    <3>2. \A m, n \in DOMAIN frontier : m <= n =>
            /\ Len(frontier[m].path) <= Len(frontier[n].path)
            /\ Len(frontier[n].path) <= Len(frontier[1].path) + 1
      BY <3>1 DEF InWidth
    <3>3. 1 <= 2
      OBVIOUS
    <3> QED BY <2>1, <3>2, <3>3
  <2>3. /\ Len(frontier[1].path) \in Nat /\ Len(frontier[2].path) \in Nat
        /\ Len(frontier[j + 1].path) \in Nat
    BY <2>1, EntryTyped
  <2>4. /\ frontier'[i] = frontier[i + 1] /\ frontier'[j] = frontier[j + 1]
        /\ frontier'[1] = frontier[2]
    <3>1. 1 + 1 = 2
      OBVIOUS
    <3> QED BY <1>2, <2>1, <3>1
  <2> QED BY <2>2, <2>3, <2>4
<1>6. NothingOverlooked'
  <2> SUFFICES ASSUME NEW n \in 1..policy.depth, NEW p \in OpenChains(Signer, n)
               PROVE  \E i \in DOMAIN frontier' : IsBegun(p, frontier'[i])
    <3>1. policy' = policy /\ \A n \in 1..policy.depth : OpenChains(Signer, n)' = OpenChains(Signer, n)
      BY <1>1, EntryStays
    <3> QED BY <3>1 DEF NothingOverlooked, IsBegun
  <2>1. PICK i \in DOMAIN frontier : i # 1 /\ IsBegun(p, frontier[i])
    BY <1>1, TooDeepBegins
  <2>2. i - 1 \in DOMAIN frontier' /\ frontier'[i - 1] = frontier[i]
    BY <1>2, <2>1
  <2> QED BY <2>1, <2>2
<1> QED BY <1>2, <1>4, <1>5, <1>6 DEF WalkOK

LEMMA ExtendedTyped ==
  ASSUME TrustTyped, pc = "walk", frontier # <<>>, ~PolicyTooDeep, WalkOK,
         NEW q \in InOrder({i \in Candidates : Extends(Listed(i))})
  PROVE  LET new == [n \in DOMAIN q |-> Extension(Listed(q[n]))] IN
         /\ new \in Seq(Entries) /\ DOMAIN new = DOMAIN q
         /\ \A n \in DOMAIN q : /\ new[n].path = Append(Entry.path, Listed(q[n]))
                                /\ Len(new[n].path) = Len(Entry.path) + 1
                                /\ EntryOK(new[n])
<1> DEFINE S == {i \in Candidates : Extends(Listed(i))}
           new == [n \in DOMAIN q |-> Extension(Listed(q[n]))]
<1>1. q \in [1..Cardinality(S) -> S] /\ Range(q) = S
  BY DEF InOrder
<1>2. Cardinality(S) \in Nat
  <2>1. bundle.delegations \in Seq(Delegations)
    BY DEF TrustTyped, Supplied, IsBundle
  <2>2. DOMAIN bundle.delegations = 1..Len(bundle.delegations)
        /\ Len(bundle.delegations) \in Nat
    BY <2>1
  <2>3. IsFiniteSet(1..Len(bundle.delegations))
    <3>1. 1 \in Int /\ Len(bundle.delegations) \in Int
      BY <2>2
    <3> QED BY <3>1, FS_Interval
  <2>4. IsFiniteSet(S)
    BY <2>2, <2>3, FS_Subset DEF Candidates
  <2> QED BY <2>4, FS_CardinalityType
<1>3. ASSUME NEW n \in DOMAIN q
      PROVE  /\ new[n] \in Entries /\ new[n].path = Append(Entry.path, Listed(q[n]))
             /\ Len(new[n].path) = Len(Entry.path) + 1
             /\ EntryOK(new[n])
  <2> DEFINE d == Listed(q[n])
             e == Extension(d)
  <2>1. q[n] \in Candidates /\ Extends(d)
    BY <1>1
  <2>2. EntryOK(Entry)
    BY FirstTyped DEF WalkOK, Entry, Range
  <2>3. /\ Append(Entry.path, d) \in Seq(Delegations) /\ d \in Delegations
        /\ Len(Append(Entry.path, d)) = Len(Entry.path) + 1
        /\ Len(Append(Entry.path, d)) \in 1..policy.depth
        /\ Append(Entry.path, d)[Len(Append(Entry.path, d))] = d
        /\ \A j \in 1..Len(Entry.path) : Append(Entry.path, d)[j] = Entry.path[j]
        /\ IsChain(Signer, Append(Entry.path, d))
    BY <2>1, <2>2, ChainGrows DEF Extends
  <2> DEFINE p == Append(Entry.path, d)
             L == Len(Entry.path)
  <2>4. e.key = d.by /\ e.path = p /\ e.visited = Entry.visited \cup {d.by}
    BY DEF Extension
  <2>5. Entry \in Entries /\ d.by \in Keys /\ L \in Nat
    BY <2>3, FirstTyped DEF Delegations
  <2>6. e \in Entries
    BY <2>3, <2>5 DEF Extension, Entries
  <2>7. DOMAIN p = 1..L + 1 /\ DOMAIN Entry.path = 1..L /\ p # <<>>
    BY <2>3, <2>5, FirstTyped
  <2>8. e.visited = {Signer} \cup {p[j].by : j \in DOMAIN p}
    <3>1. {p[j].by : j \in 1..L + 1} = {Entry.path[j].by : j \in 1..L} \cup {d.by}
      <4>1. p[L + 1] = d
        BY <2>3
      <4>2. \A j \in 1..L + 1 : j \in 1..L \/ j = L + 1
        BY <2>5
      <4>3. 1..L \subseteq 1..L + 1 /\ L + 1 \in 1..L + 1
        BY <2>5
      <4> QED BY <2>3, <4>1, <4>2, <4>3
    <3> QED BY <2>2, <2>4, <2>7, <3>1 DEF EntryOK
  <2>9. \A j \in DOMAIN p : ~ActiveRoot(p[j].by)
    <3>1. ~ActiveRoot(d.by)
      BY <2>1 DEF Extends
    <3>2. \A j \in 1..L : ~ActiveRoot(Entry.path[j].by)
      BY <2>2, <2>7 DEF EntryOK
    <3>3. \A j \in 1..L + 1 : j \in 1..L \/ j = Len(p)
      BY <2>3, <2>5
    <3> QED BY <2>3, <2>7, <3>1, <3>2, <3>3
  <2>10. EntryOK(e)
    <3>1. Len(p) <= policy.depth
      BY <2>3 DEF TrustTyped, Supplied, PolicyTypes
    <3>2. e.key = IF p = <<>> THEN Signer ELSE p[Len(p)].by
      BY <2>3, <2>4, <2>7
    <3> QED BY <2>3, <2>4, <2>8, <2>9, <3>1, <3>2 DEF EntryOK
  <2>11. new[n] = e
    OBVIOUS
  <2> QED BY <2>3, <2>4, <2>6, <2>10, <2>11
<1>4. new \in Seq(Entries)
  <2>1. DOMAIN q = 1..Cardinality(S)
    BY <1>1
  <2> HIDE DEF S
  <2> QED BY <1>2, <1>3, <2>1
<1> QED BY <1>3, <1>4

\* A chain that passes through the entry at hand goes on over a delegation that
\* ends the walk or extends it.
LEMMA ChainGoesOn ==
  ASSUME TrustTyped, pc = "walk", frontier # <<>>, ~PolicyTooDeep, WalkOK,
         \A i \in Candidates : ~Anchors(Listed(i)),
         NEW n \in 1..policy.depth, NEW p \in OpenChains(Signer, n), IsBegun(p, Entry)
  PROVE  /\ Len(Entry.path) + 1 < n
         /\ \E i \in Candidates : Extends(Listed(i)) /\ Listed(i) = p[Len(Entry.path) + 1]
<1> DEFINE L == Len(Entry.path)
           d == p[L + 1]
<1>1. /\ Entry.path \in Seq(Delegations) /\ L \in Nat /\ DOMAIN Entry.path = 1..L
      /\ n \in Nat /\ policy.depth \in Nat
  BY FirstTyped DEF TrustTyped, Supplied, PolicyTypes
<1>2. PICK r \in Keys : IsAnchored(Signer, r, p)
  BY DEF OpenChains
<1>3. /\ p \in [1..n -> Issued] /\ Len(p) = n /\ L < n /\ \A j \in 1..L : Entry.path[j] = p[j]
      /\ \A i \in 1..n-1 : ~ActiveRoot(p[i].by)
  BY <1>1 DEF OpenChains, IsBegun
<1>4. L + 1 \in 1..n
  BY <1>1, <1>3
<1>5. /\ d \in Issued /\ DelegationValid(d) /\ L <= d.depth
      /\ d.to = IF L + 1 = 1 THEN Signer ELSE p[L].by
      /\ d.by # Signer /\ \A j \in 1..L : d.by # p[j].by
  <2>1. /\ d \in Issued /\ DelegationValid(d) /\ L + 1 - 1 <= d.depth
        /\ d.to = IF L + 1 = 1 THEN Signer ELSE p[L + 1 - 1].by
        /\ d.by # Signer /\ \A j \in 1..L + 1 - 1 : d.by # p[j].by
    BY <1>2, <1>3, <1>4 DEF IsAnchored, IsChain
  <2>2. L + 1 - 1 = L
    BY <1>1
  <2> QED BY <2>1, <2>2
<1>6. EntryOK(Entry)
  BY FirstTyped DEF WalkOK, Entry, Range
<1>7. d.to = Entry.key
  <2>1. CASE L = 0
    BY <1>1, <1>5, <1>6, <2>1 DEF EntryOK
  <2>2. CASE L # 0
    <3>1. Entry.path # <<>> /\ L + 1 # 1 /\ L \in 1..L
      BY <1>1, <2>2
    <3> QED BY <1>3, <1>5, <1>6, <3>1 DEF EntryOK
  <2> QED BY <2>1, <2>2
<1>8. ~Visited(d)
  BY <1>1, <1>3, <1>5, <1>6 DEF Visited, EntryOK
<1>9. PICK i \in DOMAIN bundle.delegations : Listed(i) = d
  BY <1>5 DEF Issued, Range, Listed
<1>10. i \in Candidates
  BY <1>5, <1>7, <1>9 DEF Candidates, Candidate, Subordinate
<1>11. L + 1 # n
  <2> SUFFICES ASSUME L + 1 = n PROVE FALSE
    OBVIOUS
  <2>1. /\ r = d.by /\ ActiveRoot(r) /\ RootOf(r).delegates /\ n <= RootOf(r).depth /\ Permits(r)
    BY <1>2, <1>3 DEF IsAnchored
  <2>2. RootOf(r).depth \in Nat
    BY <2>1 DEF ActiveRoot, IsRoot, RootOf, TrustTyped, Supplied, IsBundle, Roots, Range
  <2>3. Anchors(d)
    BY <1>1, <1>8, <2>1, <2>2 DEF Anchors, RootTooDeep, Depth
  <2> QED BY <1>9, <1>10, <2>3
<1>12. L + 1 < n
  BY <1>1, <1>3, <1>11
<1>13. Extends(d)
  BY <1>1, <1>3, <1>8, <1>12 DEF Extends
<1> QED BY <1>9, <1>10, <1>12, <1>13

LEMMA ExpandKeepsWalking ==
  ASSUME TrustTyped, pc = "walk", WalkOK, Expand
  PROVE  WalkOK' /\ frontier' \in Seq(Entries)
<1> DEFINE S == {i \in Candidates : Extends(Listed(i))}
           L == Len(Entry.path)
           w == Len(frontier) - 1
<1>1. /\ frontier # <<>> /\ ~PolicyTooDeep /\ UNCHANGED <<supplied, results>>
      /\ \A i \in Candidates : ~Anchors(Listed(i))
  BY DEF Expand
<1>2. PICK q \in InOrder(S) : frontier' = Queued(q)
  BY DEF Expand
<1> DEFINE new == [n \in DOMAIN q |-> Extension(Listed(q[n]))]
<1>3. /\ new \in Seq(Entries) /\ DOMAIN new = DOMAIN q
      /\ \A n \in DOMAIN q : /\ new[n].path = Append(Entry.path, Listed(q[n]))
                             /\ Len(new[n].path) = L + 1
                             /\ EntryOK(new[n])
  BY <1>1, ExtendedTyped
<1>4. /\ Tail(frontier) \in Seq(Entries) /\ Len(Tail(frontier)) = w /\ w \in Nat
      /\ DOMAIN frontier = 1..w + 1
      /\ \A i \in 1..w : Tail(frontier)[i] = frontier[i + 1]
  BY <1>1, TailTyped
<1>5. frontier' = Tail(frontier) \o new
  BY <1>2 DEF Queued
<1> HIDE DEF new
<1>6. /\ frontier' \in Seq(Entries) /\ DOMAIN new = 1..Len(new) /\ Len(new) \in Nat
      /\ DOMAIN frontier' = 1..w + Len(new)
      /\ \A i \in 1..w : frontier'[i] = frontier[i + 1]
      /\ \A n \in 1..Len(new) : frontier'[w + n] = new[n]
  BY <1>3, <1>4, <1>5
<1>7. \A i \in DOMAIN frontier' :
        \/ i \in 1..w /\ i + 1 \in DOMAIN frontier /\ frontier'[i] = frontier[i + 1]
        \/ i > w /\ i - w \in DOMAIN new /\ frontier'[i] = new[i - w]
  <2> TAKE i \in DOMAIN frontier'
  <2>1. CASE i <= w
    BY <1>4, <1>6, <2>1
  <2>2. CASE i > w
    <3>1. i - w \in 1..Len(new) /\ w + (i - w) = i
      BY <1>4, <1>6, <2>2
    <3> QED BY <1>6, <2>2, <3>1
  <2> QED BY <1>4, <1>6, <2>1, <2>2
<1>8. /\ policy'.delegation /\ ~ActiveRoot(Signer)'
      /\ \A e \in Range(frontier)' : EntryOK(e)'
  <2>1. \A e \in Range(frontier)' : EntryOK(e)
    BY <1>3, <1>7 DEF Range, WalkOK
  <2> QED BY <1>1, <2>1, EntryStays DEF WalkOK
<1>9. L \in Nat /\ 1 \in DOMAIN frontier
  BY <1>1, FirstTyped
<1>10. \A i \in DOMAIN frontier : /\ Len(frontier[i].path) \in Nat /\ L <= Len(frontier[i].path)
                                  /\ Len(frontier[i].path) <= L + 1
  <2>1. \A i \in DOMAIN frontier : 1 <= i
    BY <1>4
  <2> QED BY <1>9, <2>1, EntryTyped DEF WalkOK, InWidth, Entry
<1>11. InWidth'
  <2> SUFFICES ASSUME NEW i \in DOMAIN frontier', NEW j \in DOMAIN frontier', i <= j
               PROVE  /\ Len(frontier'[i].path) <= Len(frontier'[j].path)
                      /\ Len(frontier'[j].path) <= Len(frontier'[1].path) + 1
    BY DEF InWidth
  <2>1. ASSUME NEW k \in DOMAIN frontier'
        PROVE  /\ Len(frontier'[k].path) \in Nat
               /\ L <= Len(frontier'[k].path) /\ Len(frontier'[k].path) <= L + 1
               /\ k > w => Len(frontier'[k].path) = L + 1
    <3>1. CASE k \in 1..w /\ k + 1 \in DOMAIN frontier /\ frontier'[k] = frontier[k + 1]
      BY <1>4, <1>10, <3>1
    <3>2. CASE k > w /\ k - w \in DOMAIN new /\ frontier'[k] = new[k - w]
      BY <1>3, <1>9, <3>2
    <3> QED BY <1>7, <3>1, <3>2
  <2>2. 1 \in DOMAIN frontier'
    BY <1>4, <1>6
  <2>3. CASE j > w
    BY <1>9, <2>1, <2>2, <2>3
  <2>4. CASE j <= w
    <3>1. /\ i \in 1..w /\ j \in 1..w /\ i + 1 \in DOMAIN frontier /\ j + 1 \in DOMAIN frontier
          /\ i + 1 <= j + 1
      BY <1>4, <1>6, <2>4
    <3>2. Len(frontier[i + 1].path) <= Len(frontier[j + 1].path)
      BY <3>1 DEF WalkOK, InWidth
    <3>3. frontier'[i] = frontier[i + 1] /\ frontier'[j] = frontier[j + 1]
      BY <1>6, <3>1
    <3>4. /\ Len(frontier'[j].path) <= L + 1 /\ L <= Len(frontier'[1].path)
          /\ Len(frontier'[j].path) \in Nat /\ Len(frontier'[1].path) \in Nat
      BY <2>1, <2>2
    <3> QED BY <1>9, <3>2, <3>3, <3>4
  <2> QED BY <1>4, <1>6, <2>3, <2>4
<1>12. NothingOverlooked'
  <2> SUFFICES ASSUME NEW n \in 1..policy.depth, NEW p \in OpenChains(Signer, n)
               PROVE  \E i \in DOMAIN frontier' : IsBegun(p, frontier'[i])
    BY <1>1, EntryStays DEF NothingOverlooked
  <2>1. PICK i \in DOMAIN frontier : IsBegun(p, frontier[i])
    BY DEF WalkOK, NothingOverlooked
  <2>2. CASE i # 1
    <3>1. i - 1 \in 1..w /\ i - 1 + 1 = i
      BY <1>4, <2>1, <2>2
    <3>2. i - 1 \in DOMAIN frontier' /\ frontier'[i - 1] = frontier[i]
      BY <1>4, <1>6, <3>1
    <3> QED BY <2>1, <3>2
  <2>3. CASE i = 1
    <3>1. IsBegun(p, Entry)
      BY <2>1, <2>3 DEF Entry
    <3>2. L + 1 < n /\ \E x \in Candidates : Extends(Listed(x)) /\ Listed(x) = p[L + 1]
      BY <1>1, <3>1, ChainGoesOn
    <3>3. PICK x \in S : Listed(x) = p[L + 1]
      BY <3>2
    <3>4. PICK m \in DOMAIN q : q[m] = x
      BY <3>3 DEF InOrder, Range
    <3>5. /\ new[m].path = Append(Entry.path, p[L + 1]) /\ Len(new[m].path) = L + 1
      BY <1>3, <3>3, <3>4
    <3>6. Entry.path \in Seq(Delegations)
      BY <1>1, FirstTyped
    <3>7. Len(p) = n
      BY DEF OpenChains
    <3>8. \A j \in 1..L + 1 : Append(Entry.path, p[L + 1])[j] = p[j]
      <4> TAKE j \in 1..L + 1
      <4>1. CASE j \in 1..L
        BY <1>9, <3>1, <3>6, <4>1 DEF IsBegun
      <4>2. CASE j = L + 1
        BY <1>9, <3>6, <4>2
      <4> QED BY <1>9, <4>1, <4>2
    <3>9. IsBegun(p, new[m])
      BY <3>2, <3>5, <3>7, <3>8 DEF IsBegun
    <3>10. m \in 1..Len(new) /\ w + m \in DOMAIN frontier' /\ frontier'[w + m] = new[m]
      BY <1>3, <1>4, <1>6, <3>4
    <3> QED BY <3>9, <3>10
  <2> QED BY <2>2, <2>3
<1> QED BY <1>6, <1>8, <1>11, <1>12 DEF WalkOK

(***************************************************************************)
(* The steps outside the walk.                                             *)
(***************************************************************************)
\* Nothing of the results changes with the inputs and the results unchanged.
ResultsSure ==
  /\ \A i \in DOMAIN results : results[i].key = envelope.signatures[i].key
  /\ \A r \in Range(results) : Sure(r)

LEMMA ResultsStay ==
  ASSUME ResultsSure, UNCHANGED <<supplied, results>>
  PROVE  ResultsSure'
BY SureStays DEF ResultsSure, supplied, Range

LEMMA LeadsLed ==
  ASSUME UNCHANGED <<supplied, results>>, NEW d, NEW r, NEW p, Led(Signer, d, r, p),
         delegation' = d, root' = r, path' = p
  PROVE  LedNow'
<1>1. Signer' = Signer
  BY DEF supplied, Signer, Signature
<1>2. \A s : Led(s, d, r, p)' <=> Led(s, d, r, p)
  BY LedStays
<1> QED BY <1>1, <1>2 DEF LedNow

\* A step that finds a path, or finds that there is none.
LEMMA LeadsKeeps ==
  ASSUME TrustInv, pc \in {"path", "walk"}, NEW d \in DelegationStatuses,
         NEW r \in Keys \cup {Absent}, NEW p \in Seq(Delegations), Leads(d, r, p),
         Led(Signer, d, r, p), UNCHANGED <<supplied, walk, results, overall>>
  PROVE  TrustInv'
<1>1. delegation' = d /\ root' = r /\ path' = p /\ pc' = "judge"
  BY DEF Leads
<1>2. TrustTyped /\ ResultsSure
  BY DEF TrustInv, ResultsSure
<1>3. ResultsSure'
  BY <1>2, ResultsStay
<1>4. LedNow'
  BY <1>1, LeadsLed
<1>5. TrustTyped'
  BY <1>1, <1>2 DEF TrustTyped, Supplied, supplied, walk
<1> QED BY <1>1, <1>3, <1>4, <1>5 DEF TrustInv, ResultsSure, Walking

LEMMA DirectRootKeeps ==
  ASSUME TrustInv, DirectRoot
  PROVE  TrustInv'
<1>1. pc = "path" /\ ActiveRoot(Signer) /\ UNCHANGED <<supplied, walk, results, overall>>
      /\ Leads(IF Permits(Signer) THEN "DIRECT_ROOT" ELSE "INVALID_DELEGATION", Signer, <<>>)
  BY DEF DirectRoot
<1>2. Signer \in Keys
  BY <1>1, SignerTyped DEF TrustInv
<1>3. <<>> \in Seq(Delegations)
  OBVIOUS
<1>4. CASE Permits(Signer)
  <2>1. Led(Signer, "DIRECT_ROOT", Signer, <<>>)
    BY <1>1, <1>4 DEF Led, IsRooted
  <2> QED BY <1>1, <1>2, <1>3, <1>4, <2>1, LeadsKeeps DEF DelegationStatuses
<1>5. CASE ~Permits(Signer)
  <2>1. Led(Signer, "INVALID_DELEGATION", Signer, <<>>)
    BY <1>1 DEF Led
  <2> QED BY <1>1, <1>2, <1>3, <1>5, <2>1, LeadsKeeps DEF DelegationStatuses
<1> QED BY <1>4, <1>5

LEMMA NoDelegationKeeps ==
  ASSUME TrustInv, NoDelegation
  PROVE  TrustInv'
<1>1. /\ pc = "path" /\ ~policy.delegation /\ UNCHANGED <<supplied, walk, results, overall>>
      /\ Leads("NOT_APPLICABLE", Absent, <<>>)
  BY DEF NoDelegation
<1>2. Led(Signer, "NOT_APPLICABLE", Absent, <<>>)
  BY <1>1 DEF Led, OpenChains, IsAnchored
<1>3. <<>> \in Seq(Delegations)
  OBVIOUS
<1> QED BY <1>1, <1>2, <1>3, LeadsKeeps DEF DelegationStatuses

LEMMA StartWalkKeeps ==
  ASSUME TrustInv, StartWalk
  PROVE  TrustInv'
<1> DEFINE e == [key |-> Signer, path |-> <<>>, visited |-> {Signer}]
<1>1. /\ pc = "path" /\ pc' = "walk" /\ ~ActiveRoot(Signer) /\ policy.delegation
      /\ frontier' = <<e>> /\ sawCycle' = FALSE /\ sawDepth' = FALSE
      /\ UNCHANGED <<supplied, anchored, results, overall>>
  BY DEF StartWalk
<1>2. TrustTyped /\ ResultsSure /\ Signer \in Keys
  BY <1>1, SignerTyped DEF TrustInv, ResultsSure
<1>3. e \in Entries
  BY <1>2 DEF Entries
<1>4. frontier' \in Seq(Entries) /\ DOMAIN frontier' = {1} /\ frontier'[1] = e
  BY <1>1, <1>3
<1>5. TrustTyped'
  BY <1>1, <1>2, <1>4 DEF TrustTyped, Supplied, supplied, anchored
<1>6. policy.depth \in Nat
  BY <1>2 DEF TrustTyped, Supplied, PolicyTypes
<1>7. EntryOK(e)
  <2>1. DOMAIN <<>> = {} /\ Len(<<>>) = 0
    OBVIOUS
  <2> QED BY <1>6, <2>1 DEF EntryOK, IsChain
<1>8. NothingOverlooked'
  <2> SUFFICES ASSUME NEW n \in 1..policy.depth, NEW p \in OpenChains(Signer, n)
               PROVE  \E i \in DOMAIN frontier' : IsBegun(p, frontier'[i])
    BY <1>1, EntryStays DEF NothingOverlooked
  <2>1. Len(p) = n
    BY <1>6 DEF OpenChains
  <2>2. IsBegun(p, e)
    BY <1>6, <2>1 DEF IsBegun
  <2> QED BY <1>4, <2>2
<1>9. InWidth'
  BY <1>4 DEF InWidth
<1>10. Walking'
  BY <1>1, <1>4, <1>7, <1>8, <1>9, EntryStays DEF Walking, Range
<1>11. ResultsSure'
  BY <1>1, <1>2, ResultsStay
<1> QED BY <1>1, <1>5, <1>10, <1>11 DEF TrustInv, ResultsSure

LEMMA WalkKeeps ==
  ASSUME TrustInv, PathTooDeep \/ Anchor \/ Expand \/ Exhausted
  PROVE  TrustInv'
<1>1. pc = "walk" /\ TrustTyped /\ WalkOK /\ ResultsSure
  BY DEF PathTooDeep, Anchor, Expand, Exhausted, TrustInv, Walking, WalkOK, ResultsSure
<1>2. ASSUME WalkOK', frontier' \in Seq(Entries), sawCycle' \in BOOLEAN, sawDepth' \in BOOLEAN,
             UNCHANGED <<supplied, pc, anchored, results, overall>>
      PROVE  TrustInv'
  <2>1. TrustTyped'
    BY <1>1, <1>2 DEF TrustTyped, Supplied, supplied, anchored
  <2>2. ResultsSure'
    BY <1>1, <1>2, ResultsStay
  <2> QED BY <1>1, <1>2, <2>1, <2>2 DEF TrustInv, ResultsSure, Walking, WalkOK
<1>3. CASE PathTooDeep
  <2>1. sawCycle' \in BOOLEAN /\ sawDepth' \in BOOLEAN
        /\ UNCHANGED <<supplied, pc, anchored, results, overall>>
    BY <1>1, <1>3 DEF PathTooDeep, TrustTyped
  <2> QED BY <1>1, <1>2, <1>3, <2>1, TooDeepKeepsWalking
<1>4. CASE Expand
  <2>1. sawCycle' \in BOOLEAN /\ sawDepth' \in BOOLEAN
        /\ UNCHANGED <<supplied, pc, anchored, results, overall>>
    BY <1>1, <1>4 DEF Expand, TrustTyped
  <2> QED BY <1>1, <1>2, <1>4, <2>1, ExpandKeepsWalking
<1>5. CASE Anchor
  <2>1. PICK i \in Candidates :
          Anchors(Listed(i))
          /\ Leads("VALID_DELEGATION", Listed(i).by, Append(Entry.path, Listed(i)))
    BY <1>5 DEF Anchor
  <2>2. frontier # <<>> /\ ~PolicyTooDeep /\ UNCHANGED <<supplied, walk, results, overall>>
    BY <1>5 DEF Anchor
  <2>3. /\ Led(Signer, "VALID_DELEGATION", Listed(i).by, Append(Entry.path, Listed(i)))
        /\ Append(Entry.path, Listed(i)) \in Seq(Delegations) /\ Listed(i).by \in Keys
    BY <1>1, <2>1, <2>2, AnchorLeads
  <2> QED BY <1>1, <2>1, <2>2, <2>3, LeadsKeeps DEF DelegationStatuses
<1>6. CASE Exhausted
  <2>1. PICK d \in {"CYCLE_DETECTED", "DEPTH_EXCEEDED", "INVALID_DELEGATION"} :
          Leads(d, Absent, <<>>)
    BY <1>6 DEF Exhausted
  <2>2. frontier = <<>> /\ UNCHANGED <<supplied, walk, results, overall>>
    BY <1>6 DEF Exhausted
  <2>3. Led(Signer, d, Absent, <<>>)
    BY <1>1, <2>1, <2>2, ExhaustedLeads
  <2>4. d \in DelegationStatuses /\ <<>> \in Seq(Delegations)
    BY <2>1 DEF DelegationStatuses
  <2> QED BY <1>1, <2>1, <2>2, <2>3, <2>4, LeadsKeeps
<1> QED BY <1>3, <1>4, <1>5, <1>6

(***************************************************************************)
(* The judgement on one signature.                                         *)
(***************************************************************************)
LEMMA StatusesTyped ==
  ASSUME TrustTyped
  PROVE  /\ Revocation \in Statuses
         /\ Expiration \in {"VALID", "EXPIRED", "NOT_YET_VALID", "NOT_EVALUATED", "UNAVAILABLE"}
<1>1. Revocation \in {"NOT_EVALUATED", "SUPERSEDED", "WITHDRAWN", "REVOKED", "NOT_REVOKED"}
  BY FirstOfFour DEF Revocation
<1>2. Expiration \in {"VALID", "EXPIRED", "NOT_YET_VALID", "NOT_EVALUATED", "UNAVAILABLE"}
  BY FirstOfThree DEF Expiration
<1> QED BY <1>1, <1>2 DEF Statuses, Fatal

\* What a revocation that concerns the signature does to its status.
LEMMA RevocationShows ==
  ASSUME TrustTyped, NEW r, RestsOn(r) = Targets
  PROVE  /\ InForce(r) => Revocation \in Fatal \/ Revocation = "NOT_EVALUATED"
         /\ Undecided(r) <=> Revocation = "NOT_EVALUATED"
<1> DEFINE S == StatusesOf(Targets)
<1>1. \A v \in bundle.revocations : v.status \in Fatal /\ v.at \in Nat \cup {Absent}
  BY DEF TrustTyped, Supplied, IsBundle, Revocations
<1>2. envelope.time \in Nat \cup {Absent} /\ Absent \notin Nat
  BY InputAssumption DEF TrustTyped, Supplied, EnvelopeTypes
<1>3. Revocation = IF "NOT_EVALUATED" \in S THEN "NOT_EVALUATED"
                   ELSE IF "SUPERSEDED" \in S THEN "SUPERSEDED"
                   ELSE IF "WITHDRAWN" \in S THEN "WITHDRAWN"
                   ELSE IF "REVOKED" \in S THEN "REVOKED" ELSE "NOT_REVOKED"
  BY FirstOfFour DEF Revocation
<1>4. \A v \in Concerning(r) : EffectiveStatus(v) \in S /\ v \in bundle.revocations
  BY DEF Concerning, StatusesOf
<1>5. ASSUME InForce(r)
      PROVE  Revocation \in Fatal \/ Revocation = "NOT_EVALUATED"
  <2>1. PICK v \in Concerning(r) :
          v.at = Absent \/ (envelope.time # Absent /\ v.at <= envelope.time)
    BY <1>5 DEF InForce
  <2>2. v.status \in Fatal /\ v.at \in Nat \cup {Absent} /\ EffectiveStatus(v) \in S
    BY <1>1, <1>4, <2>1
  <2>3. EffectiveStatus(v) = v.status
    BY <1>2, <2>1, <2>2 DEF EffectiveStatus
  <2> QED BY <1>3, <2>2, <2>3 DEF Fatal
<1>6. ASSUME Undecided(r)
      PROVE  Revocation = "NOT_EVALUATED"
  <2>1. PICK v \in Concerning(r) : v.at # Absent /\ envelope.time = Absent
    BY <1>6 DEF Undecided
  <2>2. EffectiveStatus(v) = "NOT_EVALUATED"
    BY <2>1 DEF EffectiveStatus
  <2> QED BY <1>3, <1>4, <2>2
<1>7. ASSUME Revocation = "NOT_EVALUATED"
      PROVE  Undecided(r)
  <2>1. "NOT_EVALUATED" \in S
    BY <1>3, <1>7
  <2>2. PICK v \in bundle.revocations :
          policy.accept /\ v.of \in Targets /\ EffectiveStatus(v) = "NOT_EVALUATED"
    BY <2>1 DEF StatusesOf
  <2>3. v.at # Absent /\ envelope.time = Absent
    BY <1>1, <2>2 DEF EffectiveStatus, Fatal
  <2> QED BY <2>2, <2>3 DEF Undecided, Concerning
<1> QED BY <1>5, <1>6, <1>7

LEMMA ExpirationShows ==
  ASSUME TrustTyped, ExpirationOk, NEW t \in Targets \cup {TheBundle}
  PROVE  InWindow(t)
<1> SUFFICES ASSUME t \in DOMAIN bundle.windows
             PROVE  ExpirationOf(t) = "VALID" \/ (envelope.time = Absent /\ ~policy.requireExpiration)
  BY DEF InWindow
<1> DEFINE S == {ExpirationOf(x) : x \in Bounding}
<1>1. t \in Bounding /\ ExpirationOf(t) \in S
  BY DEF Bounding
<1>2. Expiration = IF "EXPIRED" \in S THEN "EXPIRED"
                   ELSE IF "NOT_YET_VALID" \in S THEN "NOT_YET_VALID"
                   ELSE IF "NOT_EVALUATED" \in S THEN "NOT_EVALUATED" ELSE "VALID"
  BY <1>1, FirstOfThree DEF Expiration
<1>3. "EXPIRED" \notin S /\ "NOT_YET_VALID" \notin S
      /\ ("NOT_EVALUATED" \in S => ~policy.requireExpiration)
  BY <1>2 DEF ExpirationOk
<1>4. ExpirationOf(t) = "VALID" \/ ExpirationOf(t) = "NOT_EVALUATED"
  <2>1. ExpirationOf(t) \in {"VALID", "NOT_EVALUATED", "NOT_YET_VALID", "EXPIRED"}
    BY DEF ExpirationOf
  <2>2. ExpirationOf(t) # "NOT_YET_VALID" /\ ExpirationOf(t) # "EXPIRED"
    <3> HIDE DEF S
    <3> QED BY <1>1, <1>3
  <2> QED BY <2>1, <2>2
<1>5. CASE ExpirationOf(t) = "VALID"
  BY <1>5
<1>6. CASE ExpirationOf(t) = "NOT_EVALUATED"
  <2>1. envelope.time = Absent
    BY <1>6 DEF ExpirationOf
  <2>2. ~policy.requireExpiration
    <3> HIDE DEF S
    <3> QED BY <1>1, <1>3, <1>6
  <2> QED BY <2>1, <2>2
<1> QED BY <1>4, <1>5, <1>6

LEMMA JudgeKeeps ==
  ASSUME TrustInv, Judge
  PROVE  TrustInv'
<1> DEFINE made == [key |-> Signer, delegation |-> delegation, root |-> root, path |-> path,
                    revocation |-> Revocation, expiration |-> Expiration,
                    trusted |-> Signature.valid /\ Signature.meets /\ PathTrusted
                                  /\ RevocationOk /\ ExpirationOk]
<1>1. /\ pc = "judge" /\ results' = Append(results, made)
      /\ pc' = IF Len(results) + 1 < Len(envelope.signatures) THEN "path" ELSE "total"
      /\ UNCHANGED <<supplied, walk, anchored, overall>>
  BY DEF Judge
<1>2. TrustTyped /\ ResultsSure /\ LedNow
  BY <1>1 DEF TrustInv, ResultsSure
<1>3. Signature \in Signatures /\ Signer \in Keys
  BY <1>1, <1>2, SignerTyped
<1>4. made \in ResultTypes
  <2>1. made.trusted \in BOOLEAN
    BY <1>3 DEF Signatures
  <2>2. Revocation \in Statuses
        /\ Expiration \in {"VALID", "EXPIRED", "NOT_YET_VALID", "NOT_EVALUATED", "UNAVAILABLE"}
    BY <1>2, StatusesTyped
  <2>3. delegation \in DelegationStatuses /\ root \in Keys \cup {Absent}
        /\ path \in Seq(Delegations)
    BY <1>2 DEF TrustTyped
  <2> QED BY <1>3, <2>1, <2>2, <2>3 DEF ResultTypes
<1>5. /\ results' \in Seq(ResultTypes) /\ Len(results') = Len(results) + 1
      /\ Len(results) \in Nat /\ DOMAIN results' = 1..Len(results) + 1
      /\ DOMAIN results = 1..Len(results)
      /\ \A i \in 1..Len(results) : results'[i] = results[i]
      /\ results'[Len(results) + 1] = made
  <2>1. results \in Seq(ResultTypes)
    BY <1>2 DEF TrustTyped
  <2> HIDE DEF made
  <2> QED BY <1>1, <1>4, <2>1
<1>6. RestsOn(made) = Targets
  BY DEF RestsOn, Targets, Authority
<1>7. Led(made.key, made.delegation, made.root, made.path)
  BY <1>2 DEF LedNow
<1>8. Sure(made)
  <2>1. /\ InForce(made) => Revocation \in Fatal \/ Revocation = "NOT_EVALUATED"
        /\ Undecided(made) <=> Revocation = "NOT_EVALUATED"
    BY <1>2, <1>6, RevocationShows
  <2>2. ASSUME made.trusted
        PROVE  /\ made.delegation \in {"DIRECT_ROOT", "VALID_DELEGATION"}
               /\ InForce(made) \/ Undecided(made) => Masked(made)
               /\ \A t \in RestsOn(made) \cup {TheBundle} : InWindow(t)
    <3>1. PathTrusted /\ RevocationOk /\ ExpirationOk
      BY <2>2
    <3>2. made.delegation \in {"DIRECT_ROOT", "VALID_DELEGATION"}
      BY <3>1 DEF PathTrusted
    <3>3. InForce(made) \/ Undecided(made) => Masked(made)
      BY <2>1, <3>1 DEF RevocationOk, Masked
    <3>4. \A t \in RestsOn(made) \cup {TheBundle} : InWindow(t)
      BY <1>2, <1>6, <3>1, ExpirationShows
    <3> QED BY <3>2, <3>3, <3>4
  <2>3. InForce(made) /\ ~Masked(made) =>
          made.revocation \in Fatal
          \/ (policy.requireRevocation /\ made.revocation = "NOT_EVALUATED")
    <3> SUFFICES ASSUME InForce(made), ~Masked(made)
                 PROVE  Revocation \in Fatal
                        \/ (policy.requireRevocation /\ Revocation = "NOT_EVALUATED")
      OBVIOUS
    <3>1. CASE Revocation \in Fatal
      BY <3>1
    <3>2. CASE Revocation = "NOT_EVALUATED"
      <4>1. Undecided(made)
        BY <2>1, <3>2
      <4>2. policy.requireRevocation
        BY <4>1 DEF Masked
      <4> QED BY <3>2, <4>2
    <3> QED BY <2>1, <3>1, <3>2
  <2> HIDE DEF made
  <2> QED BY <1>7, <2>2, <2>3 DEF Sure
<1>9. ResultsSure'
  <2>1. \A i \in DOMAIN results' : results'[i].key = envelope.signatures[i].key
    <3>1. made.key = envelope.signatures[Len(results) + 1].key
      BY DEF Signer, Signature
    <3> HIDE DEF made
    <3> QED BY <1>2, <1>5, <3>1 DEF ResultsSure
  <2>2. \A r \in Range(results)' : Sure(r)
    <3> HIDE DEF made
    <3>1. Range(results)' \subseteq Range(results) \cup {made}
      BY <1>5 DEF Range
    <3> QED BY <1>2, <1>8, <3>1 DEF ResultsSure
  <2> QED BY <1>1, <2>1, <2>2, SureStays DEF ResultsSure, supplied
<1>10. TrustTyped'
  <2>1. Len(envelope.signatures) \in Nat
    BY <1>2 DEF TrustTyped, Supplied, EnvelopeTypes
  <2>2. Len(results) < Len(envelope.signatures)
    BY <1>1, <1>2 DEF TrustTyped
  <2> QED BY <1>1, <1>2, <1>5, <2>1, <2>2 DEF TrustTyped, Supplied, supplied, walk, anchored
<1> QED BY <1>1, <1>9, <1>10 DEF TrustInv, ResultsSure, Walking

LEMMA TrustInvNext ==
  ASSUME TrustInv, [TrustNext]_trustVars
  PROVE  TrustInv'
<1>1. TrustTyped /\ ResultsSure
  BY DEF TrustInv, ResultsSure
<1>2. CASE VerifyBundle
  <2>1. /\ pc = "bundle" /\ pc' \in {"path", "done"} /\ (pc' = "done" => overall' = "refused")
        /\ UNCHANGED <<supplied, walk, anchored, results>>
    BY <1>2 DEF VerifyBundle
  <2>2. ResultsSure'
    BY <1>1, <2>1, ResultsStay
  <2>3. TrustTyped'
    BY <1>1, <2>1 DEF TrustTyped, Supplied, supplied, walk, anchored
  <2> QED BY <2>1, <2>2, <2>3 DEF TrustInv, ResultsSure, Walking
<1>3. CASE Total
  <2>1. pc = "total" /\ pc' = "done" /\ overall' = Overall
        /\ UNCHANGED <<supplied, walk, anchored, results>>
    BY <1>3 DEF Total
  <2>2. ResultsSure'
    BY <1>1, <2>1, ResultsStay
  <2>3. TrustTyped'
    BY <1>1, <2>1 DEF TrustTyped, Supplied, supplied, walk, anchored
  <2>4. Overall' = Overall
    BY <2>1 DEF supplied, Overall, Seen, SeenExpiration, Accepted
  <2> QED BY <2>1, <2>2, <2>3, <2>4 DEF TrustInv, ResultsSure, Walking
<1>4. CASE TrustDone \/ UNCHANGED trustVars
  <2>1. UNCHANGED trustVars
    BY <1>4 DEF TrustDone
  <2>2. UNCHANGED <<supplied, pc, walk, anchored, results, overall>>
    BY <2>1 DEF trustVars
  <2>3. ResultsSure'
    BY <1>1, <2>2, ResultsStay
  <2>4. TrustTyped'
    BY <1>1, <2>2 DEF TrustTyped, Supplied, supplied, walk, anchored
  <2>5. Overall' = Overall
    BY <2>2 DEF supplied, Overall, Seen, SeenExpiration, Accepted
  <2>6. pc = "judge" => LedNow'
    <3> SUFFICES ASSUME pc = "judge" PROVE LedNow'
      OBVIOUS
    <3>1. PICK s, d, r, p : /\ s = Signer /\ d = delegation /\ r = root /\ p = path
                            /\ Led(s, d, r, p)
      BY DEF TrustInv, LedNow
    <3> QED BY <2>2, <3>1, LeadsLed DEF anchored
  <2>7. pc = "walk" => Walking'
    <3> SUFFICES ASSUME pc = "walk" PROVE Walking'
      OBVIOUS
    <3>1. Walking
      BY DEF TrustInv
    <3>2. frontier' = frontier
      BY <2>2 DEF walk
    <3>3. InWidth' /\ NothingOverlooked'
      BY <2>2, <3>1, <3>2, EntryStays DEF Walking, InWidth, NothingOverlooked
    <3> QED BY <2>2, <3>1, <3>2, <3>3, EntryStays DEF Walking, Range
  <2> QED BY <2>2, <2>3, <2>4, <2>5, <2>6, <2>7 DEF TrustInv, ResultsSure, Walking
<1> QED BY <1>2, <1>3, <1>4, DirectRootKeeps, NoDelegationKeeps, StartWalkKeeps, WalkKeeps,
        JudgeKeeps DEF TrustNext, VerifyEnvelope

LEMMA TrustInvHolds == TrustSpec => []TrustInv
BY TrustInvInit, TrustInvNext, PTL DEF TrustSpec

\* The types of the verification; what is on the frontier of a walk was reached
\* over a chain of delegations without a repeated key (_trust_path).
THEOREM TrustTypeCorrect == TrustSpec => []TrustTypeOK
<1> SUFFICES ASSUME TrustInv PROVE TrustTypeOK
  BY TrustInvHolds, PTL
<1>1. TrustTyped /\ Walking
  BY DEF TrustInv
<1>2. pc = "walk" => \A i \in DOMAIN frontier : EntryOK(frontier[i])
  BY <1>1 DEF Walking, Range
<1> QED BY <1>1, <1>2 DEF TrustTyped, TrustTypeOK, EntryOK

\* The only chains to a root that _trust_path overlooks are those through another
\* active root, and the path found is a shortest one of the others.
THEOREM FindsAnchorHolds == TrustSpec => []FindsAnchor
<1> SUFFICES ASSUME TrustInv PROVE FindsAnchor
  BY TrustInvHolds, PTL
<1>1. \A i \in DOMAIN results : Sure(results[i])
  BY DEF TrustInv, Range
<1>2. ASSUME NEW s, NEW n \in Nat, NEW p \in Chains(s, n), ~ThroughRoot(p)
      PROVE  p \in OpenChains(s, n)
  <2>1. p \in [1..n -> Issued] /\ \E r \in Keys : IsAnchored(s, r, p)
    BY DEF Chains
  <2>2. Len(p) = n
    BY <2>1
  <2> QED BY <1>2, <2>1, <2>2 DEF OpenChains, ThroughRoot
<1> SUFFICES ASSUME NEW i \in DOMAIN results, ~ActiveRoot(results[i].key)
             PROVE  \A n \in 1..(IF results[i].delegation = "VALID_DELEGATION"
                                  THEN Len(results[i].path) - 1 ELSE policy.depth) :
                      \A p \in Chains(results[i].key, n) : ThroughRoot(p)
  BY DEF FindsAnchor
<1>3. \A n \in 1..(IF results[i].delegation = "VALID_DELEGATION"
                   THEN Len(results[i].path) - 1 ELSE policy.depth) :
        OpenChains(results[i].key, n) = {}
  BY <1>1 DEF Sure, Led
<1> QED BY <1>2, <1>3

\* An accepted revocation in force, of anything a signature rests on, ends with
\* exit 2 unless it is masked (_revocation, verify_envelope, trust_verify).
THEOREM UnmaskedIsFatalHolds == TrustSpec => []UnmaskedIsFatal
<1> SUFFICES ASSUME TrustInv PROVE UnmaskedIsFatal
  BY TrustInvHolds, PTL
<1> SUFFICES ASSUME pc = "done", overall # "refused", NEW i \in DOMAIN results,
                    InForce(results[i]), ~Masked(results[i])
             PROVE  TrustExit = 2
  BY DEF UnmaskedIsFatal
<1>1. Sure(results[i]) /\ overall = Overall
  BY DEF TrustInv, Range
<1>2. results[i].revocation \in Seen
  BY DEF Seen
<1>3. \/ Seen \cap Fatal # {}
      \/ policy.requireRevocation /\ "NOT_EVALUATED" \in Seen
  BY <1>1, <1>2 DEF Sure
<1>4. Overall # "TRUSTED_SIGNATURE_WITH_LIMITATIONS" /\ Overall # "PARTIALLY_TRUSTED"
  BY <1>3 DEF Overall
<1> QED BY <1>1, <1>4 DEF TrustExit

\* Exit 0 of trust verify means that as many different keys as the policy wants
\* signed, each anchored in a root, with nothing revoked and nothing out of date
\* (verify_envelope, trust_verify).
THEOREM TrustIsAnchoredHolds == TrustSpec => []TrustIsAnchored
<1> SUFFICES ASSUME TrustInv PROVE TrustIsAnchored
  BY TrustInvHolds, PTL
<1> SUFFICES ASSUME pc = "done", TrustExit = 0
             PROVE  \E S \in SUBSET DOMAIN results :
      /\ Cardinality(S) >= policy.minimum
      /\ \A i, j \in S : results[i].key = results[j].key => i = j
      /\ \A i \in S :
           LET r == results[i]
           IN  /\ \/ r.root = r.key /\ r.path = <<>> /\ ActiveRoot(r.key) /\ Permits(r.key)
                  \/ IsAnchored(r.key, r.root, r.path)
               /\ InForce(r) \/ Undecided(r) => Masked(r)
               /\ \A t \in RestsOn(r) \cup {TheBundle} : InWindow(t)
  BY DEF TrustIsAnchored, InWindow
<1>1. overall = "TRUSTED_SIGNATURE_WITH_LIMITATIONS"
  BY DEF TrustExit
<1>2. Overall = "TRUSTED_SIGNATURE_WITH_LIMITATIONS"
  BY <1>1 DEF TrustInv
<1>3. Cardinality(Accepted) >= policy.minimum
  BY <1>2 DEF Overall
<1>4. Accepted \subseteq DOMAIN results /\ \A i \in Accepted : results[i].trusted
  BY DEF Accepted
<1>5. \A i, j \in Accepted : results[i].key = results[j].key => i = j
  <2>1. DOMAIN results \subseteq DOMAIN envelope.signatures
    <3>1. /\ results \in Seq(ResultTypes) /\ envelope.signatures \in Seq(Signatures)
          /\ Len(results) <= Len(envelope.signatures)
      BY DEF TrustInv, TrustTyped, Supplied, EnvelopeTypes
    <3>2. /\ DOMAIN results = 1..Len(results) /\ Len(results) \in Nat
          /\ DOMAIN envelope.signatures = 1..Len(envelope.signatures)
          /\ Len(envelope.signatures) \in Nat
      BY <3>1
    <3> QED BY <3>1, <3>2
  <2> QED BY <1>4, <2>1 DEF TrustInv, TrustTyped, Supplied
<1>6. ASSUME NEW i \in Accepted
      PROVE  LET r == results[i]
             IN  /\ \/ r.root = r.key /\ r.path = <<>> /\ ActiveRoot(r.key) /\ Permits(r.key)
                    \/ IsAnchored(r.key, r.root, r.path)
                 /\ InForce(r) \/ Undecided(r) => Masked(r)
                 /\ \A t \in RestsOn(r) \cup {TheBundle} : InWindow(t)
  <2>1. Sure(results[i]) /\ results[i].trusted
    BY <1>4 DEF TrustInv, Range
  <2>2. /\ results[i].delegation \in {"DIRECT_ROOT", "VALID_DELEGATION"}
        /\ InForce(results[i]) \/ Undecided(results[i]) => Masked(results[i])
        /\ \A t \in RestsOn(results[i]) \cup {TheBundle} : InWindow(t)
    BY <2>1 DEF Sure
  <2>3. Led(results[i].key, results[i].delegation, results[i].root, results[i].path)
    BY <2>1 DEF Sure
  <2>4. \/ IsRooted(results[i].key, results[i].root, results[i].path)
        \/ IsAnchored(results[i].key, results[i].root, results[i].path)
    BY <2>2, <2>3 DEF Led
  <2> QED BY <2>2, <2>4 DEF IsRooted
<1>7. Accepted \in SUBSET DOMAIN results
  BY <1>4
<1> QED BY <1>3, <1>5, <1>6, <1>7

(***************************************************************************)
(* The verification ends.  What a step uses up, the first that changes     *)
(* counting most: the signatures not yet judged, the stage of the one at   *)
(* hand, how much longer a path may get than the one looked at, and the    *)
(* entries with paths as long as that one.  That a walk in breadth never   *)
(* goes back to a shorter path (InWidth) is what bounds it, for entries    *)
(* are put on the frontier while it goes on.                               *)
(***************************************************************************)
Unjudged == Len(envelope.signatures) - Len(results)
TrustStage ==
  CASE pc = "bundle" -> 5 [] pc = "path" -> 4 [] pc = "walk" -> 3
    [] pc = "judge" -> 2 [] pc = "total" -> 1 [] OTHER -> 0
Longer ==
  IF pc = "walk" /\ frontier # <<>> THEN policy.depth + 1 - Len(frontier[1].path) ELSE 0
Level == {i \in DOMAIN frontier : Len(frontier[i].path) = Len(frontier[1].path)}
TrustRank == <<Unjudged, TrustStage, Longer, Cardinality(Level)>>
TrustRankFalls == <<TrustRank', TrustRank>> \in Descent(4)
TrustRanked ==
  /\ Unjudged \in Nat /\ TrustStage \in Nat /\ Longer \in Nat
  /\ IsFiniteSet(Level) /\ Cardinality(Level) \in Nat

\* There is no infinite descent.
LEMMA DescentEnds == \A n \in Nat : IsWellFoundedOn(Descent(n), Ranks(n))
<1>1. IsWellFoundedOn(Fewer, Nat)
  BY NatLessThanWellFounded DEF OpToRel, Fewer
<1> QED BY <1>1, WFLexProductOrdering DEF Descent, Ranks

\* When a tuple of four is less than another.
LEMMA Descends4 ==
  ASSUME NEW a \in Nat, NEW b \in Nat, NEW c \in Nat, NEW d \in Nat,
         NEW w \in Nat, NEW x \in Nat, NEW y \in Nat, NEW z \in Nat,
         \/ a < w
         \/ a = w /\ b < x
         \/ a = w /\ b = x /\ c < y
         \/ a = w /\ b = x /\ c = y /\ d < z
  PROVE  <<<<a, b, c, d>>, <<w, x, y, z>>>> \in Descent(4)
BY DEF Descent, LexProductOrdering, Fewer

\* The parts of the rank are natural numbers.
LEMMA TrustRankTyped == TrustInv => TrustRanked
<1> SUFFICES ASSUME TrustInv PROVE TrustRanked
  OBVIOUS
<1>1. TrustTyped /\ Walking
  BY DEF TrustInv
<1>2. Unjudged \in Nat
  BY <1>1 DEF Unjudged, TrustTyped, Supplied, EnvelopeTypes
<1>3. TrustStage \in Nat
  BY DEF TrustStage
<1>4. Longer \in Nat
  <2>1. CASE pc = "walk" /\ frontier # <<>>
    <3>1. 1 \in DOMAIN frontier /\ Len(frontier[1].path) \in Nat
      BY <1>1, <2>1, FirstTyped DEF Entry
    <3>2. EntryOK(frontier[1])
      BY <1>1, <2>1, <3>1 DEF Walking, Range
    <3>3. policy.depth \in Nat /\ Len(frontier[1].path) <= policy.depth
      BY <1>1, <3>2 DEF EntryOK, TrustTyped, Supplied, PolicyTypes
    <3> QED BY <2>1, <3>1, <3>3 DEF Longer
  <2> QED BY <2>1 DEF Longer
<1>5. IsFiniteSet(Level) /\ Cardinality(Level) \in Nat
  <2>1. Level \subseteq 1..Len(frontier) /\ Len(frontier) \in Nat
    BY <1>1 DEF TrustTyped, Level
  <2>2. IsFiniteSet(1..Len(frontier))
    BY <2>1, FS_Interval
  <2>3. IsFiniteSet(Level)
    BY <2>1, <2>2, FS_Subset
  <2> QED BY <2>3, FS_CardinalityType
<1> QED BY <1>2, <1>3, <1>4, <1>5 DEF TrustRanked

\* The head of the frontier gives way to entries with paths one longer.
LEMMA HeadGivesWay ==
  ASSUME TrustTyped, pc = "walk", WalkOK, frontier # <<>>, UNCHANGED <<pc, policy>>,
         TrustRanked, TrustRanked',
         NEW new \in Seq(Entries), frontier' = Tail(frontier) \o new,
         \A n \in DOMAIN new : Len(new[n].path) = Len(Entry.path) + 1
  PROVE  \/ Longer' < Longer
         \/ Longer' = Longer /\ Cardinality(Level') < Cardinality(Level)
<1> DEFINE L == Len(Entry.path)
           w == Len(frontier) - 1
<1>1. /\ Tail(frontier) \in Seq(Entries) /\ Len(Tail(frontier)) = w /\ w \in Nat
      /\ DOMAIN frontier = 1..w + 1
      /\ \A i \in 1..w : Tail(frontier)[i] = frontier[i + 1]
  BY TailTyped
<1>2. /\ frontier' \in Seq(Entries) /\ DOMAIN frontier' = 1..w + Len(new)
      /\ Len(new) \in Nat /\ DOMAIN new = 1..Len(new)
      /\ \A i \in 1..w : frontier'[i] = frontier[i + 1]
      /\ \A n \in 1..Len(new) : frontier'[w + n] = new[n]
  BY <1>1
<1>3. L \in Nat /\ 1 \in DOMAIN frontier /\ frontier[1] = Entry
  BY FirstTyped DEF Entry
<1>4. policy.depth \in Nat /\ L <= policy.depth
  <2>1. EntryOK(Entry)
    BY <1>3 DEF WalkOK, Range
  <2> QED BY <2>1 DEF EntryOK, TrustTyped, Supplied, PolicyTypes
<1>5. Longer = policy.depth + 1 - L
  BY <1>3 DEF Longer
<1>6. CASE frontier' = <<>>
  <2>1. Longer' = 0
    BY <1>6 DEF Longer
  <2> QED BY <1>3, <1>4, <1>5, <2>1
<1>7. CASE frontier' # <<>>
  <2>1. 1 \in DOMAIN frontier' /\ Longer' = policy.depth + 1 - Len(frontier'[1].path)
    <3>1. 1 \in DOMAIN frontier'
      BY <1>2, <1>7
    <3> QED BY <1>7, <3>1 DEF Longer
  <2>2. ASSUME NEW i \in DOMAIN frontier', i > w
        PROVE  Len(frontier'[i].path) = L + 1
    <3>1. i - w \in 1..Len(new) /\ w + (i - w) = i
      BY <1>1, <1>2, <2>2
    <3> QED BY <1>2, <3>1
  <2>3. CASE w = 0
    <3> HIDE DEF w
    <3>1. 1 > w
      BY <2>3
    <3>2. Len(frontier'[1].path) = L + 1
      BY <2>1, <2>2, <3>1
    <3>3. Longer' = policy.depth + 1 - (L + 1)
      BY <2>1, <3>2
    <3> HIDE DEF L
    <3> QED BY <1>3, <1>4, <1>5, <3>3
  <2>4. CASE w > 0
    <3>1. 2 \in DOMAIN frontier /\ frontier'[1] = frontier[2]
      BY <1>1, <1>2, <2>4
    <3>2. Len(frontier[2].path) \in Nat /\ L <= Len(frontier[2].path)
      BY <1>3, <3>1, EntryTyped DEF WalkOK, InWidth
    <3>3. CASE L < Len(frontier[2].path)
      <4>1. Longer' = policy.depth + 1 - Len(frontier[2].path)
        BY <2>1, <3>1
      <4> HIDE DEF L
      <4> QED BY <1>3, <1>4, <1>5, <3>2, <3>3, <4>1
    <3>4. CASE L = Len(frontier[2].path)
      <4> DEFINE f == [i \in Level' |-> i + 1]
      <4>1. Level' = {i \in DOMAIN frontier' : Len(frontier'[i].path) = L}
        BY <3>1, <3>4 DEF Level
      <4>2. ASSUME NEW i \in Level'
            PROVE  i \in 1..w /\ i + 1 \in Level \ {1}
        <5>1. i \in DOMAIN frontier' /\ Len(frontier'[i].path) = L
          BY <4>1
        <5>2. i \in 1..w
          BY <1>1, <1>2, <1>3, <2>2, <5>1
        <5>3. i + 1 \in DOMAIN frontier /\ Len(frontier[i + 1].path) = L /\ i + 1 # 1
          BY <1>1, <1>2, <5>1, <5>2
        <5> QED BY <1>3, <5>2, <5>3 DEF Level
      <4>3. f \in Injection(Level', Level \ {1})
        BY <4>2 DEF Injection, IsInjective
      <4>4. IsFiniteSet(Level) /\ 1 \in Level
        BY <1>3 DEF Level, TrustRanked
      <4>5. /\ IsFiniteSet(Level \ {1})
            /\ Cardinality(Level \ {1}) = Cardinality(Level) - 1
        BY <4>4, FS_RemoveElement
      <4>6. Cardinality(Level') <= Cardinality(Level \ {1})
        BY <4>3, <4>5, FS_Injection
      <4>7. Cardinality(Level') < Cardinality(Level)
        BY <4>5, <4>6 DEF TrustRanked
      <4> QED BY <1>5, <2>1, <3>1, <3>4, <4>7
    <3> QED BY <1>3, <3>2, <3>3, <3>4
  <2> QED BY <1>1, <2>3, <2>4
<1> QED BY <1>6, <1>7

\* A step that changes anything descends.
LEMMA TrustStep ==
  ASSUME TrustInv, TrustRanked, TrustRanked', [TrustNext]_trustVars, ~UNCHANGED trustVars
  PROVE  TrustRankFalls
<1>1. TrustTyped
  BY DEF TrustInv
<1>2. /\ Unjudged \in Nat /\ TrustStage \in Nat /\ Longer \in Nat /\ Cardinality(Level) \in Nat
      /\ Unjudged' \in Nat /\ TrustStage' \in Nat /\ Longer' \in Nat
      /\ Cardinality(Level') \in Nat
  BY DEF TrustRanked
<1>3. CASE \/ VerifyBundle \/ DirectRoot \/ NoDelegation \/ StartWalk
           \/ Anchor \/ Exhausted \/ Total
  <2>1. UNCHANGED <<envelope, results>> /\ TrustStage' < TrustStage
    BY <1>3 DEF VerifyBundle, DirectRoot, NoDelegation, StartWalk, Anchor, Exhausted, Total,
       Leads, TrustStage, supplied
  <2>2. Unjudged' = Unjudged
    BY <2>1 DEF Unjudged
  <2> QED BY <1>2, <2>1, <2>2, Descends4 DEF TrustRank, TrustRankFalls
<1>4. CASE Judge
  <2>1. Len(results') = Len(results) + 1 /\ UNCHANGED envelope
    BY <1>1, <1>4 DEF Judge, TrustTyped, supplied
  <2>2. Unjudged' < Unjudged
    BY <1>1, <2>1 DEF Unjudged, TrustTyped, Supplied, EnvelopeTypes
  <2> QED BY <1>2, <2>2, Descends4 DEF TrustRank, TrustRankFalls
<1>5. ASSUME pc = "walk", frontier # <<>>, UNCHANGED <<pc, policy, envelope, results>>,
             NEW new \in Seq(Entries), frontier' = Tail(frontier) \o new,
             \A n \in DOMAIN new : Len(new[n].path) = Len(Entry.path) + 1
      PROVE  TrustRankFalls
  <2>1. WalkOK
    BY <1>5 DEF TrustInv, Walking, WalkOK
  <2>2. \/ Longer' < Longer
        \/ Longer' = Longer /\ Cardinality(Level') < Cardinality(Level)
    BY <1>1, <1>5, <2>1, HeadGivesWay
  <2>3. Unjudged' = Unjudged /\ TrustStage' = TrustStage
    BY <1>5 DEF Unjudged, TrustStage
  <2> QED BY <1>2, <2>2, <2>3, Descends4 DEF TrustRank, TrustRankFalls
<1>6. CASE PathTooDeep
  <2>1. /\ pc = "walk" /\ frontier # <<>> /\ frontier' = Tail(frontier)
        /\ UNCHANGED <<pc, policy, envelope, results>>
    BY <1>6 DEF PathTooDeep, supplied
  <2>2. Tail(frontier) \in Seq(Entries)
    BY <1>1, <2>1, TailTyped
  <2> DEFINE none == <<>>
  <2>3. none \in Seq(Entries) /\ frontier' = Tail(frontier) \o none /\ DOMAIN none = {}
    BY <2>1, <2>2
  <2> HIDE DEF none
  <2> QED BY <1>5, <2>1, <2>3
<1>7. CASE Expand
  <2>1. /\ pc = "walk" /\ frontier # <<>> /\ ~PolicyTooDeep
        /\ UNCHANGED <<pc, policy, envelope, results>>
    BY <1>7 DEF Expand, supplied
  <2>2. WalkOK
    BY <2>1 DEF TrustInv, Walking, WalkOK
  <2>3. PICK q \in InOrder({i \in Candidates : Extends(Listed(i))}) : frontier' = Queued(q)
    BY <1>7 DEF Expand
  <2> DEFINE new == [n \in DOMAIN q |-> Extension(Listed(q[n]))]
  <2>4. /\ new \in Seq(Entries) /\ DOMAIN new = DOMAIN q
        /\ \A n \in DOMAIN q : Len(new[n].path) = Len(Entry.path) + 1
    BY <1>1, <2>1, <2>2, ExtendedTyped
  <2>5. frontier' = Tail(frontier) \o new
    BY <2>3 DEF Queued
  <2> HIDE DEF new
  <2> QED BY <1>5, <2>1, <2>4, <2>5
<1> QED BY <1>3, <1>4, <1>6, <1>7 DEF TrustNext, VerifyEnvelope, TrustDone

\* verify_envelope comes to an end, also over delegations that branch, meet
\* again and go round: no step of it can be taken for ever (_trust_path, whose
\* loop has no bound of its own).
THEOREM TrustDescends ==
  /\ IsWellFoundedOn(Descent(4), Ranks(4))
  /\ TrustSpec => [][TrustRankFalls]_trustVars
<1>1. IsWellFoundedOn(Descent(4), Ranks(4))
  BY DescentEnds
<1>2. TrustInv /\ TrustRanked /\ TrustRanked' /\ [TrustNext]_trustVars
        => [TrustRankFalls]_trustVars
  BY TrustStep
<1>3. TrustSpec => [][TrustRankFalls]_trustVars
  BY TrustInvHolds, TrustRankTyped, <1>2, PTL DEF TrustSpec
<1> QED BY <1>1, <1>3
=============================================================================
