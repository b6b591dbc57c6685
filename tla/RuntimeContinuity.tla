-------------------------- MODULE RuntimeContinuity --------------------------
(***************************************************************************)
(* omiv.runtime.continuity.evaluate_continuity in its setting: a           *)
(* deployment that is replaced now and then, an observer that records what *)
(* it sees of it, and somebody who later evaluates records under a policy. *)
(*                                                                         *)
(* An instance is its number; it stands for its intent and manifest, which *)
(* name each other by digest, and for its deployment record.  An identity  *)
(* is as declared or it differs.  Everything else that evidence may lack   *)
(* is a flaw, named after the check that notices it.                       *)
(***************************************************************************)
EXTENDS Integers, Sequences

CONSTANTS
  Members, Optional,      \* of the artifact set; those that are not required
  Evidence,               \* what an observer may record
  Profiles,               \* ContinuityPolicyProfile
  MaxAge,                 \* maximum_age_sequences
  MaxInstances, MaxSequence,     \* bounds of deployments and observations
  None

Values == {"configuration", "engine", "binary", "environment", "target"}
Dimensions == Values \cup {"primary", "companions", "set"}
Flaws == {"context", "observer_authority", "deployment_authority",
          "untrusted", "deployment_strength", "deployment_unsigned",
          "deployment_status", "observation_status", "limited_security",
          "observation_unsigned", "observation_strength", "same_actor",
          "same_signer", "same_key", "same_root", "uncorroborated"}

\* A record of the runtime: how each member was identified, which values were,
\* what of it differs from the declared, and what the observer says it covered;
\* and, for the properties, what really ran otherwise than declared.
EvidenceRecord ==
  [method : [Members -> {"direct", "proxy", "none"}], values : SUBSET Values,
   differs : SUBSET (Members \cup Values \cup {"set", "unexpected"}),
   covered : SUBSET Dimensions, complete : BOOLEAN, flaws : SUBSET Flaws,
   wrong : SUBSET (Members \cup Values \cup {"unexpected"})]

\* The observer tells what it sees.  A proxy need not show what really runs, an
\* unexpected component may be overlooked, and the digest of the whole set may be
\* missing or copied from the manifest (build_artifact_observation).
Truthful(e) ==
  /\ \A m \in Members :
       /\ m \in e.differs => e.method[m] # "none" /\ m \in e.wrong
       /\ e.method[m] = "direct" /\ m \in e.wrong => m \in e.differs
  /\ e.differs \cap Values = e.wrong \cap e.values
  /\ "unexpected" \in e.differs => "unexpected" \in e.wrong
  /\ "set" \in e.differs => e.wrong \ Values # {}

ASSUME EvidenceAssumption ==
  Evidence \subseteq {e \in EvidenceRecord : Truthful(e)}
ASSUME MembersAssumption ==
  /\ Optional \subseteq Members
  /\ Members \cap (Dimensions \cup {"unexpected"}) = {}
ASSUME BoundsAssumption ==
  MaxAge \in Nat /\ MaxInstances \in Nat \ {0} /\ MaxSequence \in Nat \ {0}
ASSUME ProfilesAssumption ==
  Profiles \subseteq {"local", "team", "enterprise", "air_gapped", "regulated"}
-----------------------------------------------------------------------------
(* The policies (build_continuity_policy) *)

RequiredBy == [p \in Profiles |->
  {"primary", "set", "configuration", "engine", "target"}
    \cup IF p = "local" THEN {} ELSE {"companions", "binary", "environment"}]

\* What a policy has to object to in evidence.
Unacceptable == [p \in Profiles |->
  {"context", "observer_authority", "deployment_authority", "deployment_status",
   "observation_status", "observation_strength"}
    \cup (IF p = "local" THEN {}
          ELSE {"untrusted", "deployment_strength", "deployment_unsigned",
                "observation_unsigned", "same_actor", "same_signer", "same_key"})
    \cup (IF p \in {"enterprise", "regulated"}
          THEN {"same_root", "uncorroborated", "limited_security"} ELSE {})]

\* decision_precedence
Precedence ==
  <<"EVIDENCE_BROKEN", "REPLAY_REJECTED", "MISMATCH", "DRIFT_DETECTED",
    "OBSERVER_UNAUTHORIZED", "OBSERVER_UNTRUSTED", "DEPLOYMENT_UNVERIFIED",
    "COVERAGE_INCOMPLETE", "STALE", "NOT_OBSERVED", "NOT_EVALUATED",
    "IDENTITY_PROXY_MATCH", "PARTIAL_CONTINUITY", "PASS_WITH_LIMITATIONS", "PASS">>
Verdicts == {Precedence[i] : i \in 1..Len(Precedence)}
-----------------------------------------------------------------------------
VARIABLES
  profile,      \* of the policy
  instance,     \* the deployment that runs
  observation,  \* the record of one, or None
  result        \* of the evaluation of it, or None

vars == <<profile, instance, observation, result>>

\* A plan is for an instance and an observation sequence.
Plans == [instance : 1..MaxInstances, expected : 1..MaxSequence]
Observations == [evidence : Evidence, instance : 1..MaxInstances,
                 plan : Plans, sequence : 1..MaxSequence]

Init ==
  /\ profile \in Profiles
  /\ instance = 1
  /\ observation = None /\ result = None

Redeploy ==
  /\ instance < MaxInstances
  /\ instance' = instance + 1
  /\ UNCHANGED <<profile, observation, result>>

\* The observer records what runs, with a number of his choice, under a plan
\* that may be that of another instance or number.  One such record is followed; it never changes.
Observe ==
  /\ observation = None
  /\ \E e \in Evidence, p \in Plans, s \in 1..MaxSequence :
       /\ p.instance <= instance
       /\ observation' = [evidence |-> e, instance |-> instance, plan |-> p,
                          sequence |-> s]
  /\ UNCHANGED <<profile, instance, result>>

\* The references from one document to the next, for the manifest m, the
\* deployment record r and the plan p that were supplied.
Broken(m, r, p) ==
  r # m \/ observation.plan # p \/ observation.instance # r \/ p.instance # m

Replayed(m, p) ==
  \/ observation.instance # m \/ p.instance # m
  \/ p.expected # observation.sequence
  \/ "context" \in observation.evidence.flaws

Fails(flaws) == observation.evidence.flaws \cap flaws \cap Unacceptable[profile] # {}

\* Mutant: a declared set digest stands for the members.
DriftOfTheSet == "set" \in observation.evidence.differs

Drift == observation.evidence.differs # {}

\* Mutant: the observer's word is taken for the values as well.
CoveredAsDeclared ==
  observation.evidence.complete
    /\ RequiredBy[profile] \subseteq observation.evidence.covered

Covered ==
  LET e == observation.evidence
  IN  /\ e.complete /\ RequiredBy[profile] \subseteq e.covered
      /\ RequiredBy[profile] \cap Values \subseteq e.values

Current(at) == at - observation.sequence \in 0..MaxAge

Proxy == \E m \in Members : observation.evidence.method[m] = "proxy"
OptionalUnobserved == \E m \in Optional : observation.evidence.method[m] = "none"
SelfObserved == observation.evidence.flaws \cap {"same_actor", "same_signer"} # {}

\* The conditions of the evaluation in their order, each with its verdict.
Chain(m, r, p, at) ==
  << [holds |-> Broken(m, r, p), verdict |-> "EVIDENCE_BROKEN"],
     [holds |-> Replayed(m, p), verdict |-> "REPLAY_REJECTED"],
     [holds |-> Drift, verdict |-> "DRIFT_DETECTED"],
     [holds |-> Fails({"observer_authority"}), verdict |-> "OBSERVER_UNAUTHORIZED"],
     [holds |-> Fails({"deployment_authority"}), verdict |-> "DEPLOYMENT_UNVERIFIED"],
     [holds |-> Fails({"untrusted"}), verdict |-> "OBSERVER_UNTRUSTED"],
     [holds |-> Fails({"deployment_strength", "deployment_unsigned",
                       "deployment_status"}), verdict |-> "DEPLOYMENT_UNVERIFIED"],
     [holds |-> ~Covered, verdict |-> "COVERAGE_INCOMPLETE"],
     [holds |-> ~Current(at), verdict |-> "STALE"],
     [holds |-> Fails({"observation_status"}), verdict |-> "NOT_OBSERVED"],
     [holds |-> Fails({"limited_security"}), verdict |-> "NOT_EVALUATED"],
     [holds |-> profile = "regulated", verdict |-> "NOT_EVALUATED"],
     [holds |-> Fails({"observation_unsigned"}), verdict |-> "OBSERVER_UNTRUSTED"],
     [holds |-> Fails({"observation_strength"}), verdict |-> "PARTIAL_CONTINUITY"],
     [holds |-> Fails({"same_actor", "same_signer", "same_key", "same_root"}),
      verdict |-> "OBSERVER_UNAUTHORIZED"],
     [holds |-> Fails({"uncorroborated"}), verdict |-> "PARTIAL_CONTINUITY"],
     [holds |-> Proxy, verdict |-> "IDENTITY_PROXY_MATCH"],
     [holds |-> OptionalUnobserved, verdict |-> "PARTIAL_CONTINUITY"],
     [holds |-> SelfObserved \/ profile = "air_gapped",
      verdict |-> "PASS_WITH_LIMITATIONS"],
     [holds |-> TRUE, verdict |-> "PASS"] >>

Decides(chain, i) == chain[i].holds /\ \A j \in 1..(i - 1) : ~chain[j].holds

\* Somebody evaluates the observation, with the documents of the instances m
\* and r and the evaluation sequence of his choice.  It depends on nothing else,
\* so that one evaluation is followed.
Evaluate ==
  /\ observation # None /\ result = None
  /\ \E m, r \in 1..instance, p \in Plans, at \in 1..MaxSequence :
       \E chain \in {Chain(m, r, p, at)} : \E i \in 1..Len(chain) :
         /\ Decides(chain, i)
         /\ result' = [verdict |-> chain[i].verdict, instance |-> m, at |-> at]
  /\ UNCHANGED <<profile, instance, observation>>

Next == Redeploy \/ Observe \/ Evaluate

Spec == Init /\ [][Next]_vars
-----------------------------------------------------------------------------
(* Properties *)

\* Types; a result is of an observation.
TypeOK ==
  /\ profile \in Profiles
  /\ instance \in 1..MaxInstances
  /\ observation \in Observations \cup {None}
  /\ result # None =>
       /\ observation # None
       /\ result \in [verdict : Verdicts, instance : 1..MaxInstances, at : 1..MaxSequence]

Is(verdicts) == result # None /\ result.verdict \in verdicts

\* "A valid observation for an older instance cannot be reused for a later
\* deployment": PASS means that this very instance was looked at, no longer ago
\* than allowed, that every value the policy requires was seen and was as
\* declared, that the policy has no objection to those who say so, and that each
\* member was identified directly and was as declared, with one exception: a
\* member that is not optional and was not identified at all is let through.
PassIsEarned ==
  Is({"PASS"}) =>
    LET e == observation.evidence
    IN  /\ observation.instance = result.instance
        /\ observation.plan = [instance |-> result.instance,
                               expected |-> observation.sequence]
        /\ result.at - observation.sequence \in 0..MaxAge
        /\ e.wrong \cap (e.values \cup RequiredBy[profile]) = {}
        /\ \A m \in Members :
             \/ e.method[m] = "direct" /\ m \notin e.wrong
             \/ e.method[m] = "none" /\ m \notin Optional
        /\ e.flaws \cap Unacceptable[profile] = {}
        /\ profile \notin {"air_gapped", "regulated"}

\* "Missing mandatory dimensions cannot produce full PASS": where the policy
\* requires the members, PASS means that each one that is not optional was
\* identified.
PassIdentifiesMembers ==
  Is({"PASS"}) /\ {"primary", "companions"} \subseteq RequiredBy[profile] =>
    \A m \in Members \ Optional : observation.evidence.method[m] # "none"

\* Exit 1: "limited, partial, proxy, or reviewable evidence".
Reviewable == {"PASS_WITH_LIMITATIONS", "PARTIAL_CONTINUITY",
               "IDENTITY_PROXY_MATCH", "STALE", "NOT_EVALUATED"}

\* "Exit 2 means mismatch, blocking drift, replay, broken evidence": whatever
\* else is wanting, evidence of another instance, and evidence of anything that
\* did not run as declared, is never just reviewable; nor is that of an observer
\* without authority or trust.  It may be that of an observer who is not
\* separated from the deployer as the policy wants: that is looked at late.
ReviewableIsIntact ==
  Is(Reviewable) =>
    LET e == observation.evidence
    IN  /\ observation.instance = result.instance
        /\ observation.plan.expected = observation.sequence
        /\ e.wrong \cap (e.values \cup {m \in Members : e.method[m] = "direct"}) = {}
        /\ e.flaws \cap Unacceptable[profile] \cap
             {"observer_authority", "deployment_authority", "untrusted"} = {}
=============================================================================
