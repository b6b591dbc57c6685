------------------------- MODULE ReleaseGovernance -------------------------
(***************************************************************************)
(* omiv.governance.evaluation: evidence is collected and a policy decides  *)
(* on a subject; for a decision an approval is requested; actors approve   *)
(* or reject in any order while time passes; quorum and separation of      *)
(* duties are evaluated over the records on hand; and a promotion gate     *)
(* judges a release candidate with results that were computed at some      *)
(* earlier time, of this request or of another.                            *)
(*                                                                         *)
(* Abstracted: a requirement's constraints on schema, verification mode,   *)
(* signer roles, provenance, custody and lifecycle are one field, meets; a *)
(* category reserved for later phases is one whose adapter adapts nothing; *)
(* the two dimensions of independence without a token are left out; a      *)
(* record of another scope or policy does not occur.  The gate's further   *)
(* conditions (target type and format, policy identities, revocation,      *)
(* expiration and security evidence, the decision's signature) can only    *)
(* block more; they are taken as met.                                      *)
(***************************************************************************)
EXTENDS Integers, Sequences, FiniteSets

CONSTANTS
    Requirements,    \* [identifier -> requirement]
    Items,           \* [identifier -> evidence reference]
    TimeRequired,    \* require_evaluation_time
    Subjects, Actors, Roles,
    Identity, SigningKey, TrustRoot,   \* [Actors -> ...]
    Requester,       \* the actor who requests approval
    AcceptedActors,  \* identity_trust in accepted_identity_trust
    TrustedActors,   \* identity_trust = TRUSTED_BY_POLICY
    Assigned,        \* role assignments: pairs of an actor and a role
    Quorum,          \* the approval policy with its quorum
    Separation,      \* the separation-of-duties policy
    Gate,            \* the promotion gate policy
    Issuable,        \* approvals that may be issued, without their request
    Rejectable,      \* rejections that may be issued, without their request
    PriorDecisions,  \* decisions of earlier sessions to begin with
    LastDay,         \* bound: the last day of a behaviour
    MaxDecisions, MaxRecords,   \* bounds: decisions; approvals and rejections
    NotGiven         \* no evaluation time, no validity limit, nothing yet

Days == 1 .. LastDay
RequirementTypes ==
    [category : STRING, optional : BOOLEAN, reviewable : BOOLEAN, lenient : BOOLEAN,
     blocking : BOOLEAN, adapter : BOOLEAN, freshness : Nat \cup {NotGiven}, minimum : Nat]
ItemTypes ==
    [category : STRING, notApplicable : BOOLEAN, adapted : BOOLEAN, meets : BOOLEAN,
     available : BOOLEAN, trust : {"GOOD", "BROKEN", "REVOKED"}, observed : Days \cup {NotGiven},
     limited : BOOLEAN]
Outcomes == {"EVIDENCE_BROKEN", "DENY", "NOT_EVALUATED", "REVIEW_REQUIRED",
             "ALLOW_WITH_LIMITATIONS", "ALLOW"}
ApprovalTypes ==
    [by : Actors, role : Roles, outcome : {"APPROVED", "APPROVED_WITH_CONDITIONS", "ABSTAINED"},
     until : Days \cup {NotGiven}, signed : BOOLEAN]
RejectionTypes == [by : Actors, role : Roles]
Decisions == [subject : Subjects, outcome : Outcomes]

ASSUME GovernanceAssumption ==
    /\ LastDay \in Nat \ {0} /\ MaxDecisions \in Nat /\ MaxRecords \in Nat
    /\ NotGiven \notin Nat
    /\ IsFiniteSet(DOMAIN Items)
    /\ \A r \in DOMAIN Requirements : Requirements[r] \in RequirementTypes
    /\ \A i \in DOMAIN Items : Items[i] \in ItemTypes
    /\ TimeRequired \in BOOLEAN
    /\ Requester \in Actors /\ AcceptedActors \subseteq Actors
    /\ Assigned \subseteq Actors \X Roles
    /\ Quorum.count \in Nat \ {0}
    /\ Quorum.signers \in Nat /\ Quorum.keys \in Nat /\ Quorum.roots \in Nat
    /\ Issuable \subseteq ApprovalTypes /\ Rejectable \subseteq RejectionTypes
    /\ PriorDecisions \subseteq Seq(Decisions)

VARIABLES
    day,          \* the present
    items,        \* evidence collected for the next evaluation
    decisions,    \* the decisions made, in order
    requested,    \* decisions for which approval is requested: a request is
                  \* known by the place of its decision
    approvals,    \* the approval records on hand, each with its request
    rejections,   \* the rejection records on hand
    quorum,       \* the last quorum result, with what it was computed from
    separation,   \* the last separation result
    promotion     \* the last promotion decision
governanceVars == <<day, items, decisions, requested, approvals, rejections,
                    quorum, separation, promotion>>

(***************************************************************************)
(* _evaluate_requirement and evaluate_policy.                              *)
(***************************************************************************)
Matches(r, collected) == {i \in collected : Items[i].category = Requirements[r].category}
Meeting(r, collected) == {i \in Matches(r, collected) : Items[i].meets}

\* What the requirement's constraints say of evidence that is available and
\* neither broken nor revoked.
Measured(r, collected, time) ==
    LET accepted == Meeting(r, collected)
        freshness == Requirements[r].freshness
    IN  IF accepted = {} \/ Requirements[r].minimum > Cardinality(accepted) THEN "INVALID"
        ELSE IF freshness # NotGiven
        THEN IF time = NotGiven \/ \E i \in accepted : Items[i].observed = NotGiven
             THEN "NOT_EVALUATED"
             ELSE IF \E i \in accepted : time - Items[i].observed > freshness THEN "STALE"
             ELSE "SATISFIED"
        ELSE IF \E i \in accepted : Items[i].limited THEN "SATISFIED_WITH_LIMITATIONS"
        ELSE "SATISFIED"

\* Mutant: trust is asked only of evidence that meets the constraints.
TrustedIfMeeting(r, collected, time) ==
    LET matches == Matches(r, collected)
    IN  IF \E i \in matches : Items[i].notApplicable THEN "NOT_APPLICABLE"
        ELSE IF matches = {}
        THEN IF Requirements[r].optional THEN "NOT_CHECKED" ELSE "MISSING"
        ELSE IF Requirements[r].adapter /\ \A i \in matches : ~Items[i].adapted
        THEN "UNAVAILABLE"
        ELSE IF \E i \in matches : ~Items[i].available THEN "UNAVAILABLE"
        ELSE IF \E i \in Meeting(r, collected) : Items[i].trust = "BROKEN" THEN "BROKEN"
        ELSE IF \E i \in Meeting(r, collected) : Items[i].trust = "REVOKED" THEN "INVALID"
        ELSE Measured(r, collected, time)

RequirementOutcome(r, collected, time) ==
    LET matches == Matches(r, collected)
    IN  IF \E i \in matches : Items[i].notApplicable THEN "NOT_APPLICABLE"
        ELSE IF matches = {}
        THEN IF Requirements[r].optional THEN "NOT_CHECKED" ELSE "MISSING"
        ELSE IF Requirements[r].adapter /\ \A i \in matches : ~Items[i].adapted
        THEN "UNAVAILABLE"
        ELSE IF \E i \in matches : ~Items[i].available THEN "UNAVAILABLE"
        ELSE IF \E i \in matches : Items[i].trust = "BROKEN" THEN "BROKEN"
        ELSE IF \E i \in matches : Items[i].trust = "REVOKED" THEN "INVALID"
        ELSE Measured(r, collected, time)

Blocks(r, outcome) ==
    /\ ~Requirements[r].optional
    /\ ~(outcome = "SATISFIED_WITH_LIMITATIONS" /\ Requirements[r].lenient)
    /\ outcome \notin {"SATISFIED", "NOT_APPLICABLE"}
    /\ Requirements[r].blocking \/ ~Requirements[r].reviewable

DecisionOutcome(collected, time) ==
    LET Of(r) == RequirementOutcome(r, collected, time)
        All == DOMAIN Requirements
    IN  IF TimeRequired /\ time = NotGiven THEN "NOT_EVALUATED"
        ELSE IF \E r \in All : Of(r) = "BROKEN" THEN "EVIDENCE_BROKEN"
        ELSE IF \E r \in All : Blocks(r, Of(r)) THEN "DENY"
        ELSE IF \E r \in All : Of(r) = "NOT_EVALUATED" /\ ~Requirements[r].optional
        THEN "NOT_EVALUATED"
        ELSE IF \E r \in All : /\ Requirements[r].reviewable
                              /\ Of(r) \notin {"SATISFIED", "NOT_APPLICABLE"}
        THEN "REVIEW_REQUIRED"
        ELSE IF \E r \in All : Of(r) \in {"SATISFIED_WITH_LIMITATIONS", "NOT_CHECKED"}
        THEN "ALLOW_WITH_LIMITATIONS"
        ELSE "ALLOW"

(***************************************************************************)
(* evaluate_quorum and evaluate_separation_of_duties, for request n and    *)
(* the records given.                                                      *)
(***************************************************************************)
RoleIsAssigned(record) == <<record.by, record.role>> \in Assigned

Speaks(record, n) ==
    /\ record.request = n
    /\ record.role \in Quorum.permitted
    /\ record.by \in AcceptedActors
    /\ RoleIsAssigned(record)

InForceAt(a, time) ==
    a.until # NotGiven => time # NotGiven /\ time <= a.until

Counts(a, n, time) ==
    /\ Speaks(a, n)
    /\ \/ a.outcome = "ABSTAINED" /\ Quorum.abstentions
       \/ /\ \/ a.outcome = "APPROVED"
             \/ a.outcome = "APPROVED_WITH_CONDITIONS" /\ Quorum.conditional
          /\ Quorum.signed => a.signed
          /\ InForceAt(a, time)

Valid(n, given, time) == {a \in given : Counts(a, n, time)}
Tokens(valid, token) == {token[a.by] : a \in valid} \ {NotGiven}

Enough(valid) ==
    /\ Cardinality(valid) >= Quorum.count
    /\ Cardinality(Tokens(valid, Identity)) >= Quorum.signers
    /\ Cardinality(Tokens(valid, SigningKey)) >= Quorum.keys
    /\ Cardinality(Tokens(valid, TrustRoot)) >= Quorum.roots
    /\ Quorum.roles \subseteq {a.role : a \in valid}

\* Mutant: a rejection blocks what is not satisfied yet.
QuorumBeforeRejection(n, given, against, time) ==
    LET valid == Valid(n, given, time)
    IN  IF Assigned = {} /\ given \cup against # {} THEN "NOT_EVALUATED"
        ELSE IF Enough(valid) THEN "SATISFIED"
        ELSE IF Quorum.rejectionBlocks /\ \E x \in against : Speaks(x, n)
        THEN "BLOCKED_BY_REJECTION"
        ELSE IF valid # {} THEN "PARTIAL" ELSE "NOT_SATISFIED"

QuorumOutcome(n, given, against, time) ==
    LET valid == Valid(n, given, time)
    IN  IF Assigned = {} /\ given \cup against # {} THEN "NOT_EVALUATED"
        ELSE IF Quorum.rejectionBlocks /\ \E x \in against : Speaks(x, n)
        THEN "BLOCKED_BY_REJECTION"
        ELSE IF Enough(valid) THEN "SATISFIED"
        ELSE IF valid # {} THEN "PARTIAL" ELSE "NOT_SATISFIED"

\* Duties are separated over every approval given, the ones that do not count
\* included; roles are looked up by identity.
RolesOf(identity) ==
    {role \in Roles : \E a \in Actors : /\ <<a, role>> \in Assigned
                                      /\ Identity[a] = identity /\ identity # NotGiven}
Validators == {Identity[a] : a \in {b \in Actors : "VALIDATOR" \in RolesOf(Identity[b])}}

\* Two approvals whose actors have the same token, or one without a token.
Shared(given, token) == \E a, b \in given : a # b /\ token[a.by] = token[b.by]
Lacking(given, token) == given = {} \/ \E a \in given : token[a.by] = NotGiven

\* Mutant: only the identities are compared, not the keys.
SelfApprovedByIdentity(given) ==
    \E a \in given : Identity[Requester] # NotGiven /\ Identity[a.by] = Identity[Requester]

SelfApproved(given) ==
    \E a \in given :
      \/ Identity[Requester] # NotGiven /\ Identity[a.by] = Identity[Requester]
      \/ SigningKey[Requester] # NotGiven /\ SigningKey[a.by] = SigningKey[Requester]

Violated(given) ==
    \/ Separation.requester /\ SelfApproved(given)
    \/ /\ Separation.producer
       /\ \E v \in Validators : Validators = {v} /\ "ARTIFACT_PRODUCER" \in RolesOf(v)
    \/ /\ Separation.validator
       /\ \E v \in Validators : "PROMOTER" \in RolesOf(v)
    \/ \E a \in given :
         \/ Separation.transformer /\ "TRANSFORMER" \in RolesOf(Identity[a.by])
         \/ Separation.promoter /\ "PROMOTER" \in RolesOf(Identity[a.by])
    \/ \E token \in Separation.independence :
         ~Lacking(given, token) /\ Shared(given, token)
    \/ /\ ~Separation.sameRoot
       /\ ~Lacking(given, TrustRoot) /\ Shared(given, TrustRoot)

SeparationOutcome(given) ==
    IF Violated(given) THEN "VIOLATED"
    ELSE IF \/ \E a \in given : a.by \notin TrustedActors
            \/ \E token \in Separation.independence : Lacking(given, token)
    THEN "INSUFFICIENT_IDENTITY_EVIDENCE"
    ELSE IF given = {} THEN "NOT_EVALUATED"
    ELSE "SATISFIED"

(***************************************************************************)
(* The process.  Collect, Decide: build_policy_decision over a new input.  *)
(***************************************************************************)
GovernanceInit ==
    /\ day = 1
    /\ items = {}
    /\ decisions \in PriorDecisions
    /\ requested = {} /\ approvals = {} /\ rejections = {}
    /\ quorum = NotGiven /\ separation = NotGiven /\ promotion = NotGiven

NextDay ==
    /\ day < LastDay
    /\ day' = day + 1
    /\ UNCHANGED <<items, decisions, requested, approvals, rejections, quorum,
                   separation, promotion>>

Collect(i) ==
    /\ i \notin items
    /\ items' = items \cup {i}
    /\ UNCHANGED <<day, decisions, requested, approvals, rejections, quorum,
                   separation, promotion>>

Decide(subject, time) ==
    /\ Len(decisions) < MaxDecisions
    /\ decisions' = Append(decisions, [subject |-> subject,
                                       outcome |-> DecisionOutcome(items, time)])
    /\ items' = {}
    /\ UNCHANGED <<day, requested, approvals, rejections, quorum, separation, promotion>>

\* build_approval_request: a decision of any outcome may be put forward.
Request(n) ==
    /\ requested' = requested \cup {n}
    /\ UNCHANGED <<day, items, decisions, approvals, rejections, quorum, separation,
                   promotion>>

Addressed(record, n) == [f \in DOMAIN record \cup {"request"} |->
                           IF f = "request" THEN n ELSE record[f]]
Records == Cardinality(approvals) + Cardinality(rejections)

\* build_approval_record, build_rejection_record.
Approve(a, n) ==
    /\ n \in requested /\ Records < MaxRecords
    /\ approvals' = approvals \cup {Addressed(a, n)}
    /\ UNCHANGED <<day, items, decisions, requested, rejections, quorum, separation,
                   promotion>>

Reject(x, n) ==
    /\ n \in requested /\ Records < MaxRecords
    /\ rejections' = rejections \cup {Addressed(x, n)}
    /\ UNCHANGED <<day, items, decisions, requested, approvals, quorum, separation,
                   promotion>>

\* A result is computed over every record on hand; it is a document that
\* stays as it is while records and days go on.
EvaluateQuorum(n, time) ==
    /\ n \in requested
    /\ quorum' = [request |-> n, at |-> time, against |-> rejections,
                  counted |-> Valid(n, approvals, time),
                  outcome |-> QuorumOutcome(n, approvals, rejections, time)]
    /\ UNCHANGED <<day, items, decisions, requested, approvals, rejections,
                   separation, promotion>>

EvaluateSeparation(n) ==
    /\ n \in requested
    /\ LET given == {a \in approvals : a.request = n}
       IN  separation' = [given |-> given, outcome |-> SeparationOutcome(given)]
    /\ UNCHANGED <<day, items, decisions, requested, approvals, rejections, quorum,
                   promotion>>

(***************************************************************************)
(* build_release_candidate for decision c, with request n and the          *)
(* approvals listed, then evaluate_promotion_gate with decision d and the  *)
(* last results computed.  The gate compares the subjects of c and d, and  *)
(* nothing of the results but their outcomes.                              *)
(***************************************************************************)
IsCandidate(c, n, listed) ==
    listed # {} =>
      /\ n # NotGiven
      /\ \A a \in listed : a.request = n
      /\ decisions[n].subject = decisions[c].subject

GateBlocks(c, d, n) ==
    \/ decisions[d].outcome \notin Gate.accepted
    \/ decisions[d].subject # decisions[c].subject
    \/ (n # NotGiven) # Gate.request
    \/ Gate.quorum /\ (quorum = NotGiven \/ quorum.outcome # "SATISFIED")
    \/ Gate.separation /\ (separation = NotGiven \/ separation.outcome # "SATISFIED")

Promote(c, d, n, listed) ==
    /\ IsCandidate(c, n, listed)
    /\ promotion' =
         [candidate |-> c, decision |-> d, request |-> n, listed |-> listed,
          quorum |-> quorum, separation |-> separation,
          outcome |-> IF GateBlocks(c, d, n) THEN "PROMOTION_DENIED"
                      ELSE IF Gate.conditions /\ listed # {}
                      THEN "PROMOTION_ALLOWED_WITH_CONDITIONS"
                      ELSE "PROMOTION_ALLOWED"]
    /\ UNCHANGED <<day, items, decisions, requested, approvals, rejections, quorum,
                   separation>>

\* Bound: a candidate lists no approval, all on hand, or those the quorum counted.
Listings == {{}, approvals} \cup IF quorum = NotGiven THEN {} ELSE {quorum.counted}

\* _governance_promotion_exit.
PromotionExit(outcome) ==
    CASE outcome = "PROMOTION_ALLOWED" -> 0
      [] outcome = "PROMOTION_ALLOWED_WITH_CONDITIONS" -> 1
      [] OTHER -> 2

GovernanceNext ==
    \/ NextDay
    \/ \E i \in DOMAIN Items : Collect(i)
    \/ \E subject \in Subjects, time \in {day, NotGiven} : Decide(subject, time)
    \/ \E n \in DOMAIN decisions :
         \/ Request(n)
         \/ \E a \in Issuable : Approve(a, n)
         \/ \E x \in Rejectable : Reject(x, n)
         \/ \E time \in {day, NotGiven} : EvaluateQuorum(n, time)
         \/ EvaluateSeparation(n)
    \/ \E c, d \in DOMAIN decisions, n \in requested \cup {NotGiven},
          listed \in Listings : Promote(c, d, n, listed)

GovernanceSpec == GovernanceInit /\ [][GovernanceNext]_governanceVars

(***************************************************************************)
(* Properties.                                                             *)
(***************************************************************************)
QuorumOutcomes == {"NOT_EVALUATED", "BLOCKED_BY_REJECTION", "SATISFIED", "PARTIAL",
                   "NOT_SATISFIED"}
SeparationOutcomes == {"VIOLATED", "INSUFFICIENT_IDENTITY_EVIDENCE", "NOT_EVALUATED",
                       "SATISFIED"}

GovernanceTypeOK ==
    /\ day \in Days
    /\ items \subseteq DOMAIN Items
    /\ decisions \in Seq(Decisions)
    /\ requested \subseteq DOMAIN decisions
    /\ \A a \in approvals : a.request \in requested
                          /\ \E t \in Issuable : a = Addressed(t, a.request)
    /\ \A x \in rejections : x.request \in requested
                           /\ \E t \in Rejectable : x = Addressed(t, x.request)
    /\ quorum # NotGiven =>
         /\ quorum.request \in requested /\ quorum.at \in Days \cup {NotGiven}
         /\ quorum.against \subseteq rejections /\ quorum.counted \subseteq approvals
         /\ quorum.outcome \in QuorumOutcomes
    /\ separation # NotGiven =>
         separation.given \subseteq approvals /\ separation.outcome \in SeparationOutcomes
    /\ promotion # NotGiven =>
         /\ {promotion.candidate, promotion.decision} \subseteq DOMAIN decisions
         /\ promotion.listed \subseteq approvals

\* Whatever is collected, and evaluated with or without a time: the policy
\* allows only what rests, for every requirement that is not optional, on a
\* declaration that it does not apply or on evidence of which none is
\* unavailable, broken or revoked, enough of which meets the constraints, and
\* fresh where freshness is asked for.
RestsOnEvidence(r, time) ==
    LET accepted == Meeting(r, items)
    IN  /\ accepted # {} /\ Cardinality(accepted) >= Requirements[r].minimum
        /\ \A i \in Matches(r, items) : Items[i].available /\ Items[i].trust = "GOOD"
        /\ Requirements[r].adapter => \E i \in Matches(r, items) : Items[i].adapted
        /\ Requirements[r].freshness # NotGiven =>
             time # NotGiven /\ \A i \in accepted :
               Items[i].observed # NotGiven
               /\ time - Items[i].observed <= Requirements[r].freshness

AllowedRestsOnEvidence ==
    \A time \in {day, NotGiven} :
      DecisionOutcome(items, time) \in {"ALLOW", "ALLOW_WITH_LIMITATIONS"} =>
        \A r \in DOMAIN Requirements :
          \/ Requirements[r].optional
          \/ \E i \in Matches(r, items) : Items[i].notApplicable
          \/ RestsOnEvidence(r, time)

\* A rejection is final for its request, whatever is approved after it; and a
\* quorum that is reached is lost only by a rejection or in time.  (Evaluated
\* over every record on hand.)
QuorumNow(n) == QuorumOutcome(n, approvals, rejections, day)
QuorumIsStable ==
    [][\A n \in requested :
         /\ QuorumNow(n) = "BLOCKED_BY_REJECTION" => QuorumNow(n)' = "BLOCKED_BY_REJECTION"
         /\ QuorumNow(n) = "SATISFIED" =>
              QuorumNow(n)' = "SATISFIED" \/ day' # day \/ rejections' # rejections
      ]_governanceVars

\* What the gate lets through was decided and approved: if the candidate lists
\* the approvals that the quorum counted and duties were separated over these,
\* then the decision is acceptable and about the artifact that was approved,
\* the approvals are enough, were in force and unopposed when the quorum was
\* evaluated, none is the requester's, by identity or by key, and no two are by
\* one identity where independence is required.
Coherent(p) ==
    /\ p.quorum # NotGiven /\ p.separation # NotGiven
    /\ p.listed # {} /\ p.listed = p.quorum.counted
    /\ p.listed \subseteq p.separation.given

PromotedWasApproved ==
    promotion # NotGiven /\ promotion.outcome # "PROMOTION_DENIED"
      /\ Gate.quorum /\ Gate.separation /\ Coherent(promotion) =>
    LET n == promotion.request  p == promotion
    IN  /\ decisions[p.decision].outcome \in Gate.accepted
        /\ n \in requested /\ decisions[n].subject = decisions[p.decision].subject
        /\ Enough(p.listed)
        /\ \A a \in p.listed :
             /\ a.request = n /\ <<a.by, a.role>> \in Assigned
             /\ \/ a.outcome = "ABSTAINED" /\ Quorum.abstentions
                \/ a.until = NotGiven
                \/ p.quorum.at # NotGiven /\ a.until >= p.quorum.at
        /\ Quorum.rejectionBlocks => \A x \in p.quorum.against : ~Speaks(x, n)
        /\ Separation.requester =>
             \A a \in p.listed :
               /\ Identity[Requester] = NotGiven \/ Identity[a.by] # Identity[Requester]
               /\ SigningKey[Requester] = NotGiven \/ SigningKey[a.by] # SigningKey[Requester]
        /\ Identity \in Separation.independence =>
             \A a, b \in p.listed : Identity[a.by] = Identity[b.by] => a = b
=============================================================================
