--------------------------- MODULE TrustVerification ---------------------------
(***************************************************************************)
(* verify_bundle and verify_envelope of omiv.trust.verification: whether   *)
(* the signatures of an envelope are trusted, from an offline bundle of    *)
(* trust roots, signed delegations and static revocations.  The walk that  *)
(* looks for a trust path takes one entry off its frontier per step.       *)
(*                                                                         *)
(* A document of the bundle is a pair of its scope and what it is about;   *)
(* allowed purposes stand for the four lists of constraints.  Delegations  *)
(* are those whose own signature and key constraints hold, which           *)
(* verify_delegation_record demands.  What one signature record shows by   *)
(* itself (algorithm, purpose, namespaces, binding and identity against    *)
(* the policy) is its field meets.  Every signing key is in the bundle.    *)
(***************************************************************************)
EXTENDS Integers, Sequences, FiniteSets, Functions

CONSTANTS
  Keys, Purposes,
  Absent,
  Inputs     \* the bundles, envelopes and policies that may be supplied

Pairs == {<<"DELEGATION", <<d, e>>>> : d, e \in Keys}
TheObject == <<"SIGNED_OBJECT", Absent>>
TheBundle == <<"TRUST_BUNDLE", Absent>>
Revocable == ({"KEY", "SIGNATURE", "SIGNER_KEY_BINDING", "TRUST_ROOT"} \X Keys)
               \cup Pairs \cup {TheObject}
Bounded == ({"KEY", "SIGNER_KEY_BINDING", "TRUST_ROOT"} \X Keys) \cup Pairs \cup {TheBundle}

Delegations == [by : Keys, to : Keys, depth : Nat, purposes : SUBSET Purposes]
Roots == [delegates : BOOLEAN, depth : Nat, purposes : SUBSET Purposes]
Windows == [from : Nat, to : Nat]
Fatal == {"REVOKED", "SUPERSEDED", "WITHDRAWN"}
Revocations == [of : Revocable, at : Nat \cup {Absent}, status : Fatal]
IsBundle(b) ==
  /\ DOMAIN b.roots \subseteq Keys /\ Range(b.roots) \subseteq Roots
  /\ b.delegations \in Seq(Delegations)
  /\ \A i, j \in DOMAIN b.delegations :
       /\ b.delegations[i].by # b.delegations[i].to
       /\ b.delegations[i].by = b.delegations[j].by /\ b.delegations[i].to = b.delegations[j].to
            => i = j
  /\ b.disabled \subseteq Bounded
  /\ DOMAIN b.windows \subseteq Bounded /\ Range(b.windows) \subseteq Windows
  /\ b.revocations \subseteq Revocations

Signatures == [key : Keys, valid : BOOLEAN, meets : BOOLEAN]
EnvelopeTypes == [purpose : Purposes, signatures : Seq(Signatures), time : Nat \cup {Absent}]
PolicyTypes ==
  [delegation : BOOLEAN, depth : Nat, minimum : Nat \ {0}, accept : BOOLEAN,
   requireRevocation : BOOLEAN, requireExpiration : BOOLEAN]

IsInput(i) ==
  /\ IsBundle(i.bundle) /\ i.envelope \in EnvelopeTypes /\ i.policy \in PolicyTypes
  /\ i.envelope.signatures # <<>>
  /\ \A m, n \in DOMAIN i.envelope.signatures :
       i.envelope.signatures[m].key = i.envelope.signatures[n].key => m = n

ASSUME InputAssumption == Absent \notin Keys \cup Nat /\ \A i \in Inputs : IsInput(i)

VARIABLES
  bundle, envelope, policy,
  pc,            \* "bundle", "path", "walk", "judge", "total" or "done"
  frontier,      \* [key, path, visited] for each key still to be looked at
  sawCycle, sawDepth,
  delegation,    \* DelegationStatus of the signature at hand
  root, path,    \* where its trust comes from; the path starts at the signer
  results,       \* one for each signature looked at so far
  overall        \* of the report, or "refused"

supplied == <<bundle, envelope, policy>>
walk == <<frontier, sawCycle, sawDepth>>
anchored == <<delegation, root, path>>
trustVars == <<supplied, pc, walk, anchored, results, overall>>

-----------------------------------------------------------------------------
(* verify_bundle *)

Issued == Range(bundle.delegations)
RootOf(k) == bundle.roots[k]
IsRoot(k) == k \in DOMAIN bundle.roots
ActiveRoot(k) == IsRoot(k) /\ <<"TRUST_ROOT", k>> \notin bundle.disabled
Pair(d) == <<"DELEGATION", <<d.by, d.to>>>>
HasWindow(t) == t \in DOMAIN bundle.windows

BoundedBy(child, parent) == parent = {} \/ (child # {} /\ child \subseteq parent)
WindowWithin(child, parent) ==
  HasWindow(parent) =>
    /\ HasWindow(child)
    /\ bundle.windows[child].from >= bundle.windows[parent].from
    /\ bundle.windows[child].to <= bundle.windows[parent].to

\* The delegator of each key as the dictionary of verify_bundle has it: that of
\* the last delegation to the key.
Into(k) == {i \in DOMAIN bundle.delegations : bundle.delegations[i].to = k}
Last(k) == CHOOSE i \in Into(k) : \A j \in Into(k) : j <= i
CycleDetected ==
  \E S \in SUBSET {k \in Keys : Into(k) # {}} \ {{}} :
    \A k \in S : bundle.delegations[Last(k)].by \in S

\* What entitles a delegator to delegate: as a root, or itself delegated to.
Authorities(d) ==
  {[of |-> <<"TRUST_ROOT", k>>, depth |-> RootOf(k).depth, purposes |-> RootOf(k).purposes] :
     k \in {r \in DOMAIN bundle.roots : r = d.by /\ RootOf(r).delegates}}
  \cup {[of |-> Pair(e), depth |-> e.depth, purposes |-> e.purposes] :
          e \in {f \in Issued : f.to = d.by}}
Grants(a, d) ==
  /\ a.depth >= 1 /\ d.depth <= a.depth - 1
  /\ WindowWithin(Pair(d), a.of) /\ BoundedBy(d.purposes, a.purposes)

Verifies ==
  /\ \A k \in DOMAIN bundle.roots : <<"KEY", k>> \notin bundle.disabled
  /\ \A d \in Issued : WindowWithin(Pair(d), <<"KEY", d.by>>)
  /\ ~CycleDetected
  /\ \A d \in Issued : Authorities(d) = {} \/ \E a \in Authorities(d) : Grants(a, d)

VerifyBundle ==
  /\ pc = "bundle"
  /\ pc' = IF Verifies THEN "path" ELSE "done"
  /\ overall' = IF Verifies THEN overall ELSE "refused"
  /\ UNCHANGED <<supplied, walk, anchored, results>>

-----------------------------------------------------------------------------
(* _trust_path *)

Signature == envelope.signatures[Len(results) + 1]
Signer == Signature.key

Leads(s, r, p) ==
  /\ delegation' = s /\ root' = r /\ path' = p
  /\ pc' = "judge"

Permits(k) == envelope.purpose \in RootOf(k).purposes

DirectRoot ==
  /\ pc = "path" /\ ActiveRoot(Signer)
  /\ Leads(IF Permits(Signer) THEN "DIRECT_ROOT" ELSE "INVALID_DELEGATION", Signer, <<>>)
  /\ UNCHANGED <<supplied, walk, results, overall>>

NoDelegation ==
  /\ pc = "path" /\ ~ActiveRoot(Signer) /\ ~policy.delegation
  /\ Leads("NOT_APPLICABLE", Absent, <<>>)
  /\ UNCHANGED <<supplied, walk, results, overall>>

StartWalk ==
  /\ pc = "path" /\ ~ActiveRoot(Signer) /\ policy.delegation
  /\ pc' = "walk"
  /\ frontier' = <<[key |-> Signer, path |-> <<>>, visited |-> {Signer}]>>
  /\ sawCycle' = FALSE /\ sawDepth' = FALSE
  /\ UNCHANGED <<supplied, anchored, results, overall>>

Entry == frontier[1]
Depth == Len(Entry.path) + 1

\* Mutant: the whole path may be as long as the subordinate depth and one more.
DeepEnough(d, n) == n <= d.depth + 1
Subordinate(d, n) == n <= d.depth

\* _delegation_valid
DelegationValid(d) ==
  /\ Pair(d) \notin bundle.disabled /\ <<"KEY", d.by>> \notin bundle.disabled
  /\ d.purposes = {} \/ envelope.purpose \in d.purposes

\* The delegations to the key at hand that may come next, by their place in the
\* bundle.
Listed(i) == bundle.delegations[i]
Candidate(d) ==
  d.to = Entry.key /\ Subordinate(d, Len(Entry.path)) /\ DelegationValid(d)
Candidates == {i \in DOMAIN bundle.delegations : Candidate(Listed(i))}

Visited(d) == d.by \in Entry.visited
RootTooDeep(k) == ~RootOf(k).delegates \/ Depth > RootOf(k).depth
Anchors(d) ==
  ~Visited(d) /\ ActiveRoot(d.by) /\ ~RootTooDeep(d.by) /\ Permits(d.by)
Extends(d) == ~Visited(d) /\ ~ActiveRoot(d.by)
Extension(d) ==
  [key |-> d.by, path |-> Append(Entry.path, d), visited |-> Entry.visited \cup {d.by}]

InOrder(S) ==
  {q \in [1..Cardinality(S) -> S] :
     Range(q) = S /\ \A m, n \in DOMAIN q : m < n => q[m] < q[n]}
\* Mutant: depth first.
Stacked(q) == [n \in DOMAIN q |-> Extension(Listed(q[n]))] \o Tail(frontier)
Queued(q) == Tail(frontier) \o [n \in DOMAIN q |-> Extension(Listed(q[n]))]

PolicyTooDeep == Depth > policy.depth

\* Mutant: an entry that is too deep stays on the frontier.
PathTooDeepStays ==
  /\ pc = "walk" /\ frontier # <<>> /\ PolicyTooDeep
  /\ sawDepth' = TRUE
  /\ UNCHANGED <<supplied, pc, frontier, sawCycle, anchored, results, overall>>

PathTooDeep ==
  /\ pc = "walk" /\ frontier # <<>> /\ PolicyTooDeep
  /\ sawDepth' = TRUE
  /\ frontier' = Tail(frontier)
  /\ UNCHANGED <<supplied, pc, sawCycle, anchored, results, overall>>

\* The first delegation by a root that may make it ends the walk.
Anchor ==
  /\ pc = "walk" /\ frontier # <<>> /\ ~PolicyTooDeep
  /\ \E i \in Candidates :
       /\ Anchors(Listed(i)) /\ \A j \in Candidates : j < i => ~Anchors(Listed(j))
       /\ Leads("VALID_DELEGATION", Listed(i).by, Append(Entry.path, Listed(i)))
  /\ UNCHANGED <<supplied, walk, results, overall>>

Expand ==
  /\ pc = "walk" /\ frontier # <<>> /\ ~PolicyTooDeep
  /\ \A i \in Candidates : ~Anchors(Listed(i))
  /\ sawCycle' = (sawCycle \/ \E i \in Candidates : Visited(Listed(i)))
  /\ sawDepth' = (sawDepth \/ \E i \in Candidates :
                    LET d == Listed(i)
                    IN  ~Visited(d) /\ ActiveRoot(d.by) /\ RootTooDeep(d.by))
  /\ \E q \in InOrder({i \in Candidates : Extends(Listed(i))}) : frontier' = Queued(q)
  /\ UNCHANGED <<supplied, pc, anchored, results, overall>>

Exhausted ==
  /\ pc = "walk" /\ frontier = <<>>
  /\ Leads(IF sawCycle THEN "CYCLE_DETECTED" ELSE
           IF sawDepth THEN "DEPTH_EXCEEDED" ELSE "INVALID_DELEGATION", Absent, <<>>)
  /\ UNCHANGED <<supplied, walk, results, overall>>

-----------------------------------------------------------------------------
(* _revocation and _combined_expiration over what the trust rests on *)

Delegators == {path[i].by : i \in DOMAIN path}

Authority ==
  {<<"TRUST_ROOT", r>> : r \in {root} \ {Absent}} \cup {Pair(path[i]) : i \in DOMAIN path}

Targets ==
  {<<"SIGNATURE", Signer>>, TheObject, <<"KEY", Signer>>, <<"SIGNER_KEY_BINDING", Signer>>}
    \cup Authority \cup {<<"KEY", path[i].by>> : i \in DOMAIN path}

\* Mutant: in force only after the moment it is effective at.
EffectiveLater(r) ==
  IF r.at = Absent THEN r.status
  ELSE IF envelope.time = Absent THEN "NOT_EVALUATED"
  ELSE IF envelope.time <= r.at THEN "NOT_REVOKED" ELSE r.status
EffectiveStatus(r) ==
  IF r.at = Absent THEN r.status
  ELSE IF envelope.time = Absent THEN "NOT_EVALUATED"
  ELSE IF envelope.time < r.at THEN "NOT_REVOKED" ELSE r.status
StatusesOf(ts) ==
  IF ~policy.accept THEN {}
  ELSE {EffectiveStatus(r) : r \in {x \in bundle.revocations : x.of \in ts}}

FirstOf(order, S, otherwise) ==
  IF \E i \in DOMAIN order : order[i] \in S
  THEN order[CHOOSE i \in DOMAIN order :
               order[i] \in S /\ \A j \in 1..i-1 : order[j] \notin S]
  ELSE otherwise

Revocation ==
  FirstOf(<<"NOT_EVALUATED", "SUPERSEDED", "WITHDRAWN", "REVOKED">>, StatusesOf(Targets),
          "NOT_REVOKED")

Bounding == (Targets \cup {TheBundle}) \cap DOMAIN bundle.windows
ExpirationOf(t) ==
  IF envelope.time = Absent THEN "NOT_EVALUATED"
  ELSE IF envelope.time < bundle.windows[t].from THEN "NOT_YET_VALID"
  ELSE IF envelope.time > bundle.windows[t].to THEN "EXPIRED" ELSE "VALID"
Expiration ==
  IF Bounding = {} THEN "UNAVAILABLE"
  ELSE FirstOf(<<"EXPIRED", "NOT_YET_VALID", "NOT_EVALUATED">>,
               {ExpirationOf(t) : t \in Bounding}, "VALID")

RevocationOk ==
  Revocation \notin Fatal /\ ~(policy.requireRevocation /\ Revocation = "NOT_EVALUATED")
ExpirationOk ==
  /\ Expiration \notin {"EXPIRED", "NOT_YET_VALID"}
  /\ ~(policy.requireExpiration /\ Expiration \in {"NOT_EVALUATED", "UNAVAILABLE"})
PathTrusted == delegation \in {"DIRECT_ROOT", "VALID_DELEGATION"}

Judge ==
  /\ pc = "judge"
  /\ results' = Append(results,
       [key |-> Signer, delegation |-> delegation, root |-> root, path |-> path,
        revocation |-> Revocation, expiration |-> Expiration,
        trusted |-> Signature.valid /\ Signature.meets /\ PathTrusted
                      /\ RevocationOk /\ ExpirationOk])
  /\ pc' = IF Len(results) + 1 < Len(envelope.signatures) THEN "path" ELSE "total"
  /\ UNCHANGED <<supplied, walk, anchored, overall>>

\* overall_status; the kinds of VALID_SIGNATURE_... are one here.
Accepted == {i \in DOMAIN results : results[i].trusted}
Seen == {results[i].revocation : i \in DOMAIN results}
SeenExpiration ==
  IF policy.requireExpiration THEN {results[i].expiration : i \in DOMAIN results} ELSE {}
Overall ==
  IF \E i \in DOMAIN envelope.signatures : ~envelope.signatures[i].valid
  THEN "INVALID_SIGNATURE"
  ELSE IF Seen \cap Fatal # {} THEN "REVOKED"
  ELSE IF "EXPIRED" \in SeenExpiration THEN "EXPIRED"
  ELSE IF "NOT_YET_VALID" \in SeenExpiration THEN "NOT_YET_VALID"
  ELSE IF SeenExpiration \cap {"NOT_EVALUATED", "UNAVAILABLE"} # {}
  THEN "EXPIRATION_NOT_EVALUATED"
  ELSE IF policy.requireRevocation /\ "NOT_EVALUATED" \in Seen
  THEN "REVOCATION_NOT_EVALUATED"
  ELSE IF Cardinality(Accepted) >= policy.minimum
  THEN "TRUSTED_SIGNATURE_WITH_LIMITATIONS"
  ELSE "PARTIALLY_TRUSTED"

Total ==
  /\ pc = "total"
  /\ overall' = Overall
  /\ pc' = "done"
  /\ UNCHANGED <<supplied, walk, anchored, results>>

\* The exit code of `trust verify`.
TrustExit == CASE overall = "TRUSTED_SIGNATURE_WITH_LIMITATIONS" -> 0
          [] overall = "PARTIALLY_TRUSTED" -> 1
          [] OTHER -> 2
-----------------------------------------------------------------------------
TrustInit ==
  /\ \E i \in Inputs : bundle = i.bundle /\ envelope = i.envelope /\ policy = i.policy
  /\ pc = "bundle"
  /\ frontier = <<>> /\ sawCycle = FALSE /\ sawDepth = FALSE
  /\ delegation = "UNVERIFIED" /\ root = Absent /\ path = <<>>
  /\ results = <<>> /\ overall = "PENDING"

VerifyEnvelope ==
  \/ VerifyBundle \/ DirectRoot \/ NoDelegation \/ StartWalk
  \/ PathTooDeep \/ Anchor \/ Expand \/ Exhausted \/ Judge \/ Total
TrustDone == pc = "done" /\ UNCHANGED trustVars
TrustNext == VerifyEnvelope \/ TrustDone

TrustSpec == TrustInit /\ [][TrustNext]_trustVars
\* Verification is one thread of control: it goes on while it can.
FairTrustSpec == TrustSpec /\ WF_trustVars(VerifyEnvelope)
-----------------------------------------------------------------------------
(* Properties *)

\* From the signer outward, each delegation to the one who made the one before,
\* by somebody new, valid for the purpose, and with room for those before.
IsChain(s, p) ==
  \A i \in DOMAIN p :
    /\ p[i] \in Issued /\ DelegationValid(p[i]) /\ i - 1 <= p[i].depth
    /\ p[i].to = IF i = 1 THEN s ELSE p[i-1].by
    /\ p[i].by # s /\ \A j \in 1..i-1 : p[i].by # p[j].by

IsAnchored(s, r, p) ==
  /\ policy.delegation /\ IsChain(s, p)
  /\ Len(p) \in 1..policy.depth /\ r = p[Len(p)].by
  /\ ActiveRoot(r) /\ RootOf(r).delegates /\ Len(p) <= RootOf(r).depth /\ Permits(r)

\* Types; whatever is on the frontier was reached over a chain of delegations
\* without a repeated key, of which none but the last can be a root.
TrustTypeOK ==
  /\ pc \in {"bundle", "path", "walk", "judge", "total", "done"}
  /\ sawCycle \in BOOLEAN /\ sawDepth \in BOOLEAN
  /\ root \in Keys \cup {Absent}
  /\ Len(results) <= Len(envelope.signatures)
  /\ pc = "walk" => \A i \in DOMAIN frontier :
       LET e == frontier[i]
       IN  /\ IsChain(Signer, e.path) /\ Len(e.path) <= policy.depth
           /\ e.key = IF e.path = <<>> THEN Signer ELSE e.path[Len(e.path)].by
           /\ e.visited = {Signer} \cup {e.path[j].by : j \in DOMAIN e.path}
           /\ \A j \in DOMAIN e.path : ~ActiveRoot(e.path[j].by)

\* Everything the verdict on a signature rests on.
RestsOn(r) ==
  {<<"SIGNATURE", r.key>>, TheObject, <<"KEY", r.key>>, <<"SIGNER_KEY_BINDING", r.key>>}
    \cup {<<"TRUST_ROOT", k>> : k \in {r.root} \ {Absent}}
    \cup UNION {{Pair(r.path[i]), <<"KEY", r.path[i].by>>} : i \in DOMAIN r.path}
Concerning(r) == {v \in bundle.revocations : policy.accept /\ v.of \in RestsOn(r)}
InForce(r) ==
  \E v \in Concerning(r) : v.at = Absent \/ (envelope.time # Absent /\ v.at <= envelope.time)
Undecided(r) == \E v \in Concerning(r) : v.at # Absent /\ envelope.time = Absent
Masked(r) == Undecided(r) /\ ~policy.requireRevocation

\* "A trusted key is trusted only for the object types, purposes, ... delegation
\* depth, validity window ... accepted by the selected policy": exit 0 means
\* that as many different keys as the policy wants signed, each of them a root
\* or with a chain of valid delegations from one, short enough for all who
\* delegate and for the policy.  Where the policy requires that revocations are
\* evaluated, nothing they rest on is revoked or may be; where it does not, one
\* may be in force as long as another of undecided date stands beside it.  No
\* window they rest on is over or not yet open at the time of the envelope, which
\* may be missing where the policy does not require a validity; what has no
\* window is always in date.
TrustIsAnchored ==
  pc = "done" /\ TrustExit = 0 =>
    \E S \in SUBSET DOMAIN results :
      /\ Cardinality(S) >= policy.minimum
      /\ \A i, j \in S : results[i].key = results[j].key => i = j
      /\ \A i \in S :
           LET r == results[i]
           IN  /\ \/ r.root = r.key /\ r.path = <<>> /\ ActiveRoot(r.key) /\ Permits(r.key)
                  \/ IsAnchored(r.key, r.root, r.path)
               /\ InForce(r) \/ Undecided(r) => Masked(r)
               /\ \A t \in RestsOn(r) \cup {TheBundle} :
                    t \in DOMAIN bundle.windows =>
                      \/ ExpirationOf(t) = "VALID"
                      \/ envelope.time = Absent /\ ~policy.requireExpiration

\* A signature is without a trust path only if every chain of delegations to a
\* root that may anchor it passes through another active root, since one that
\* may not anchor is skipped and what lies behind it is not looked at; and the
\* path found is a shortest one of the others, in whatever order delegations are
\* listed and however they branch and return.
Chains(s, n) == {p \in [1..n -> Issued] : \E r \in Keys : IsAnchored(s, r, p)}
ThroughRoot(p) == \E i \in 1..Len(p)-1 : ActiveRoot(p[i].by)
FindsAnchor ==
  \A i \in DOMAIN results :
    LET r == results[i]
        shorter == IF r.delegation = "VALID_DELEGATION" THEN Len(r.path) - 1 ELSE policy.depth
    IN  ~ActiveRoot(r.key) => \A n \in 1..shorter : \A p \in Chains(r.key, n) : ThroughRoot(p)

\* "exits ... 2 for ... authoritative revocation": a revocation that the policy
\* accepts and that is in force, of anything the signature rests on, ends with
\* exit 2.
RevocationIsFatal ==
  pc = "done" /\ overall # "refused" =>
    \A i \in DOMAIN results : InForce(results[i]) => TrustExit = 2

\* What the code keeps of that: exit 2 unless a revocation of undecided date
\* stands beside it and the policy does not require that revocations are
\* evaluated, in whatever order signatures and revocations come and whatever
\* else is wrong with them.
UnmaskedIsFatal ==
  pc = "done" /\ overall # "refused" =>
    \A i \in DOMAIN results :
      InForce(results[i]) /\ ~Masked(results[i]) => TrustExit = 2

\* Verification ends, also where delegations form a cycle that verify_bundle,
\* which keeps one delegation per delegate, does not see.
TrustEnds == <>(pc = "done")
=============================================================================
