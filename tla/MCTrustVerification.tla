------------------------- MODULE MCTrustVerification -------------------------
(* Two families of bundles: every list of up to four delegations among nine   *)
(* that branch, join and return, with depths and a second root, which is      *)
(* disabled, or active on the way of up to three but without depth; and       *)
(* a chain and a branch with up to two revocations, or a window, of what      *)
(* the trust rests on.                                                        *)
EXTENDS TrustVerification, TLC

CONSTANTS kr, ka, kb, ks, main, other

MCKeys == {kr, ka, kb, ks}
MCPurposes == {main, other}

D(x, y, n) == [by |-> x, to |-> y, depth |-> n, purposes |-> {main}]
Distinct(l) == \A i, j \in DOMAIN l : l[i].by = l[j].by /\ l[i].to = l[j].to => i = j
Delegable == {D(kr, ka, n) : n \in {0, 2}} \cup {D(ka, kb, n) : n \in {1, 2}}
           \cup {D(kb, ka, 2), D(ka, ks, 1), D(kb, ks, 0), D(kb, ks, 2), D(kr, kb, 1)}
DelegationLists == {l \in UNION {[1..n -> Delegable] : n \in 1..4} : Distinct(l)}
Root(n) == [delegates |-> TRUE, depth |-> n, purposes |-> {main}]
Bare(l, rs) ==
  [roots |-> rs, delegations |-> l, windows |-> <<>>, revocations |-> {}, disabled |-> {}]
OneRoot == {Bare(l, kr :> Root(2)) : l \in DelegationLists}
Disabled ==
  {[Bare(l, kr :> Root(3) @@ kb :> Root(3)) EXCEPT !.disabled = {<<"TRUST_ROOT", kb>>}] :
     l \in DelegationLists}
Shallow == {Bare(l, kr :> Root(3) @@ kb :> Root(0)) : l \in {m \in DelegationLists : Len(m) <= 3}}
GraphBundles == OneRoot \cup Disabled \cup Shallow

Chain == <<D(kr, ka, 1), D(ka, ks, 0)>>
Branch == <<[D(kb, ka, 2) EXCEPT !.purposes = {other}], D(kr, ka, 1), D(ka, ks, 0), D(kr, ks, 0)>>
Rests == {<<"SIGNATURE", ks>>, TheObject, <<"KEY", kr>>, <<"KEY", ka>>, <<"TRUST_ROOT", kr>>,
          <<"DELEGATION", <<kr, ka>>>>, <<"DELEGATION", <<kr, ks>>>>}
Revs == [of : Rests, at : {Absent}, status : {"REVOKED"}]
          \cup [of : {<<"KEY", ka>>, TheObject, <<"SIGNER_KEY_BINDING", ks>>}, at : {1},
                status : {"SUPERSEDED", "WITHDRAWN"}]
UpToTwo(S) == {{}} \cup {{x, y} : x, y \in S}
Revoked ==
  {[Bare(l, kr :> Root(2)) EXCEPT !.revocations = v] : l \in {Chain, Branch}, v \in UpToTwo(Revs)}
Windowed ==
  {[Bare(l, kr :> Root(2)) EXCEPT !.windows = w, !.disabled = x] : l \in {Chain, Branch},
     w \in {t :> [from |-> 1, to |-> 1] : t \in {<<"KEY", ks>>, <<"DELEGATION", <<ka, ks>>>>,
                                                TheBundle, <<"DELEGATION", <<kr, ks>>>>}},
     x \in {{}, {<<"KEY", ka>>}, {<<"TRUST_ROOT", kr>>}, {<<"DELEGATION", <<kr, ka>>>>}}}

Sig(k) == [key |-> k, valid |-> TRUE, meets |-> TRUE]
Envelope(l, t) == [purpose |-> main, signatures |-> l, time |-> t]
Strict == [delegation |-> TRUE, depth |-> 3, minimum |-> 1, accept |-> TRUE,
           requireRevocation |-> TRUE, requireExpiration |-> FALSE]
Lenient == [Strict EXCEPT !.depth = 2, !.minimum = 2, !.requireRevocation = FALSE,
                          !.requireExpiration = TRUE]
MCInputs ==
  [bundle : GraphBundles, envelope : {Envelope(<<Sig(ks)>>, Absent)},
   policy : {Strict, [Strict EXCEPT !.depth = 2]}]
    \cup
  [bundle : Revoked \cup Windowed,
   envelope : {Envelope(l, t) : t \in {Absent, 0, 1, 2},
                 l \in {<<Sig(ks), Sig(kr)>>, <<[Sig(ka) EXCEPT !.valid = FALSE], Sig(ks)>>,
                       <<Sig(ka), [Sig(ks) EXCEPT !.meets = FALSE]>>}},
   policy : {Strict, Lenient, [Lenient EXCEPT !.requireExpiration = FALSE],
             [Strict EXCEPT !.accept = FALSE, !.delegation = FALSE]}]
=============================================================================
