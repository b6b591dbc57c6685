------------------------------ MODULE MCVerdicts ------------------------------
(* Runtime continuity and release governance in one run, one at a time: focus *)
(* says which one works while the other rests in an initial state.            *)
EXTENDS MCRuntimeContinuity, MCReleaseGovernance

VARIABLE focus
verdictVars == <<focus, vars, governanceVars>>

VerdictsInit ==
  /\ focus \in {"continuity", "governance"}
  /\ focus = "continuity" \/ profile = "local"
  /\ focus = "governance" \/ decisions = <<>>
  /\ Init /\ GovernanceInit

VerdictsNext ==
  \/ focus = "continuity" /\ Next /\ UNCHANGED <<focus, governanceVars>>
  \/ focus = "governance" /\ PartNext /\ UNCHANGED <<focus, vars>>

VerdictsSpec == VerdictsInit /\ [][VerdictsNext]_verdictVars
=============================================================================
