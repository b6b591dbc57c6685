------------------------- MODULE MCRuntimeContinuity -------------------------
(* Evidence that falls short of perfect in at most two ways.               *)
EXTENDS RuntimeContinuity

CONSTANTS primary, companion, template

MCMembers == {primary, companion, template}

Perfect == [method |-> [m \in MCMembers |-> "direct"], values |-> Values,
            covered |-> Dimensions, complete |-> TRUE,
            flaws |-> {}, wrong |-> {}]

\* A signature that is not there is not trusted, and evidence of an origin that
\* no strict policy accepts has none (EvidenceAssertion.preserve_dimensions).
Shortcomings ==
  {{f} : f \in Flaws \ {"observation_unsigned", "observation_strength",
                        "deployment_strength"}}
    \cup {{"observation_unsigned", "untrusted"},
          {"observation_strength", "observation_unsigned", "untrusted"},
          {"deployment_strength", "deployment_unsigned"}}

Worse(e) ==
  {[e EXCEPT !.method[m] = how] : m \in MCMembers, how \in {"proxy", "none"}}
    \cup {[e EXCEPT !.values = @ \ {v}] : v \in Values}
    \cup {[e EXCEPT !.covered = @ \ {d}] : d \in Dimensions}
    \cup {[e EXCEPT !.complete = FALSE]}
    \cup {[e EXCEPT !.flaws = @ \cup f] : f \in Shortcomings}
    \cup {[e EXCEPT !.wrong = @ \cup {x}] : x \in MCMembers \cup Values \cup {"unexpected"}}

Upto2 == LET once == Worse(Perfect)
         IN  {Perfect} \cup once \cup UNION {Worse(e) : e \in once}

\* What a truthful observation may show of what is wrong.
Shown(e) ==
  {(e.wrong \cap e.values) \cup x \cup y \cup z :
   x \in {s \in SUBSET (e.wrong \cap MCMembers) :
            \A m \in e.wrong \cap MCMembers :
              (e.method[m] = "direct" => m \in s) /\ (e.method[m] = "none" => m \notin s)},
   y \in SUBSET (e.wrong \cap {"unexpected"}),
   z \in IF e.wrong \subseteq Values THEN {{}} ELSE SUBSET {"set"}}

MCEvidence ==
  UNION {{[method |-> e.method, values |-> e.values, differs |-> d,
           covered |-> e.covered, complete |-> e.complete, flaws |-> e.flaws,
           wrong |-> e.wrong] : d \in Shown(e)} :
         e \in Upto2}
=============================================================================
