------------------------ MODULE RevocationPropagation ------------------------
(***************************************************************************)
(* propagate_revocation of omiv.continuous_trust.building: the walk over   *)
(* the explicit dependency edges that starts at a revoked object, one step *)
(* per edge taken from the stack.  The snapshots it leaves alone count     *)
(* only by their number; the kinds of edges play no part in it.            *)
(***************************************************************************)
EXTENDS Integers, Sequences, FiniteSets, Functions

CONSTANTS
  Objects, Dimensions,
  Graphs,                        \* the dependency lists that may be supplied
  SnapshotCounts,                \* how many snapshots may be supplied
  MaxNodes, MaxEdges, MaxDepth,  \* MAX_PROPAGATION_*
  MaxListed                      \* of dimensions or snapshots in the result

Edges == [dependent : Objects, dimensions : SUBSET Dimensions \ {{}}]

ASSUME GraphsAssumption ==
  /\ IsFiniteSet(Objects)
  /\ Graphs \subseteq [Objects -> Seq(Edges)]
ASSUME LimitsAssumption ==
  /\ MaxNodes \in Nat /\ MaxEdges \in Nat /\ MaxDepth \in Nat \ {0}
  /\ MaxListed \in Nat /\ SnapshotCounts \subseteq Nat

VARIABLES
  out,         \* the edges out of each object, in the order supplied
  target,      \* the object the event is about
  authorized,  \* it is a revocation, by an issuer who may revoke
  snapshots,   \* how many snapshots came with it
  status,      \* of the result, "start", "walk", or why there is none
  stack,       \* edges to follow, each with its distance from the target
  seen,        \* transitive_dependent_ids
  affected     \* affected_dimensions

input == <<out, target, authorized, snapshots>>
vars == <<input, status, stack, seen, affected>>

EdgesOf(o) == Range(out[o])
NumberOfEdges == SumFunction([o \in Objects |-> Len(out[o])])
Nodes == {o \in Objects : out[o] # <<>>}
           \cup UNION {{e.dependent : e \in EdgesOf(o)} : o \in Objects}
TooLarge == NumberOfEdges > MaxEdges \/ Cardinality(Nodes) > MaxNodes

Entries(o, d) == [i \in 1..Len(out[o]) |-> [edge |-> out[o][i], depth |-> d]]
Top == stack[Len(stack)]
Below == SubSeq(stack, 1, Len(stack) - 1)

Refuse ==
  /\ status = "start" /\ TooLarge
  /\ status' = "refused"
  /\ UNCHANGED <<input, stack, seen, affected>>

\* The result's model takes only so many dimensions and snapshots.
Result(s) ==
  IF snapshots > MaxListed \/ Cardinality(affected) > MaxListed THEN "invalid" ELSE s

NotARevocation ==
  /\ status = "start" /\ ~TooLarge /\ ~authorized
  /\ status' = Result("UNAUTHORIZED")
  /\ UNCHANGED <<input, stack, seen, affected>>

\* Mutant: the target itself counts as found.
StartAtTarget ==
  /\ status = "start" /\ ~TooLarge /\ authorized
  /\ status' = "walk"
  /\ stack' = Entries(target, 1)
  /\ seen' = {target}
  /\ UNCHANGED <<input, affected>>

Start ==
  /\ status = "start" /\ ~TooLarge /\ authorized
  /\ status' = "walk"
  /\ stack' = Entries(target, 1)
  /\ UNCHANGED <<input, seen, affected>>

\* Mutant: the dependent is recorded, but not what depends on it in turn.
NoFurther(o) == <<>>

Further(o) == Entries(o, Top.depth + 1)

\* Mutant: an edge is left on the stack when it leads to something seen.
KeptIfSeen == IF Top.edge.dependent \in seen THEN stack ELSE Below

Rest == Below

\* Mutant: the depth is counted from zero.
DeepBy1 == Top.depth >= MaxDepth

TooDeep == Top.depth > MaxDepth

Limited == affected \cup Top.edge.dimensions

RefuseDepth ==
  /\ status = "walk" /\ stack # <<>>
  /\ TooDeep
  /\ status' = "too_deep"
  /\ stack' = Below
  /\ UNCHANGED <<input, seen, affected>>

SkipSeen ==
  /\ status = "walk" /\ stack # <<>>
  /\ ~TooDeep
  /\ Top.edge.dependent \in seen
  /\ stack' = Rest
  /\ UNCHANGED <<input, status, seen, affected>>

Follow ==
  /\ status = "walk" /\ stack # <<>>
  /\ ~TooDeep
  /\ LET item == Top.edge.dependent
     IN  /\ item \notin seen
         /\ seen' = seen \cup {item}
         /\ affected' = Limited
         /\ stack' = Rest \o Further(item)
  /\ UNCHANGED <<input, status>>

Finish ==
  /\ status = "walk" /\ stack = <<>>
  /\ status' = Result("PROPAGATED")
  /\ UNCHANGED <<input, stack, seen, affected>>

Init ==
  /\ out \in Graphs /\ target \in Objects /\ authorized \in BOOLEAN
  /\ snapshots \in SnapshotCounts
  /\ status = "start" /\ stack = <<>>
  /\ seen = {} /\ affected = {}

Walk == Refuse \/ NotARevocation \/ Start \/ RefuseDepth \/ SkipSeen \/ Follow \/ Finish

Final == {"PROPAGATED", "UNAUTHORIZED", "refused", "too_deep", "invalid"}
Done == status \in Final /\ UNCHANGED vars

Next == Walk \/ Done

Spec == Init /\ [][Next]_vars
\* The walk is one thread of control: it goes on while it can.
FairSpec == Spec /\ WF_vars(Walk)
-----------------------------------------------------------------------------
(* Properties *)

\* Types; the stack holds edges out of what was reached, within the limits,
\* and whoever may not revoke affects nothing.
TypeOK ==
  /\ out \in [Objects -> Seq(Edges)]
  /\ target \in Objects /\ authorized \in BOOLEAN /\ snapshots \in Nat
  /\ status \in {"start", "walk"} \cup Final
  /\ stack \in Seq([edge : Edges, depth : 1..MaxDepth + 1])
  /\ seen \subseteq Objects /\ affected \subseteq Dimensions
  /\ ~authorized => seen = {} /\ affected = {}

\* A set of objects that no edge out of it or of the target leaves.
Closed(S) == \A o \in S \cup {target} : \A e \in EdgesOf(o) : e.dependent \in S

\* What depends on the target, directly or not.
Dependents == {o \in Objects : \A S \in SUBSET Objects : Closed(S) => o \in S}

\* The dimensions are those of edges into dependents, at least one of each.
DimensionsOfEdges ==
  /\ \A x \in affected : \E o \in seen \cup {target} : \E e \in EdgesOf(o) :
       x \in e.dimensions /\ e.dependent \in seen
  /\ \A s \in seen : \E o \in seen \cup {target} : \E e \in EdgesOf(o) :
       e.dependent = s /\ e.dimensions \subseteq affected

\* Only what depends on the target through explicit edges is limited, and only
\* as far as such edges say, all that one of them says of each dependent.
NothingUnrelated == seen \subseteq Dependents /\ DimensionsOfEdges

\* A propagation that ends with PROPAGATED has found every dependent, whatever
\* the order of the edges and however they branch, join and return.
EveryDependent == status = "PROPAGATED" => Dependents \subseteq seen

\* n different objects, of which the first depends on the target and each other
\* on the one before.
LeadsTo(o, i) == \E e \in EdgesOf(o) : e.dependent = i
IsChainOf(n, p) ==
  /\ \A i, j \in 1..n : p[i] = p[j] => i = j
  /\ \A i \in 1..n : LeadsTo(IF i = 1 THEN target ELSE p[i - 1], p[i])

\* The depth limit refuses only where edges lead from the target through as many
\* different dependents, one after the other, and on from the last: siblings,
\* and edges that join or return, do not add up to depth.
RefusalMeansDepth ==
  status = "too_deep" =>
    \E p \in [1..MaxDepth -> Objects] :
      IsChainOf(MaxDepth, p) /\ EdgesOf(p[MaxDepth]) # {}

\* The walk comes to an end, also where the edges form cycles.
Ends == <>(status \in Final)
=============================================================================
