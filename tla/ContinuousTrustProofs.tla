-------------------------- MODULE ContinuousTrustProofs --------------------------
(***************************************************************************)
(* Proofs about the two models of continuous_trust: how a revocation       *)
(* spreads (RevocationPropagation), and what an audit bundle says of the   *)
(* history of trust (TrustTimeline, AuditBundle).                          *)
(***************************************************************************)
EXTENDS RevocationPropagation, AuditBundle, Descent, FiniteSetTheorems, TLAPS

(***************************************************************************)
(* RevocationPropagation, for every finite set of objects and              *)
(* every dependency list.  The inductive invariant Inv speaks of the set   *)
(* of entries on the stack: each belongs to an edge out of what was        *)
(* reached (FromReached); an edge out of what was reached leads to what    *)
(* was found or is still on the stack (Pending); and an entry of depth n   *)
(* hangs on n - 1 different objects that were found one after the other    *)
(* (Distance).                                                             *)
(***************************************************************************)

Entry == [edge : Edges, depth : 1..MaxDepth + 1]
On(s) == {s[i] : i \in 1..Len(s)}
Reached == seen \cup {target}

FromReached == \A k \in On(stack) : \E o \in Reached : k.edge \in EdgesOf(o)

Pending ==
  status \in {"walk", "PROPAGATED"} =>
    \A o \in Reached : \A e \in EdgesOf(o) :
      e.dependent \in seen \/ \E k \in On(stack) : k.edge = e

HangsOn(k, p) ==
  /\ IsChainOf(k.depth - 1, p)
  /\ k.edge \in EdgesOf(IF k.depth = 1 THEN target ELSE p[k.depth - 1])

Distance ==
  /\ \A k \in On(stack) : \E p \in [1..(k.depth - 1) -> seen] : HangsOn(k, p)
  /\ RefusalMeansDepth

Related == seen \subseteq Dependents

Outcome ==
  /\ status \in {"start", "PROPAGATED"} => stack = <<>>
  /\ status = "start" => seen = {} /\ affected = {}
  /\ status = "walk" => authorized

Inv == TypeOK /\ Outcome /\ FromReached /\ Pending /\ Related
         /\ DimensionsOfEdges /\ Distance
-----------------------------------------------------------------------------
(* The stack as a set of entries *)

\* The entries of two sequences one after the other are those of both.
LEMMA OnCat ==
  ASSUME NEW S, NEW s \in Seq(S), NEW t \in Seq(S)
  PROVE  s \o t \in Seq(S) /\ On(s \o t) = On(s) \cup On(t)
<1>1. s \o t \in Seq(S) /\ Len(s \o t) = Len(s) + Len(t)
  OBVIOUS
<1>2. \A i \in 1..Len(s) : (s \o t)[i] = s[i]
  OBVIOUS
<1>3. \A i \in 1..Len(t) : (s \o t)[Len(s) + i] = t[i]
  OBVIOUS
<1>4. \A i \in 1..Len(s) + Len(t) :
        i \in 1..Len(s) \/ \E j \in 1..Len(t) : i = Len(s) + j
  <2> SUFFICES ASSUME NEW i \in 1..Len(s) + Len(t), ~(i \in 1..Len(s))
               PROVE  \E j \in 1..Len(t) : i = Len(s) + j
    OBVIOUS
  <2>1. i - Len(s) \in 1..Len(t) /\ i = Len(s) + (i - Len(s))
    OBVIOUS
  <2> QED BY <2>1
<1>5. \A j \in 1..Len(t) : Len(s) + j \in 1..Len(s) + Len(t)
  OBVIOUS
<1>6. \A i \in 1..Len(s) : i \in 1..Len(s) + Len(t)
  OBVIOUS
<1> HIDE DEF On
<1>7. On(s) \subseteq On(s \o t)
  BY <1>1, <1>2, <1>6 DEF On
<1>8. On(t) \subseteq On(s \o t)
  BY <1>1, <1>3, <1>5 DEF On
<1>9. On(s \o t) \subseteq On(s) \cup On(t)
  <2> SUFFICES ASSUME NEW i \in 1..Len(s) + Len(t)
               PROVE  (s \o t)[i] \in On(s) \cup On(t)
    BY <1>1 DEF On
  <2>1. CASE i \in 1..Len(s)
    BY <2>1, <1>2 DEF On
  <2>2. CASE ~(i \in 1..Len(s))
    <3>1. PICK j \in 1..Len(t) : i = Len(s) + j
      BY <2>2, <1>4
    <3> QED BY <3>1, <1>3 DEF On
  <2> QED BY <2>1, <2>2
<1> QED BY <1>1, <1>7, <1>8, <1>9

\* A sequence that is not empty is its last entry and those below.
LEMMA OnPop ==
  ASSUME NEW S, NEW s \in Seq(S), s # <<>>
  PROVE  /\ SubSeq(s, 1, Len(s) - 1) \in Seq(S) /\ s[Len(s)] \in S
         /\ On(s) = On(SubSeq(s, 1, Len(s) - 1)) \cup {s[Len(s)]}
<1>1. PICK n \in Nat : n = Len(s) /\ n >= 1
  OBVIOUS
<1>2. PICK b : b = SubSeq(s, 1, n - 1)
  OBVIOUS
<1>3. s[n] \in S
  BY <1>1
<1>4. b \in Seq(S) /\ Len(b) = n - 1
  BY <1>1, <1>2
<1>5. \A i \in 1..n - 1 : b[i] = s[i]
  BY <1>1, <1>2
<1>6. \A i \in 1..n : i \in 1..n - 1 \/ i = n
  BY <1>1
<1>7. 1..n - 1 \subseteq 1..n /\ n \in 1..n
  BY <1>1
<1>8. On(s) = On(b) \cup {s[n]}
  BY <1>1, <1>4, <1>5, <1>6, <1>7 DEF On
<1> QED BY <1>1, <1>2, <1>3, <1>4, <1>8

\* The entries pushed for an object are those of its edges.
LEMMA OnEntries ==
  ASSUME out \in [Objects -> Seq(Edges)], NEW o \in Objects, NEW d \in 1..MaxDepth + 1
  PROVE  /\ Entries(o, d) \in Seq(Entry)
         /\ On(Entries(o, d)) = {[edge |-> e, depth |-> d] : e \in EdgesOf(o)}
<1> DEFINE s == out[o]
<1>1. s \in Seq(Edges) /\ DOMAIN s = 1..Len(s) /\ Len(s) \in Nat
  OBVIOUS
<1>2. Entries(o, d) = [i \in 1..Len(s) |-> [edge |-> s[i], depth |-> d]]
  BY DEF Entries
<1> HIDE DEF s
<1>3. \A i \in 1..Len(s) : s[i] \in Edges
  BY <1>1
<1>4. \A i \in 1..Len(s) : [edge |-> s[i], depth |-> d] \in Entry
  BY <1>3 DEF Entry
<1>5. Entries(o, d) \in Seq(Entry) /\ Len(Entries(o, d)) = Len(s)
  BY <1>1, <1>2, <1>4
<1>6. On(Entries(o, d)) = {[edge |-> s[i], depth |-> d] : i \in 1..Len(s)}
  BY <1>2, <1>5 DEF On
<1>7. EdgesOf(o) = {s[i] : i \in 1..Len(s)}
  BY <1>1 DEF EdgesOf, Range, s
<1> QED BY <1>5, <1>6, <1>7

\* What depends on the target through an edge out of a dependent is a dependent.
LEMMA DependentsClosed ==
  ASSUME out \in [Objects -> Seq(Edges)], NEW o \in Dependents \cup {target},
         target \in Objects, NEW e \in EdgesOf(o), o \in Objects, e \in Edges
  PROVE  e.dependent \in Dependents
BY DEF Dependents, Closed, Edges

\* An object's edges are edges.
LEMMA EdgesAreEdges ==
  ASSUME out \in [Objects -> Seq(Edges)], NEW o \in Objects, NEW e \in EdgesOf(o)
  PROVE  e \in Edges /\ e.dependent \in Objects /\ e.dimensions \subseteq Dimensions
<1>1. out[o] \in Seq(Edges)
  OBVIOUS
<1>2. e \in Edges
  BY <1>1 DEF EdgesOf, Range
<1> QED BY <1>2 DEF Edges
\* What an entry hangs on stays, as long as what was found does.
LEMMA StillHangs ==
  ASSUME UNCHANGED <<out, target>>, seen \subseteq seen', NEW k,
         \E p \in [1..(k.depth - 1) -> seen] : HangsOn(k, p)
  PROVE  \E p \in [1..(k.depth - 1) -> seen'] : HangsOn(k, p)'
<1>1. PICK p \in [1..(k.depth - 1) -> seen] : HangsOn(k, p)
  OBVIOUS
<1>2. p \in [1..(k.depth - 1) -> seen']
  BY <1>1
<1>3. HangsOn(k, p)'
  BY <1>1 DEF HangsOn, IsChainOf, LeadsTo, EdgesOf
<1> QED BY <1>2, <1>3

\* A refusal for depth was due, and stays so.
LEMMA StillDue ==
  ASSUME UNCHANGED <<out, target, status>>, RefusalMeansDepth
  PROVE  RefusalMeansDepth'
BY DEF RefusalMeansDepth, IsChainOf, LeadsTo, EdgesOf
-----------------------------------------------------------------------------
(* One lemma for each kind of step *)

\* The invariant holds at the start.
LEMMA InvInit == Init => Inv
<1> SUFFICES ASSUME Init PROVE Inv
  OBVIOUS
<1>1. TypeOK
  <2>1. out \in [Objects -> Seq(Edges)]
    BY GraphsAssumption DEF Init
  <2> QED BY <2>1, LimitsAssumption DEF Init, TypeOK, Final
<1>2. On(stack) = {}
  BY DEF Init, On
<1>3. Pending /\ FromReached /\ Outcome /\ Related /\ DimensionsOfEdges
  BY <1>2 DEF Init, Pending, FromReached, Outcome, Related, DimensionsOfEdges
<1>4. Distance
  BY <1>2 DEF Init, Distance, RefusalMeansDepth
<1> QED BY <1>1, <1>3, <1>4 DEF Inv

\* A step that leaves the walk alone, or refuses or ends it before it begins.
LEMMA QuietStep ==
  Inv /\ (Refuse \/ NotARevocation \/ UNCHANGED vars) => Inv'
<1> SUFFICES ASSUME Inv, Refuse \/ NotARevocation \/ UNCHANGED vars PROVE Inv'
  OBVIOUS
<1>1. /\ UNCHANGED <<out, target, authorized, stack, seen, affected>>
      /\ \/ status' = status
         \/ status' \in {"refused", "UNAUTHORIZED", "invalid"}
      /\ snapshots' = snapshots
  BY DEF Refuse, NotARevocation, Result, vars, input
<1>2. TypeOK'
  BY <1>1 DEF Inv, TypeOK, Final
<1>3. Outcome' /\ FromReached' /\ Pending'
  BY <1>1 DEF Inv, Outcome, FromReached, Pending, Reached, EdgesOf
<1>4. Related' /\ DimensionsOfEdges'
  BY <1>1 DEF Inv, Related, DimensionsOfEdges, Dependents, Closed, EdgesOf
<1>5. \A k \in On(stack)' : \E p \in [1..(k.depth - 1) -> seen'] : HangsOn(k, p)'
  BY <1>1, StillHangs DEF Inv, Distance, On
<1>6. RefusalMeansDepth'
  <2>1. CASE status' = status
    BY <1>1, <2>1, StillDue DEF Inv, Distance
  <2>2. CASE status' # status
    BY <1>1, <2>2 DEF RefusalMeansDepth
  <2> QED BY <2>1, <2>2
<1> QED BY <1>2, <1>3, <1>4, <1>5, <1>6 DEF Inv, Distance

\* The walk begins with the target's edges, at distance one.
LEMMA StartStep == Inv /\ Start => Inv'
<1> SUFFICES ASSUME Inv, Start PROVE Inv'
  OBVIOUS
<1>1. /\ UNCHANGED <<out, target, authorized, snapshots, seen, affected>>
      /\ status' = "walk" /\ stack' = Entries(target, 1)
      /\ authorized /\ seen = {} /\ affected = {}
  BY DEF Start, input, Inv, Outcome
<1>2. 1 \in 1..MaxDepth + 1
  BY LimitsAssumption
<1>3. /\ stack' \in Seq(Entry)
      /\ On(stack') = {[edge |-> e, depth |-> 1] : e \in EdgesOf(target)}
  BY <1>1, <1>2, OnEntries DEF Inv, TypeOK
<1>4. TypeOK'
  BY <1>1, <1>3 DEF Inv, TypeOK, Entry, Final
<1>5. Outcome' /\ FromReached' /\ Pending'
  <2>1. Outcome' /\ FromReached'
    BY <1>1, <1>3 DEF Outcome, FromReached, Reached, EdgesOf
  <2>2. ASSUME NEW e \in EdgesOf(target)
        PROVE  \E k \in On(stack') : k.edge = e
    <3>1. [edge |-> e, depth |-> 1] \in On(stack')
      BY <1>3
    <3> QED BY <3>1
  <2>3. Pending'
    BY <1>1, <2>2 DEF Pending, Reached, EdgesOf
  <2> QED BY <2>1, <2>3
<1>6. Related' /\ DimensionsOfEdges'
  BY <1>1 DEF Related, DimensionsOfEdges
<1>7. Distance'
  <2>1. ASSUME NEW k \in On(stack')
        PROVE  \E p \in [1..(k.depth - 1) -> seen'] : HangsOn(k, p)'
    <3>1. k.depth = 1 /\ k.edge \in EdgesOf(target)
      BY <1>3
    <3>2. 1..(k.depth - 1) = {}
      BY <3>1
    <3>3. [i \in {} |-> target] \in [1..(k.depth - 1) -> seen']
      BY <3>2
    <3>4. HangsOn(k, [i \in {} |-> target])'
      BY <1>1, <3>1, <3>2 DEF HangsOn, IsChainOf, EdgesOf
    <3> QED BY <3>3, <3>4
  <2> QED BY <1>1, <2>1 DEF Distance, RefusalMeansDepth, On
<1> QED BY <1>4, <1>5, <1>6, <1>7 DEF Inv

\* The stack before and after its top is taken.
LEMMA Popped ==
  ASSUME TypeOK, stack # <<>>
  PROVE  /\ Below \in Seq(Entry) /\ Top \in Entry
         /\ On(stack) = On(Below) \cup {Top}
BY OnPop DEF TypeOK, Below, Top, Entry

\* An edge too far away hangs on as many objects as it is deep, but one.
LEMMA RefuseDepthStep == Inv /\ RefuseDepth => Inv'
<1> SUFFICES ASSUME Inv, RefuseDepth PROVE Inv'
  OBVIOUS
<1>1. /\ UNCHANGED <<out, target, authorized, snapshots, seen, affected>>
      /\ status = "walk" /\ status' = "too_deep" /\ stack' = Below
      /\ stack # <<>> /\ Top.depth > MaxDepth
  BY DEF RefuseDepth, input, TooDeep
<1>2. /\ Below \in Seq(Entry) /\ Top \in Entry
      /\ On(stack) = On(Below) \cup {Top}
  BY <1>1, Popped DEF Inv
<1>3. TypeOK'
  BY <1>1, <1>2 DEF Inv, TypeOK, Entry, Final
<1>4. Outcome' /\ FromReached' /\ Pending'
  BY <1>1, <1>2 DEF Inv, Outcome, FromReached, Pending, Reached, EdgesOf
<1>5. Related' /\ DimensionsOfEdges'
  <2>1. Related'
    BY <1>1 DEF Inv, Related, Dependents, Closed, EdgesOf
  <2>2. DimensionsOfEdges'
    BY <1>1 DEF Inv, DimensionsOfEdges, EdgesOf
  <2> QED BY <2>1, <2>2
<1>6. PICK p \in [1..(Top.depth - 1) -> seen] : HangsOn(Top, p)
  BY <1>2 DEF Inv, Distance
<1>7. Top.depth - 1 = MaxDepth /\ Top.depth # 1 /\ MaxDepth \in Nat
  <2>1. PICK n : n = Top.depth
    OBVIOUS
  <2>2. n \in 1..MaxDepth + 1 /\ n > MaxDepth
    BY <1>1, <1>2, <2>1 DEF Entry
  <2>3. n - 1 = MaxDepth /\ n # 1 /\ MaxDepth \in Nat
    BY <2>2, LimitsAssumption
  <2> QED BY <2>1, <2>3
<1>8. p \in [1..MaxDepth -> Objects] /\ IsChainOf(MaxDepth, p) /\ EdgesOf(p[MaxDepth]) # {}
  BY <1>6, <1>7 DEF HangsOn, Inv, TypeOK
<1>9. RefusalMeansDepth'
  BY <1>1, <1>8 DEF RefusalMeansDepth, IsChainOf, LeadsTo, EdgesOf
<1>10. \A k \in On(stack)' : \E q \in [1..(k.depth - 1) -> seen'] : HangsOn(k, q)'
  BY <1>1, <1>2, StillHangs DEF Inv, Distance, On
<1> QED BY <1>3, <1>4, <1>5, <1>9, <1>10 DEF Inv, Distance

\* An edge to what was found already is dropped.
LEMMA SkipStep == Inv /\ SkipSeen => Inv'
<1> SUFFICES ASSUME Inv, SkipSeen PROVE Inv'
  OBVIOUS
<1>1. /\ UNCHANGED <<out, target, authorized, snapshots, status, seen, affected>>
      /\ status = "walk" /\ stack # <<>> /\ stack' = Below
      /\ Top.edge.dependent \in seen
  BY DEF SkipSeen, input, Rest
<1>2. /\ Below \in Seq(Entry) /\ Top \in Entry
      /\ On(stack) = On(Below) \cup {Top}
  BY <1>1, Popped DEF Inv
<1>3. TypeOK'
  BY <1>1, <1>2 DEF Inv, TypeOK, Entry, Final
<1>4. Outcome' /\ FromReached'
  BY <1>1, <1>2 DEF Inv, Outcome, FromReached, Reached, EdgesOf
<1>5. Pending'
  BY <1>1, <1>2 DEF Inv, Pending, Reached, EdgesOf
<1>6. Related' /\ DimensionsOfEdges'
  BY <1>1 DEF Inv, Related, DimensionsOfEdges, Dependents, Closed, EdgesOf
<1>7. \A k \in On(stack)' : \E p \in [1..(k.depth - 1) -> seen'] : HangsOn(k, p)'
  BY <1>1, <1>2, StillHangs DEF Inv, Distance, On
<1>8. RefusalMeansDepth'
  BY <1>1, StillDue DEF Inv, Distance
<1> QED BY <1>3, <1>4, <1>5, <1>6, <1>7, <1>8 DEF Inv, Distance

\* An edge is followed: its dependent is found and its own edges are pushed.
LEMMA FollowStep == Inv /\ Follow => Inv'
<1> SUFFICES ASSUME Inv, Follow PROVE Inv'
  OBVIOUS
<1>1. PICK item : item = Top.edge.dependent
  OBVIOUS
<1>2. /\ UNCHANGED <<out, target, authorized, snapshots, status>>
      /\ status = "walk" /\ stack # <<>> /\ ~(Top.depth > MaxDepth)
      /\ item \notin seen /\ seen' = seen \cup {item}
      /\ affected' = affected \cup Top.edge.dimensions
      /\ stack' = Below \o Entries(item, Top.depth + 1)
  BY <1>1 DEF Follow, input, Rest, Further, TooDeep, Limited
<1>3. /\ Below \in Seq(Entry) /\ Top \in Entry
      /\ On(stack) = On(Below) \cup {Top}
  BY <1>2, Popped DEF Inv
<1>4. PICK from \in Reached : Top.edge \in EdgesOf(from)
  BY <1>3 DEF Inv, FromReached
<1>5. from \in Objects /\ Top.edge \in Edges /\ item \in Objects
      /\ Top.edge.dimensions \subseteq Dimensions
  BY <1>1, <1>3, <1>4 DEF Inv, TypeOK, Reached, Entry, Edges
<1>6. PICK d : d = Top.depth + 1
  OBVIOUS
<1>7. d \in 1..MaxDepth + 1 /\ d - 1 = Top.depth /\ Top.depth \in Nat \ {0}
  BY <1>2, <1>3, <1>6, LimitsAssumption DEF Entry
<1>8. /\ Entries(item, d) \in Seq(Entry)
      /\ On(Entries(item, d)) = {[edge |-> e, depth |-> d] : e \in EdgesOf(item)}
  BY <1>5, <1>7, OnEntries DEF Inv, TypeOK
<1>9. /\ stack' \in Seq(Entry)
      /\ On(stack') = On(Below) \cup {[edge |-> e, depth |-> d] : e \in EdgesOf(item)}
  BY <1>2, <1>3, <1>6, <1>8, OnCat
<1>10. authorized
  BY <1>2 DEF Inv, Outcome
<1>11. TypeOK'
  BY <1>2, <1>5, <1>9, <1>10 DEF Inv, TypeOK, Entry, Final
<1>12. Outcome'
  BY <1>2, <1>10 DEF Outcome
<1>13. FromReached'
  BY <1>2, <1>3, <1>9 DEF Inv, FromReached, Reached, EdgesOf
<1>14. Pending'
  <2> SUFFICES ASSUME NEW o \in Reached', NEW e \in EdgesOf(o)
               PROVE  e.dependent \in seen' \/ \E k \in On(stack') : k.edge = e
    BY <1>2 DEF Pending, EdgesOf
  <2>1. CASE o = item
    <3>1. [edge |-> e, depth |-> d] \in On(stack')
      BY <2>1, <1>9
    <3> QED BY <3>1
  <2>2. CASE o # item
    <3>1. o \in Reached
      BY <2>2, <1>2 DEF Reached
    <3>2. CASE e.dependent \in seen
      BY <3>2, <1>2
    <3>3. CASE \E k \in On(stack) : k.edge = e
      BY <3>3, <1>1, <1>2, <1>3, <1>9
    <3> QED BY <3>1, <3>2, <3>3, <1>2 DEF Inv, Pending
  <2> QED BY <2>1, <2>2
<1>15. Related'
  <2>1. from \in Dependents \cup {target}
    BY DEF Inv, Related, Reached
  <2>2. item \in Dependents
    BY <2>1, <1>1, <1>4, <1>5, DependentsClosed DEF Inv, TypeOK
  <2>3. Dependents' = Dependents
    BY <1>2 DEF Dependents, Closed, EdgesOf
  <2> QED BY <2>2, <2>3, <1>2 DEF Inv, Related
<1>16. DimensionsOfEdges'
  <2>1. \A x \in affected' : \E o \in seen' \cup {target} : \E e \in EdgesOf(o) :
          x \in e.dimensions /\ e.dependent \in seen'
    BY <1>1, <1>2, <1>4 DEF Inv, DimensionsOfEdges, Reached
  <2>2. \A s \in seen' : \E o \in seen' \cup {target} : \E e \in EdgesOf(o) :
          e.dependent = s /\ e.dimensions \subseteq affected'
    BY <1>1, <1>2, <1>4 DEF Inv, DimensionsOfEdges, Reached
  <2> QED BY <2>1, <2>2, <1>2 DEF DimensionsOfEdges, EdgesOf
<1>17. ASSUME NEW e \in EdgesOf(item)
       PROVE  \E q \in [1..(d - 1) -> seen'] : HangsOn([edge |-> e, depth |-> d], q)'
  <2>1. PICK n \in Nat \ {0} : n = Top.depth /\ d = n + 1 /\ d - 1 = n
    BY <1>6, <1>7
  <2>2. PICK p \in [1..(n - 1) -> seen] : HangsOn(Top, p)
    BY <1>3, <2>1 DEF Inv, Distance
  <2> DEFINE q == [i \in 1..n |-> IF i = n THEN item ELSE p[i]]
  <2>3. q \in [1..n -> seen']
    BY <1>2, <2>1
  <2>4. \A i, j \in 1..n : q[i] = q[j] => i = j
    <3>1. \A i \in 1..n : i # n => q[i] = p[i] /\ i \in 1..(n - 1) /\ p[i] \in seen
      OBVIOUS
    <3>2. \A i, j \in 1..(n - 1) : p[i] = p[j] => i = j
      BY <2>1, <2>2 DEF HangsOn, IsChainOf
    <3> QED BY <1>2, <3>1, <3>2
  <2>5. q[n] = item
    OBVIOUS
  <2>6. ASSUME NEW i \in 1..n
        PROVE  LeadsTo(IF i = 1 THEN target ELSE q[i - 1], q[i])
    <3>1. CASE i = n
      <4>1. (IF i = 1 THEN target ELSE q[i - 1]) = (IF n = 1 THEN target ELSE p[n - 1])
        BY <3>1
      <4>2. Top.edge \in EdgesOf(IF n = 1 THEN target ELSE p[n - 1])
        BY <2>1, <2>2 DEF HangsOn
      <4> QED BY <1>1, <3>1, <4>1, <4>2, <2>5 DEF LeadsTo
    <3>2. CASE i # n
      <4>1. i \in 1..(n - 1) /\ q[i] = p[i]
        BY <3>2
      <4>2. (IF i = 1 THEN target ELSE q[i - 1]) = (IF i = 1 THEN target ELSE p[i - 1])
        BY <3>2
      <4> QED BY <2>1, <2>2, <4>1, <4>2 DEF HangsOn, IsChainOf
    <3> QED BY <3>1, <3>2
  <2> HIDE DEF q
  <2>7. IsChainOf(n, q)
    BY <2>4, <2>6 DEF IsChainOf
  <2>8. HangsOn([edge |-> e, depth |-> d], q)'
    <3>1. d # 1 /\ [edge |-> e, depth |-> d].depth = d /\ [edge |-> e, depth |-> d].edge = e
      BY <2>1
    <3>2. e \in EdgesOf(q[n])
      BY <2>5
    <3> QED BY <1>2, <2>1, <2>7, <3>1, <3>2 DEF HangsOn, IsChainOf, LeadsTo, EdgesOf
  <2> QED BY <2>1, <2>3, <2>8
<1>18. Distance'
  <2>1. ASSUME NEW k \in On(stack')
        PROVE  \E p \in [1..(k.depth - 1) -> seen'] : HangsOn(k, p)'
    <3>1. CASE k \in On(stack)
      BY <1>2, <3>1, StillHangs DEF Inv, Distance
    <3>2. CASE k \notin On(stack)
      <4>1. PICK e \in EdgesOf(item) : k = [edge |-> e, depth |-> d]
        BY <1>3, <1>9, <3>2
      <4> QED BY <1>17, <4>1
    <3> QED BY <3>1, <3>2
  <2>2. RefusalMeansDepth'
    BY <1>2, StillDue DEF Inv, Distance
  <2> QED BY <2>1, <2>2 DEF Distance, On
<1> QED BY <1>11, <1>12, <1>13, <1>14, <1>15, <1>16, <1>18 DEF Inv

\* The walk ends with an empty stack.
LEMMA FinishStep == Inv /\ Finish => Inv'
<1> SUFFICES ASSUME Inv, Finish PROVE Inv'
  OBVIOUS
<1>1. /\ UNCHANGED <<out, target, authorized, snapshots, stack, seen, affected>>
      /\ status = "walk" /\ stack = <<>> /\ status' \in {"PROPAGATED", "invalid"}
  BY DEF Finish, Result, input
<1>2. TypeOK' /\ Outcome'
  BY <1>1 DEF Inv, TypeOK, Outcome, Final
<1>3. FromReached' /\ Pending'
  BY <1>1 DEF Inv, FromReached, Pending, Reached, EdgesOf
<1>4. Related' /\ DimensionsOfEdges'
  BY <1>1 DEF Inv, Related, DimensionsOfEdges, Dependents, Closed, EdgesOf
<1>5. Distance'
  <2>1. On(stack)' = {}
    BY <1>1 DEF On
  <2>2. RefusalMeansDepth'
    BY <1>1 DEF RefusalMeansDepth
  <2> QED BY <2>1, <2>2 DEF Distance
<1> QED BY <1>2, <1>3, <1>4, <1>5 DEF Inv
-----------------------------------------------------------------------------
(* The theorems *)

\* Every step keeps the invariant.
LEMMA InvNext == Inv /\ [Next]_vars => Inv'
BY QuietStep, StartStep, RefuseDepthStep, SkipStep, FollowStep, FinishStep
   DEF Next, Walk, Done

\* The inductive invariant holds throughout.
LEMMA InvAlways == Spec => []Inv
BY InvInit, InvNext, PTL DEF Spec

\* A walk that has ended has found every dependent.
LEMMA Exhausted == Inv => EveryDependent
<1> SUFFICES ASSUME Inv, status = "PROPAGATED" PROVE Dependents \subseteq seen
  BY DEF EveryDependent
<1>1. On(stack) = {}
  BY DEF Inv, Outcome, On
<1>2. Closed(seen)
  BY <1>1 DEF Inv, Pending, Closed, Reached
<1>3. seen \in SUBSET Objects
  BY DEF Inv, TypeOK
<1> QED BY <1>2, <1>3 DEF Dependents

\* The types of the walk's state, the stack's entries among them; and an event
\* that may not revoke affects nothing.
THEOREM TypeCorrect == Spec => []TypeOK
<1>1. Inv => TypeOK
  BY DEF Inv
<1> QED BY <1>1, InvAlways, PTL

\* propagate_revocation limits nothing the target is not linked to, and no
\* dimension that no edge into a dependent names.
THEOREM NothingUnrelatedHolds == Spec => []NothingUnrelated
<1>1. Inv => NothingUnrelated
  BY DEF Inv, Related, NothingUnrelated
<1> QED BY <1>1, InvAlways, PTL

\* propagate_revocation misses no dependent, in whatever order the edges came.
THEOREM EveryDependentHolds == Spec => []EveryDependent
BY Exhausted, InvAlways, PTL

\* The depth limit refuses only where a chain of that many different dependents,
\* each depending on the one before, leads out of the target and further on.
THEOREM RefusalMeansDepthHolds == Spec => []RefusalMeansDepth
<1>1. Inv => RefusalMeansDepth
  BY DEF Inv, Distance
<1> QED BY <1>1, InvAlways, PTL

(***************************************************************************)
(* Every step of the walk uses something up: a stage, an object that was   *)
(* not found, or an entry of the stack.                                    *)
(***************************************************************************)
SpreadStage == CASE status = "start" -> 2 [] status = "walk" -> 1 [] OTHER -> 0
SpreadRank == <<SpreadStage, Cardinality(Objects \ seen), Len(stack)>>
SpreadRankFalls == <<SpreadRank', SpreadRank>> \in Descent(3)

\* There is no infinite descent.
LEMMA DescentEnds == \A n \in Nat : IsWellFoundedOn(Descent(n), Ranks(n))
<1>1. IsWellFoundedOn(Fewer, Nat)
  BY NatLessThanWellFounded DEF OpToRel, Fewer
<1> QED BY <1>1, WFLexProductOrdering DEF Descent, Ranks

\* When a tuple of three is less than another.
LEMMA Descends3 ==
  ASSUME NEW a \in Nat, NEW b \in Nat, NEW c \in Nat,
         NEW x \in Nat, NEW y \in Nat, NEW z \in Nat,
         a < x \/ (a = x /\ b < y) \/ (a = x /\ b = y /\ c < z)
  PROVE  <<<<a, b, c>>, <<x, y, z>>>> \in Descent(3)
BY DEF Descent, LexProductOrdering, Fewer

\* What is left to find is finite, and less when more has been found.
LEMMA LeftToFind ==
  /\ Cardinality(Objects \ seen) \in Nat
  /\ \A o \in Objects \ seen :
       Cardinality(Objects \ (seen \cup {o})) < Cardinality(Objects \ seen)
<1>1. IsFiniteSet(Objects \ seen) /\ Cardinality(Objects \ seen) \in Nat
  BY GraphsAssumption, FS_Difference, FS_CardinalityType
<1>2. ASSUME NEW o \in Objects \ seen
      PROVE  Cardinality(Objects \ (seen \cup {o})) < Cardinality(Objects \ seen)
  <2>1. Objects \ (seen \cup {o}) = (Objects \ seen) \ {o}
    OBVIOUS
  <2>2. Cardinality((Objects \ seen) \ {o}) = Cardinality(Objects \ seen) - 1
    BY <1>1, FS_RemoveElement
  <2>3. Cardinality(Objects \ seen) - 1 < Cardinality(Objects \ seen)
    BY <1>1
  <2> QED BY <2>1, <2>2, <2>3, Zenon
<1> QED BY <1>1, <1>2

\* A step that changes anything descends.
LEMMA SpreadStep ==
  ASSUME Inv, Inv', [Next]_vars, ~UNCHANGED vars
  PROVE  SpreadRankFalls
<1>1. /\ Cardinality(Objects \ seen) \in Nat /\ Len(stack) \in Nat
      /\ Cardinality(Objects \ seen') \in Nat /\ Len(stack') \in Nat
  <2>1. Cardinality(Objects \ seen') \in Nat
    BY GraphsAssumption, FS_Difference, FS_CardinalityType
  <2> QED BY <2>1, LeftToFind DEF Inv, TypeOK
<1>2. SpreadStage \in Nat /\ SpreadStage' \in Nat
  BY DEF SpreadStage
<1>3. CASE Refuse \/ NotARevocation \/ Start \/ RefuseDepth \/ Finish
  <2>1. \/ status = "start" /\ status' \in {"walk", "refused", "UNAUTHORIZED", "invalid"}
        \/ status = "walk" /\ status' \in {"too_deep", "PROPAGATED", "invalid"}
    BY <1>3 DEF Refuse, NotARevocation, Result, Start, RefuseDepth, Finish
  <2>2. SpreadStage' < SpreadStage
    <3>1. CASE status = "start" /\ status' \in {"walk", "refused", "UNAUTHORIZED", "invalid"}
      BY <3>1 DEF SpreadStage
    <3>2. CASE status = "walk" /\ status' \in {"too_deep", "PROPAGATED", "invalid"}
      BY <3>2 DEF SpreadStage
    <3> QED BY <2>1, <3>1, <3>2
  <2> QED BY <1>1, <1>2, <2>2, Descends3 DEF SpreadRank, SpreadRankFalls
<1>4. CASE SkipSeen
  <2>1. UNCHANGED <<status, seen>> /\ stack # <<>> /\ stack' = Below
    BY <1>4 DEF SkipSeen, Rest
  <2>2. Len(stack') < Len(stack)
    BY <2>1 DEF Below, Inv, TypeOK
  <2>3. SpreadStage' = SpreadStage
    BY <2>1 DEF SpreadStage
  <2> QED BY <1>1, <1>2, <2>1, <2>2, <2>3, Descends3 DEF SpreadRank, SpreadRankFalls
<1>5. CASE Follow
  <2>1. PICK item : item \notin seen /\ seen' = seen \cup {item}
    BY <1>5 DEF Follow
  <2>2. item \in Objects \ seen
    BY <2>1 DEF Inv, TypeOK
  <2>3. Cardinality(Objects \ seen') < Cardinality(Objects \ seen)
    BY <2>1, <2>2, LeftToFind
  <2>4. SpreadStage' = SpreadStage
    BY <1>5 DEF Follow, SpreadStage
  <2> QED BY <1>1, <1>2, <2>3, <2>4, Descends3 DEF SpreadRank, SpreadRankFalls
<1> QED BY <1>3, <1>4, <1>5 DEF Next, Walk, Done

\* propagate_revocation cannot go on for ever, however long the dependency
\* list and however its edges branch, join and return: each step descends in a
\* well-founded order.
THEOREM SpreadDescends ==
  /\ IsWellFoundedOn(Descent(3), Ranks(3))
  /\ Spec => [][SpreadRankFalls]_vars
<1>1. IsWellFoundedOn(Descent(3), Ranks(3))
  BY DescentEnds
<1>2. Inv /\ Inv' /\ [Next]_vars => [SpreadRankFalls]_vars
  BY SpreadStep
<1>3. Spec => [][SpreadRankFalls]_vars
  BY InvAlways, <1>2, PTL DEF Spec
<1> QED BY <1>1, <1>3

-----------------------------------------------------------------------------
(***************************************************************************)
(* AuditBundle.  What was known at a cutoff stays as it was; what makes a  *)
(* directory does so in order and alone; and a verification that has not   *)
(* been disturbed knows what is there.                                     *)
(***************************************************************************)

(***************************************************************************)
(* The timeline.                                                           *)
(***************************************************************************)
LEMMA TimelineTyped ==
  /\ TimelineInit => TimelineTypeOK
  /\ TimelineTypeOK /\ [TimelineNext]_timelineVars => TimelineTypeOK'
<1>1. TimelineInit => TimelineTypeOK
  BY TimelineAssumption DEF TimelineInit, TimelineTypeOK, Moments
<1>2. ASSUME TimelineTypeOK, TimelineNext PROVE TimelineTypeOK'
  <2>1. CASE Pass
    BY <1>2, <2>1, TimelineAssumption DEF Pass, TimelineTypeOK, Moments
  <2>2. ASSUME NEW e \in HistoricalEvents, Arrive(e) PROVE TimelineTypeOK'
    BY <1>2, <2>2, TimelineAssumption DEF Arrive, TimelineTypeOK, Moments
  <2> QED BY <1>2, <2>1, <2>2 DEF TimelineNext
<1>3. TimelineTypeOK /\ UNCHANGED timelineVars => TimelineTypeOK'
  BY DEF timelineVars, TimelineTypeOK
<1> QED BY <1>1, <1>2, <1>3

\* What arrives was not available before, so the past stays as it was known.
LEMMA PastIsKnown ==
  ASSUME TimelineTypeOK, [TimelineNext]_timelineVars, NEW cutoff \in Moments, cutoff < moment
  PROVE  /\ KnownAt(record', cutoff) = KnownAt(record, cutoff)
         /\ record \subseteq record' /\ cutoff < moment'
<1> USE TimelineAssumption DEF TimelineTypeOK, Moments
<1>1. CASE Pass
  BY <1>1 DEF Pass
<1>2. ASSUME NEW e \in HistoricalEvents, Arrive(e)
      PROVE  /\ KnownAt(record', cutoff) = KnownAt(record, cutoff)
             /\ record \subseteq record' /\ cutoff < moment'
  <2>1. ~(AvailableAt[e] <= cutoff) /\ record' = record \cup {e} /\ moment' = moment
    BY <1>2 DEF Arrive
  <2> QED BY <2>1 DEF KnownAt
<1>3. CASE UNCHANGED timelineVars
  BY <1>3 DEF timelineVars
<1> QED BY <1>1, <1>2, <1>3 DEF TimelineNext

(***************************************************************************)
(* The steps of an audit.                                                  *)
(***************************************************************************)
LEMMA JudgedTyped ==
  ASSUME NEW S
  PROVE  Judged(S) \in {"FAILED", "INCOMPLETE", "VERIFIED_WITH_LIMITATIONS", "VERIFIED"}
BY DEF Judged

LEMMA CompletenessTyped ==
  ASSUME NEW S
  PROVE  Completeness(S) \in Completenesses
BY DEF Completeness, Completenesses

(***************************************************************************)
(* Type correctness.  Nothing is made or verified before there is a        *)
(* manifest.                                                               *)
(***************************************************************************)
Stations == {"start", "copy", "manifest", "notice", "readme", "done", "failed"}
MakerStates == [at : Stations, left : SUBSET MemberPaths, open : SUBSET MemberPaths]

Begun ==
  packed = NoBundle =>
    stage = "start" /\ exists = FALSE /\ \A k \in Makers : maker[k].at = "start"

AuditTyped == AuditTypeOK /\ Begun

LEMMA AuditInitTyped == AuditInit => AuditTyped
<1> SUFFICES ASSUME AuditInit PROVE AuditTyped
  OBVIOUS
<1>1. TimelineTypeOK /\ packed = NoBundle /\ exists = FALSE
  BY TimelineTyped DEF AuditInit
<1>2. dir \in [Paths -> Contents]
  BY DEF AuditInit, Contents
<1>3. maker \in [Makers -> MakerStates] /\ \A k \in Makers : maker[k].at = "start"
  BY DEF AuditInit, MakerStates, Stations
<1>4. /\ stage = "start" /\ unlisted = Directories
      /\ queue = {} /\ found = {} /\ reading = {} /\ states = {} /\ witnessed = {}
      /\ outcome = "none" /\ edits = 0 /\ quiet = TRUE
  BY DEF AuditInit
<1>5. edits \in 0 .. MaxEdits
  BY <1>4, BundleAssumption
<1> QED BY <1>1, <1>2, <1>3, <1>4, <1>5 DEF AuditTyped, AuditTypeOK, Begun, MakerStates, Stations

\* Who watches keeps the history variables in their types.
LEMMA WatchTyped ==
  ASSUME AuditTyped, Watch, packed' = packed,
         stage' # "start" => packed # NoBundle
  PROVE  witnessed' \subseteq MemberPaths /\ quiet' \in BOOLEAN
<1>1. packed # NoBundle => packed.members \subseteq MemberPaths
  BY DEF AuditTyped, AuditTypeOK
<1>2. CASE Checking'
  <2>1. witnessed' \subseteq witnessed \cup packed.members
    BY <1>2 DEF Watch
  <2>2. packed # NoBundle
    BY <1>2 DEF Checking
  <2>3. witnessed' \subseteq MemberPaths
    BY <1>1, <2>1, <2>2 DEF AuditTyped, AuditTypeOK
  <2> QED BY <2>3 DEF Watch, AuditTyped, AuditTypeOK
<1>3. CASE ~Checking'
  BY <1>3 DEF Watch, AuditTyped, AuditTypeOK
<1> QED BY <1>2, <1>3

\* What the steps of a maker have in common, and those of the verifier.
LEMMA MakerTyped ==
  ASSUME AuditTyped, MakerOnly, Watch, exists' \in BOOLEAN, dir' \in [Paths -> Contents],
         maker' \in [Makers -> MakerStates], packed # NoBundle
  PROVE  AuditTyped'
<1>1. packed' = packed /\ stage' = stage
  BY DEF MakerOnly, walkVars
<1>2. witnessed' \subseteq MemberPaths /\ quiet' \in BOOLEAN
  BY <1>1, WatchTyped
<1>3. TimelineTypeOK'
  BY DEF MakerOnly, timelineVars, AuditTyped, AuditTypeOK, TimelineTypeOK
<1> QED BY <1>1, <1>2, <1>3
     DEF AuditTyped, AuditTypeOK, Begun, MakerOnly, walkVars, MakerStates, Stations

LEMMA VerifierTyped ==
  ASSUME AuditTyped, VerifierOnly, Watch, packed # NoBundle,
         stage' \in {"start", "manifest", "walk", "read", "done"},
         unlisted' \subseteq Directories, queue' \subseteq Paths, found' \subseteq Paths,
         reading' \subseteq MemberPaths, states' \subseteq Completenesses,
         outcome' \in Outcomes \cup {"none"}
  PROVE  AuditTyped'
<1>1. packed' = packed
  BY DEF VerifierOnly
<1>2. witnessed' \subseteq MemberPaths /\ quiet' \in BOOLEAN
  BY <1>1, WatchTyped
<1>3. TimelineTypeOK'
  BY DEF VerifierOnly, timelineVars, AuditTyped, AuditTypeOK, TimelineTypeOK
<1> QED BY <1>1, <1>2, <1>3 DEF AuditTyped, AuditTypeOK, Begun, VerifierOnly

LEMMA MakeTyped ==
  ASSUME AuditTyped, NEW k \in Makers, Make(k)
  PROVE  AuditTyped'
<1>1. /\ dir \in [Paths -> Contents] /\ maker \in [Makers -> MakerStates]
      /\ exists \in BOOLEAN
      /\ packed # NoBundle => packed.members \in SUBSET MemberPaths
      /\ packed = NoBundle => maker[k].at = "start"
  BY DEF AuditTyped, AuditTypeOK, Begun, MakerStates, Stations
<1>2. maker[k] \in MakerStates
  BY <1>1
<1> USE DEF MakerStates, Stations, Contents
<1>3. CASE MakeDirectory(k)
  BY <1>1, <1>2, <1>3, MakerTyped DEF MakeDirectory, Advance
<1>4. CASE RefuseSource(k)
  BY <1>1, <1>2, <1>4, MakerTyped DEF RefuseSource, Advance
<1>5. CASE Stage(k)
  <2>1. /\ MakerOnly /\ Watch /\ exists' = exists /\ maker[k].at # "start"
        /\ dir' = [dir EXCEPT ![Temporary] = "partial"]
        /\ \E at \in {"manifest", "readme"} : maker' = [maker EXCEPT ![k].at = at]
    BY <1>5 DEF Stage, Advance
  <2>2. maker' \in [Makers -> MakerStates]
    BY <1>1, <1>2, <2>1
  <2> QED BY <1>1, <2>1, <2>2, MakerTyped
<1>6. CASE PublishManifest(k)
  BY <1>1, <1>2, <1>6, MakerTyped DEF PublishManifest, Advance
<1>7. CASE PublishReadme(k)
  BY <1>1, <1>2, <1>7, MakerTyped DEF PublishReadme, Advance
<1>8. CASE Kill(k)
  BY <1>1, <1>2, <1>8, MakerTyped DEF Kill, Advance, Idle
<1>9. ASSUME NEW m \in MemberPaths, OpenMember(k, m)
      PROVE  AuditTyped'
  BY <1>1, <1>2, <1>9, MakerTyped DEF OpenMember
<1>10. ASSUME NEW m \in MemberPaths, WriteMember(k, m)
      PROVE  AuditTyped'
  BY <1>1, <1>2, <1>10, MakerTyped DEF WriteMember
<1> QED BY <1>3, <1>4, <1>5, <1>6, <1>7, <1>8, <1>9, <1>10 DEF Make

LEMMA VerifyTyped ==
  ASSUME AuditTyped, Verify
  PROVE  AuditTyped'
<1>1. /\ unlisted \subseteq Directories /\ queue \subseteq Paths /\ found \subseteq Paths
      /\ reading \subseteq MemberPaths /\ states \subseteq Completenesses
      /\ outcome \in Outcomes \cup {"none"}
      /\ packed # NoBundle => packed.members \in SUBSET MemberPaths
                              /\ packed.timeline \in Completenesses
      /\ packed = NoBundle => stage = "start"
  BY DEF AuditTyped, AuditTypeOK, Begun
<1>2. ASSUME NEW result \in Outcomes, Stop(result), VerifierOnly, Watch, packed # NoBundle
      PROVE  AuditTyped'
  BY <1>1, <1>2, VerifierTyped DEF Stop
<1>3. "REFUSED" \in Outcomes /\ \A S : Judged(S) \in Outcomes
  BY JudgedTyped DEF Outcomes
<1>4. CASE BeginVerification
  BY <1>1, <1>2, <1>3, <1>4, VerifierTyped DEF BeginVerification
<1>5. CASE ReadManifest
  BY <1>1, <1>2, <1>3, <1>5, VerifierTyped DEF ReadManifest
<1>6. ASSUME NEW d \in Directories, ListDirectory(d)
      PROVE  AuditTyped'
  BY <1>1, <1>6, VerifierTyped DEF ListDirectory
<1>7. ASSUME NEW p \in Paths, Look(p)
      PROVE  AuditTyped'
  <2>1. CASE Stop("REFUSED")
    BY <1>1, <1>2, <1>3, <1>7, <2>1 DEF Look
  <2>2. CASE ~Stop("REFUSED")
    BY <1>1, <1>7, <2>2, VerifierTyped DEF Look
  <2> QED BY <2>1, <2>2
<1>8. ASSUME NEW p \in Paths, ReadMember(p)
      PROVE  AuditTyped'
  <2>1. CASE Stop("REFUSED")
    BY <1>1, <1>2, <1>3, <1>8, <2>1 DEF ReadMember
  <2>2. CASE ~Stop("REFUSED")
    BY <1>1, <1>8, <2>2, VerifierTyped DEF ReadMember
  <2> QED BY <2>1, <2>2
<1>9. CASE Conclude
  BY <1>1, <1>2, <1>3, <1>9 DEF Conclude
<1> QED BY <1>4, <1>5, <1>6, <1>7, <1>8, <1>9 DEF Verify

LEMMA AuditNextTyped ==
  ASSUME AuditTyped, [AuditNext]_auditVars
  PROVE  AuditTyped'
<1>1. CASE Time
  <2>1. TimelineTypeOK'
    BY <1>1, TimelineTyped DEF Time, AuditTyped, AuditTypeOK
  <2> QED BY <1>1, <2>1 DEF Time, bundleVars, walkVars, AuditTyped, AuditTypeOK, Begun
<1>2. ASSUME NEW plan \in Plans, NEW cutoff \in Moments, Pack(plan, cutoff)
      PROVE  AuditTyped'
  <2>1. plan \in Plan
    BY BundleAssumption
  <2>2. packed' \in [members : SUBSET MemberPaths, purpose : BundlePurposes,
                     exclusions : BOOLEAN, misdescribed : SUBSET MemberPaths,
                     cutoff : Moments, built : BOOLEAN, timeline : Completenesses]
    BY <1>2, <2>1, CompletenessTyped DEF Pack, Plan, BuildTimeline
  <2>3. UNCHANGED <<moment, record, exists, dir, maker, walkVars, edits, witnessed, quiet>>
        /\ packed = NoBundle
    BY <1>2 DEF Pack, timelineVars
  <2> QED BY <2>2, <2>3 DEF walkVars, AuditTyped, AuditTypeOK, Begun, TimelineTypeOK
<1>3. ASSUME NEW k \in Makers, Make(k)
      PROVE  AuditTyped'
  BY <1>3, MakeTyped
<1>4. ASSUME NEW edit \in Edits, Edit(edit[1], edit[2])
      PROVE  AuditTyped'
  <2>1. edit[1] \in Paths /\ edit[2] \in Contents
    BY BundleAssumption
  <2>2. UNCHANGED <<moment, record, packed, exists, maker, walkVars>>
        /\ dir' = [dir EXCEPT ![edit[1]] = edit[2]] /\ edits' = edits + 1 /\ edits < MaxEdits
        /\ \E k \in Makers : maker[k].at = "done"
    BY <1>4 DEF Edit, timelineVars
  <2>3. packed # NoBundle
    BY <2>2 DEF AuditTyped, Begun
  <2>4. witnessed' \subseteq MemberPaths /\ quiet' \in BOOLEAN
    BY <1>4, <2>2, <2>3, WatchTyped DEF Edit
  <2>5. dir' \in [Paths -> Contents] /\ edits' \in 0 .. MaxEdits
    BY <2>1, <2>2, BundleAssumption DEF AuditTyped, AuditTypeOK
  <2> QED BY <2>2, <2>4, <2>5 DEF walkVars, AuditTyped, AuditTypeOK, Begun, TimelineTypeOK
<1>5. CASE Verify
  BY <1>5, VerifyTyped
<1>6. CASE UNCHANGED auditVars
  BY <1>6 DEF auditVars, bundleVars, timelineVars, walkVars, AuditTyped, AuditTypeOK, Begun,
              TimelineTypeOK
<1> QED BY <1>1, <1>2, <1>3, <1>4, <1>5, <1>6 DEF AuditNext

\* The types of the audit, the members and the walk over the directory.
THEOREM AuditTypeCorrect == AuditSpec => []AuditTypeOK
<1>1. AuditTyped => AuditTypeOK
  BY DEF AuditTyped
<1> QED BY <1>1, AuditInitTyped, AuditNextTyped, PTL DEF AuditSpec

(***************************************************************************)
(* Making.  One maker at a time gets past mkdir, none after another; and   *)
(* what the directory holds follows from how far it is.                    *)
(***************************************************************************)
Active == {"copy", "manifest", "notice", "readme", "done"}

OneMaker ==
  \A k, l \in Makers : k # l /\ maker[k].at \in Active => maker[l].at \notin Active

Rooted ==
  exists = FALSE =>
    (\A p \in Paths : dir[p] = "absent") /\ \A k \in Makers : maker[k].at = "start"

NothingStrange ==
  \A p \in Paths : dir[p] # "link" /\ (dir[p] # "absent" => p \in Allowed \cup {Temporary})

MembersWhole == \A m \in packed.members \ {Readme} : dir[m] = "declared"

Placed(k) ==
  /\ maker[k].at = "copy" =>
       /\ maker[k].left \subseteq packed.members /\ maker[k].open \subseteq maker[k].left
       /\ \A m \in packed.members \ maker[k].left : dir[m] = "declared"
  /\ maker[k].at = "manifest" => \A m \in packed.members : dir[m] = "declared"
  /\ maker[k].at \in {"copy", "manifest"} => dir[Manifest] = "absent"
  /\ maker[k].at \in {"notice", "readme", "done"} => dir[Manifest] = "declared"
  /\ maker[k].at \in {"copy", "notice", "done"} => dir[Temporary] = "absent"
  /\ maker[k].at = "done" => dir[Readme] = "notice"

MadeInOrder ==
  edits = 0 =>
    /\ NothingStrange
    /\ dir[Manifest] # "absent" => MembersWhole
    /\ \A k \in Makers : Placed(k)

MakingInv == OneMaker /\ Rooted /\ MadeInOrder

LEMMA MakingStays ==
  ASSUME MakingInv, UNCHANGED <<packed, exists, dir, maker, edits>>
  PROVE  MakingInv'
BY DEF MakingInv, OneMaker, Rooted, MadeInOrder, NothingStrange, MembersWhole, Placed, Allowed

LEMMA MakeKeepsMaking ==
  ASSUME AuditTyped, MakingInv, NEW k \in Makers, Make(k)
  PROVE  MakingInv'
<1>1. /\ dir \in [Paths -> Contents] /\ maker \in [Makers -> MakerStates]
      /\ exists \in BOOLEAN
      /\ packed # NoBundle => packed.members \in SUBSET MemberPaths
      /\ packed = NoBundle => maker[k].at = "start"
  BY DEF AuditTyped, AuditTypeOK, Begun, MakerStates, Stations
<1>2. maker[k] \in MakerStates
  BY <1>1
<1>3. UNCHANGED <<packed, edits>>
  BY DEF Make, MakeDirectory, OpenMember, WriteMember, RefuseSource, Stage,
         PublishManifest, PublishReadme, Kill, MakerOnly
<1>4. /\ {Manifest, Readme, Temporary} \subseteq Paths /\ MemberPaths \subseteq Paths
      /\ Manifest \notin MemberPaths /\ Temporary \notin MemberPaths
      /\ Manifest # Temporary /\ Readme # Temporary /\ Readme # Manifest
  BY BundleAssumption DEF Paths
<1> USE DEF MakerStates, Active
<1>5. ASSUME OneMaker, Rooted, exists', NEW at \in Stations,
             \A l \in Makers \ {k} : maker'[l] = maker[l], maker'[k].at = at,
             maker[k].at \in Active
      PROVE  OneMaker' /\ Rooted'
  BY <1>5, <1>2 DEF OneMaker, Rooted
<1>6. CASE MakeDirectory(k)
  BY <1>1, <1>2, <1>3, <1>4, <1>6 DEF MakeDirectory, Advance, MakingInv, OneMaker, Rooted,
     MadeInOrder, NothingStrange, MembersWhole, Placed, Allowed
<1>7. ASSUME maker[k].at \in Active, maker' = [maker EXCEPT ![k].at = "failed"],
             UNCHANGED <<exists, dir>>
      PROVE  MakingInv'
  BY <1>1, <1>2, <1>3, <1>7 DEF MakingInv, OneMaker, Rooted, MadeInOrder, NothingStrange,
     MembersWhole, Placed, Allowed
<1>8. CASE RefuseSource(k)
  BY <1>7, <1>8 DEF RefuseSource, Advance
<1>9. CASE Kill(k)
  BY <1>2, <1>7, <1>9 DEF Kill, Advance, Idle, Stations
<1>10. ASSUME NEW m \in MemberPaths, OpenMember(k, m)
      PROVE  MakingInv'
  BY <1>1, <1>2, <1>3, <1>4, <1>10 DEF OpenMember, MakingInv, OneMaker, Rooted, MadeInOrder,
     NothingStrange, MembersWhole, Placed, Allowed
<1>11. ASSUME NEW m \in MemberPaths, WriteMember(k, m)
      PROVE  MakingInv'
  BY <1>1, <1>2, <1>3, <1>4, <1>11 DEF WriteMember, MakingInv, OneMaker, Rooted, MadeInOrder,
     NothingStrange, MembersWhole, Placed, Allowed
<1>12. CASE Stage(k)
  BY <1>1, <1>2, <1>3, <1>4, <1>12 DEF Stage, Advance, MakingInv, OneMaker, Rooted, MadeInOrder,
     NothingStrange, MembersWhole, Placed, Allowed
<1>13. CASE PublishManifest(k)
  BY <1>1, <1>2, <1>3, <1>4, <1>13 DEF PublishManifest, Advance, MakingInv, OneMaker, Rooted,
     MadeInOrder, NothingStrange, MembersWhole, Placed, Allowed
<1>14. CASE PublishReadme(k)
  BY <1>1, <1>2, <1>3, <1>4, <1>14 DEF PublishReadme, Advance, MakingInv, OneMaker, Rooted,
     MadeInOrder, NothingStrange, MembersWhole, Placed, Allowed
<1> QED BY <1>6, <1>8, <1>9, <1>10, <1>11, <1>12, <1>13, <1>14 DEF Make

LEMMA AuditKeepsMaking ==
  ASSUME AuditTyped, MakingInv, [AuditNext]_auditVars
  PROVE  MakingInv'
<1>1. CASE Time \/ UNCHANGED auditVars
  BY <1>1, MakingStays DEF Time, auditVars, bundleVars
<1>2. ASSUME NEW plan \in Plans, NEW cutoff \in Moments, Pack(plan, cutoff)
      PROVE  MakingInv'
  BY <1>2 DEF Pack, AuditTyped, Begun, MakingInv, OneMaker, Rooted, MadeInOrder, NothingStrange,
     MembersWhole, Placed, Paths
<1>3. ASSUME NEW k \in Makers, Make(k)
      PROVE  MakingInv'
  BY <1>3, MakeKeepsMaking
<1>4. ASSUME NEW edit \in Edits, Edit(edit[1], edit[2])
      PROVE  MakingInv'
  <2>1. UNCHANGED <<exists, maker>> /\ edits' # 0 /\ \E k \in Makers : maker[k].at = "done"
    BY <1>4 DEF Edit, AuditTyped, AuditTypeOK
  <2> QED BY <2>1 DEF MakingInv, OneMaker, Rooted, MadeInOrder
<1>5. CASE Verify
  BY <1>5, MakingStays DEF Verify, BeginVerification, ReadManifest, ListDirectory, Look,
     ReadMember, Conclude, VerifierOnly
<1> QED BY <1>1, <1>2, <1>3, <1>4, <1>5 DEF AuditNext

LEMMA MakingIsOrdered == AuditTyped /\ MakingInv => ManifestComesLast
<1> SUFFICES ASSUME AuditTyped, MakingInv, edits = 0
             PROVE  /\ dir[Manifest] # "absent" => MembersWhole
                    /\ (\E k \in Makers : maker[k].at = "done") =>
                         (Sound <=> Readme \notin packed.members
                                    /\ packed.members \cap packed.misdescribed = {})
  BY DEF ManifestComesLast, MembersWhole
<1>1. dir[Manifest] # "absent" => MembersWhole
  BY DEF MakingInv, MadeInOrder
<1>2. ASSUME NEW k \in Makers, maker[k].at = "done"
      PROVE  Sound <=> Readme \notin packed.members
                       /\ packed.members \cap packed.misdescribed = {}
  <2>1. /\ NothingStrange /\ dir[Manifest] = "declared" /\ dir[Temporary] = "absent"
        /\ dir[Readme] = "notice" /\ MembersWhole
    BY <1>2 DEF MakingInv, MadeInOrder, Placed
  <2>2. Present \subseteq Allowed /\ \A p \in Present : dir[p] # "link"
    BY <2>1 DEF Present, NothingStrange
  <2> QED BY <2>1, <2>2 DEF Sound, MembersWhole
<1> QED BY <1>1, <1>2

\* A directory with a manifest holds every member that was made for it, whole,
\* unless somebody else changed it (materialize_bundle).
THEOREM ManifestComesLastHolds == AuditSpec => []ManifestComesLast
<1>1. AuditInit => MakingInv
  BY DEF AuditInit, MakingInv, OneMaker, Rooted, MadeInOrder, NothingStrange, MembersWhole,
     Placed, Active, Paths
<1>2. AuditTyped /\ MakingInv /\ [AuditNext]_auditVars => MakingInv'
  BY AuditKeepsMaking
<1> QED BY <1>1, <1>2, AuditInitTyped, AuditNextTyped, MakingIsOrdered, PTL DEF AuditSpec

(***************************************************************************)
(* Verifying.  Walked: what the walk has seen so far, what its timeline    *)
(* says of the history, and which members held their bytes.  Unmoved: if   *)
(* the directory has not changed, what was found is what is there.         *)
(***************************************************************************)
OfHistory ==
  packed # NoBundle =>
    /\ packed.cutoff \in Moments /\ packed.cutoff < moment
    /\ packed.built => packed.timeline = Completeness(KnownAt(record, packed.cutoff))

Before == stage \in {"start", "manifest"}
Looked == (found \cap packed.members) \ reading

Walked ==
  /\ Before => unlisted = Directories /\ queue = {} /\ found = {} /\ states = {}
  /\ stage \in {"start", "manifest", "walk"} => reading = {}
  /\ reading \subseteq packed.members \cap found
  /\ outcome = "none" <=> stage # "done"
  /\ states \subseteq {packed.timeline}
  /\ states # {} => \E m \in packed.members : Schema[m] = "timeline"
  /\ \A m \in Looked : Schema[m] = "timeline" => packed.timeline \in states
  /\ Checking => \A m \in packed.members : Readable(m) => m \in witnessed
  /\ Looked \subseteq witnessed
  /\ Concluded => packed.members \subseteq witnessed
  /\ Verified => packed.timeline = "COMPLETE_FOR_DECLARED_RANGE"

Unmoved ==
  /\ stage \in {"walk", "read"} =>
       /\ dir[Manifest] = "declared"
       /\ queue \subseteq Present /\ found \subseteq Present \cap Allowed
       /\ \A p \in Present : DirectoryOf[p] \in unlisted \/ p \in queue \cup found
       /\ \A p \in found : dir[p] # "link"
       /\ \A m \in Looked : dir[m] = "declared" /\ m \notin packed.misdescribed
  /\ stage = "done" => outcome = Deserved

VerifyingInv ==
  OfHistory /\ (stage # "start" => Walked) /\ (stage # "start" /\ quiet => Unmoved)
    /\ (stage = "start" => /\ unlisted = Directories /\ queue = {} /\ found = {}
                           /\ reading = {} /\ states = {} /\ outcome = "none")

\* Others' steps, which leave the verifier alone.
LEMMA OthersKeepVerifying ==
  ASSUME AuditTyped, VerifyingInv, UNCHANGED <<timelineVars, packed, walkVars>>, Watch
  PROVE  VerifyingInv'
<1> USE DEF walkVars, timelineVars
<1>1. OfHistory'
  BY DEF OfHistory, VerifyingInv
<1>2. ASSUME stage # "start" PROVE Walked'
  <2>1. Walked
    BY <1>2 DEF VerifyingInv
  <2>2. witnessed \subseteq witnessed'
        /\ (Checking' => \A m \in packed.members : Readable(m)' => m \in witnessed')
    BY DEF Watch
  <2> QED BY <2>1, <2>2 DEF Walked, Before, Looked, Checking, Concluded, Verified
<1>3. ASSUME stage # "start", quiet' PROVE Unmoved'
  <2>1. quiet /\ dir' = dir
    BY <1>3 DEF Watch
  <2>2. Unmoved
    BY <1>3, <2>1 DEF VerifyingInv
  <2> QED BY <2>1, <2>2 DEF Unmoved, Looked, Present, Allowed, Deserved, Sound, Judged
<1> QED BY <1>1, <1>2, <1>3 DEF VerifyingInv

\* What the verifier's steps have in common.
LEMMA VerifierLooksOn ==
  ASSUME VerifyingInv, VerifierOnly, Watch
  PROVE  /\ OfHistory' /\ UNCHANGED <<packed, exists, dir>>
         /\ quiet' => quiet
         /\ witnessed \subseteq witnessed'
         /\ Checking' => \A m \in packed.members : Readable(m) => m \in witnessed'
<1>1. UNCHANGED <<timelineVars, packed, exists, dir>>
  BY DEF VerifierOnly
<1>2. OfHistory'
  BY <1>1 DEF OfHistory, VerifyingInv, timelineVars
<1> QED BY <1>1, <1>2 DEF Watch, Readable

\* A refusal is right as long as the directory deserves it or has changed.
LEMMA RefusalKeepsVerifying ==
  ASSUME AuditTyped, VerifyingInv, VerifierOnly, Watch, Stop("REFUSED"), stage # "done",
         reading \subseteq packed.members, states \subseteq {packed.timeline},
         quiet => ~Sound
  PROVE  VerifyingInv'
<1>1. /\ OfHistory' /\ UNCHANGED <<packed, exists, dir>> /\ (quiet' => quiet)
      /\ witnessed \subseteq witnessed'
  BY VerifierLooksOn
<1>2. /\ stage' = "done" /\ outcome' = "REFUSED"
      /\ UNCHANGED <<unlisted, queue, found, reading, states>>
  BY DEF Stop
<1>3. Walked'
  <2>1. CASE stage = "start"
    BY <1>1, <1>2, <2>1 DEF VerifyingInv, Walked, Before, Looked, Checking, Concluded, Verified
  <2>2. CASE stage # "start"
    BY <1>1, <1>2, <2>2 DEF VerifyingInv, Walked, Before, Looked, Checking, Concluded, Verified
  <2> QED BY <2>1, <2>2
<1>4. quiet' => Unmoved'
  BY <1>1, <1>2 DEF Unmoved, Deserved, Sound, Present, Allowed
<1> QED BY <1>1, <1>2, <1>3, <1>4 DEF VerifyingInv

LEMMA BeginKeepsVerifying ==
  ASSUME AuditTyped, MakingInv, VerifyingInv, BeginVerification
  PROVE  VerifyingInv'
<1>1. VerifierOnly /\ Watch /\ stage = "start" /\ packed # NoBundle
  BY DEF BeginVerification
<1>2. /\ unlisted = Directories /\ queue = {} /\ found = {}
      /\ reading = {} /\ states = {} /\ outcome = "none"
  BY <1>1 DEF VerifyingInv
<1>3. CASE exists
  <2>1. stage' = "manifest" /\ UNCHANGED <<unlisted, queue, found, reading, states, outcome>>
    BY <1>3 DEF BeginVerification
  <2>2. Walked'
    BY <1>1, <1>2, <2>1, VerifierLooksOn
       DEF Walked, Before, Looked, Checking, Readable, Concluded, Verified, Outcomes
  <2>3. Unmoved'
    BY <2>1 DEF Unmoved
  <2> QED BY <1>1, <2>1, <2>2, <2>3, VerifierLooksOn DEF VerifyingInv
<1>4. CASE ~exists
  <2>1. dir[Manifest] = "absent"
    BY <1>4 DEF MakingInv, Rooted, Paths, AuditTyped, AuditTypeOK
  <2>2. Stop("REFUSED") /\ ~Sound
    BY <1>4, <2>1 DEF BeginVerification, Sound
  <2> QED BY <1>1, <1>2, <2>2, RefusalKeepsVerifying
<1> QED BY <1>3, <1>4

LEMMA ManifestKeepsVerifying ==
  ASSUME AuditTyped, VerifyingInv, ReadManifest
  PROVE  VerifyingInv'
<1>1. VerifierOnly /\ Watch /\ stage = "manifest"
  BY DEF ReadManifest
<1>2. Walked
  BY <1>1 DEF VerifyingInv
<1>3. CASE dir[Manifest] = "declared"
  <2>1. stage' = "walk" /\ UNCHANGED <<unlisted, queue, found, reading, states, outcome>>
    BY <1>3 DEF ReadManifest
  <2>2. /\ unlisted = Directories /\ queue = {} /\ found = {} /\ states = {} /\ reading = {}
        /\ outcome = "none"
    BY <1>1, <1>2 DEF Walked, Before
  <2>3. Walked'
    BY <1>1, <2>1, <2>2, VerifierLooksOn
       DEF Walked, Before, Looked, Checking, Readable, Concluded, Verified, Outcomes
  <2>4. dir' = dir /\ packed' = packed
    BY <1>1, VerifierLooksOn
  <2>5. \A p \in Paths : DirectoryOf[p] \in Directories
    BY BundleAssumption
  <2>6. Unmoved'
    BY <1>3, <2>1, <2>2, <2>4, <2>5 DEF Unmoved, Looked, Present
  <2> QED BY <1>1, <2>1, <2>3, <2>6, VerifierLooksOn DEF VerifyingInv
<1>4. CASE dir[Manifest] # "declared"
  <2>1. Stop("REFUSED") /\ ~Sound
    BY <1>4 DEF ReadManifest, Sound
  <2> QED BY <1>1, <1>2, <2>1, RefusalKeepsVerifying DEF Walked
<1> QED BY <1>3, <1>4

LEMMA ListingKeepsVerifying ==
  ASSUME AuditTyped, VerifyingInv, NEW d \in Directories, ListDirectory(d)
  PROVE  VerifyingInv'
<1>1. /\ VerifierOnly /\ Watch /\ stage = "walk" /\ stage' = "walk"
      /\ queue = {} /\ unlisted' = unlisted \ {d}
      /\ queue' = {p \in Paths : DirectoryOf[p] = d /\ dir[p] # "absent"}
      /\ UNCHANGED <<found, reading, states, outcome>>
  BY DEF ListDirectory
<1>2. Walked /\ (quiet => Unmoved)
  BY <1>1 DEF VerifyingInv
<1>3. Walked'
  BY <1>1, <1>2, VerifierLooksOn
     DEF Walked, Before, Looked, Checking, Readable, Concluded, Verified
<1>4. dir' = dir /\ packed' = packed /\ (quiet' => quiet)
  BY <1>1, VerifierLooksOn
<1>5. quiet' => Unmoved'
  BY <1>1, <1>2, <1>4 DEF Unmoved, Looked, Present, Allowed
<1> QED BY <1>1, <1>3, <1>5, VerifierLooksOn DEF VerifyingInv

LEMMA LookKeepsVerifying ==
  ASSUME AuditTyped, VerifyingInv, NEW p \in Paths, Look(p)
  PROVE  VerifyingInv'
<1>1. VerifierOnly /\ Watch /\ stage = "walk" /\ p \in queue
  BY DEF Look
<1>2. Walked /\ (quiet => Unmoved)
  BY <1>1 DEF VerifyingInv
<1>3. dir' = dir /\ packed' = packed /\ (quiet' => quiet)
  BY <1>1, VerifierLooksOn
<1>4. CASE dir[p] \in {"absent", "link"} \/ p \notin Allowed
  <2>1. Stop("REFUSED")
    BY <1>4 DEF Look
  <2>2. quiet => ~Sound
    BY <1>1, <1>2, <1>4 DEF Unmoved, Sound, Present
  <2> QED BY <1>1, <1>2, <2>1, <2>2, RefusalKeepsVerifying DEF Walked
<1>5. CASE ~(dir[p] \in {"absent", "link"} \/ p \notin Allowed)
  <2>1. /\ queue' = queue \ {p} /\ found' = found \cup {p}
        /\ IF p \in packed.members THEN stage' = "read" /\ reading' = {p}
           ELSE UNCHANGED <<stage, reading>>
        /\ UNCHANGED <<unlisted, states, outcome>>
    BY <1>5 DEF Look
  <2>2. Looked' \subseteq Looked
    BY <1>1, <1>2, <1>3, <2>1 DEF Looked, Walked
  <2>3. Walked'
    BY <1>1, <1>2, <1>3, <2>1, <2>2, VerifierLooksOn
       DEF Walked, Before, Checking, Readable, Concluded, Verified, Outcomes
  <2>4. quiet' => Unmoved'
    BY <1>1, <1>2, <1>3, <1>5, <2>1, <2>2 DEF Unmoved, Present, Allowed
  <2> QED BY <1>1, <2>1, <2>3, <2>4, VerifierLooksOn DEF VerifyingInv
<1> QED BY <1>4, <1>5

LEMMA ReadKeepsVerifying ==
  ASSUME AuditTyped, VerifyingInv, NEW p \in Paths, ReadMember(p)
  PROVE  VerifyingInv'
<1>1. VerifierOnly /\ Watch /\ stage = "read" /\ reading = {p}
  BY DEF ReadMember
<1>2. Walked /\ (quiet => Unmoved)
  BY <1>1 DEF VerifyingInv
<1>3. dir' = dir /\ packed' = packed /\ (quiet' => quiet) /\ witnessed \subseteq witnessed'
  BY <1>1, VerifierLooksOn
<1>4. p \in packed.members
  BY <1>1, <1>2 DEF Walked
<1>5. CASE ~Readable(p) \/ p \in packed.misdescribed
  <2>1. Stop("REFUSED")
    BY <1>5 DEF ReadMember
  <2>2. ~Sound
    BY <1>4, <1>5 DEF Sound, Readable
  <2> QED BY <1>1, <1>2, <2>1, <2>2, RefusalKeepsVerifying DEF Walked
<1>6. CASE ~(~Readable(p) \/ p \in packed.misdescribed)
  <2>1. /\ stage' = "walk" /\ reading' = {} /\ UNCHANGED <<unlisted, queue, found, outcome>>
        /\ states' = states \cup IF Schema[p] = "timeline" THEN {packed.timeline} ELSE {}
    BY <1>6 DEF ReadMember
  <2>2. Looked' \subseteq Looked \cup {p}
    BY <1>1, <1>3, <2>1 DEF Looked
  <2>3. p \in witnessed
    BY <1>1, <1>2, <1>4, <1>6 DEF Walked, Checking
  <2>4. Walked'
    BY <1>1, <1>2, <1>3, <1>4, <2>1, <2>2, <2>3, VerifierLooksOn
       DEF Walked, Before, Checking, Readable, Concluded, Verified, Outcomes
  <2>5. quiet' => dir[p] = "declared"
    <3>1. p \in found
      BY <1>1, <1>2 DEF Walked
    <3> QED BY <1>1, <1>2, <1>3, <1>6, <3>1 DEF Readable, Unmoved
  <2>6. quiet' => Unmoved'
    BY <1>1, <1>2, <1>3, <1>6, <2>1, <2>2, <2>5 DEF Unmoved, Present, Allowed
  <2> QED BY <1>1, <2>1, <2>4, <2>6, VerifierLooksOn DEF VerifyingInv
<1> QED BY <1>5, <1>6

LEMMA ConclusionKeepsVerifying ==
  ASSUME AuditTyped, VerifyingInv, Conclude
  PROVE  VerifyingInv'
<1>1. /\ VerifierOnly /\ Watch /\ stage = "walk" /\ queue = {} /\ unlisted = {}
      /\ Stop(IF packed.members \subseteq found THEN Judged(states) ELSE "REFUSED")
  BY DEF Conclude
<1>2. Walked /\ (quiet => Unmoved) /\ reading = {}
  BY <1>1 DEF VerifyingInv, Walked
<1>3. dir' = dir /\ packed' = packed /\ (quiet' => quiet) /\ witnessed \subseteq witnessed'
  BY <1>1, VerifierLooksOn
<1>4. CASE ~(packed.members \subseteq found)
  <2>1. Stop("REFUSED")
    BY <1>1, <1>4
  <2>2. ASSUME quiet PROVE ~Sound
    <3>1. PICK m \in packed.members : m \notin found
      BY <1>4
    <3>2. m \in Paths
      BY <1>1, <3>1 DEF AuditTyped, AuditTypeOK, Begun, Paths
    <3>3. dir[m] = "absent"
      BY <1>1, <1>2, <2>2, <3>1, <3>2 DEF Unmoved, Present
    <3> QED BY <3>1, <3>3 DEF Sound
  <2> QED BY <1>1, <1>2, <2>1, <2>2, RefusalKeepsVerifying DEF Walked
<1>5. CASE packed.members \subseteq found
  <2>1. /\ stage' = "done" /\ outcome' = Judged(states)
        /\ UNCHANGED <<unlisted, queue, found, reading, states>>
    BY <1>1, <1>5 DEF Stop
  <2>2. Looked = packed.members
    BY <1>2, <1>5 DEF Looked
  <2>3. packed.members \subseteq witnessed
    BY <1>2, <2>2 DEF Walked
  <2>4. states = IF "timeline" \in {Schema[m] : m \in packed.members} THEN {packed.timeline}
                 ELSE {}
    BY <1>2, <2>2 DEF Walked
  <2>5. Judged(states) \in {"VERIFIED", "VERIFIED_WITH_LIMITATIONS"} =>
          packed.timeline = "COMPLETE_FOR_DECLARED_RANGE"
    <3>1. SUFFICES ASSUME Judged(states) \in {"VERIFIED", "VERIFIED_WITH_LIMITATIONS"}
                   PROVE  packed.timeline = "COMPLETE_FOR_DECLARED_RANGE"
      OBVIOUS
    <3>2. /\ states \subseteq {"COMPLETE_FOR_DECLARED_RANGE"}
          /\ Required \subseteq {Schema[m] : m \in packed.members}
      BY <3>1 DEF Judged
    <3>3. packed.timeline \in states
      BY <2>4, <3>2 DEF Required
    <3> QED BY <3>2, <3>3
  <2>6. Judged(states) # "none"
    BY JudgedTyped
  <2>7. Looked' = Looked
    BY <1>3, <2>1 DEF Looked
  <2>8. Walked'
    BY <1>1, <1>2, <1>3, <2>1, <2>2, <2>3, <2>5, <2>6, <2>7
       DEF Walked, Before, Checking, Concluded, Verified
  <2>9. ASSUME quiet' PROVE Unmoved'
    <3>1. Unmoved
      BY <1>2, <1>3, <2>9
    <3>2. Sound
      <4>1. Present \subseteq found
        BY <1>1, <3>1 DEF Unmoved
      <4> QED BY <1>1, <2>2, <3>1, <4>1 DEF Unmoved, Sound
    <3>3. Deserved = Judged(states)
      BY <2>4, <3>2 DEF Deserved
    <3>4. Deserved' = Deserved
      BY <1>3 DEF Deserved, Sound, Present, Allowed, Judged
    <3> QED BY <2>1, <3>3, <3>4 DEF Unmoved
  <2> QED BY <1>1, <2>1, <2>8, <2>9, VerifierLooksOn DEF VerifyingInv
<1> QED BY <1>4, <1>5

LEMMA AuditKeepsVerifying ==
  ASSUME AuditTyped, MakingInv, VerifyingInv, [AuditNext]_auditVars
  PROVE  VerifyingInv'
<1>1. CASE Time \/ UNCHANGED auditVars
  <2>1. UNCHANGED bundleVars /\ [TimelineNext]_timelineVars
    BY <1>1 DEF Time, auditVars
  <2>2. OfHistory'
    BY <2>1, PastIsKnown DEF OfHistory, VerifyingInv, bundleVars, AuditTyped, AuditTypeOK
  <2> QED BY <2>1, <2>2 DEF VerifyingInv, bundleVars, walkVars, Walked, Before, Looked,
          Checking, Readable, Concluded, Verified, Unmoved, Present, Allowed, Deserved, Sound,
          Judged
<1>2. ASSUME NEW plan \in Plans, NEW cutoff \in Moments, Pack(plan, cutoff)
      PROVE  VerifyingInv'
  <2>1. stage = "start"
    BY <1>2 DEF Pack, AuditTyped, Begun
  <2>2. OfHistory'
    BY <1>2 DEF Pack, OfHistory, timelineVars, BuildTimeline
  <2> QED BY <1>2, <2>1, <2>2 DEF Pack, VerifyingInv, walkVars
<1>3. ASSUME NEW k \in Makers, Make(k)
      PROVE  VerifyingInv'
  <2>1. MakerOnly /\ Watch
    BY <1>3 DEF Make, MakeDirectory, OpenMember, WriteMember, RefuseSource, Stage,
       PublishManifest, PublishReadme, Kill
  <2> QED BY <2>1, OthersKeepVerifying DEF MakerOnly
<1>4. ASSUME NEW edit \in Edits, Edit(edit[1], edit[2])
      PROVE  VerifyingInv'
  BY <1>4, OthersKeepVerifying DEF Edit
<1>5. CASE Verify
  BY <1>5, BeginKeepsVerifying, ManifestKeepsVerifying, ListingKeepsVerifying,
     LookKeepsVerifying, ReadKeepsVerifying, ConclusionKeepsVerifying DEF Verify
<1> QED BY <1>1, <1>2, <1>3, <1>4, <1>5 DEF AuditNext

AuditInv == AuditTyped /\ MakingInv /\ VerifyingInv

LEMMA AuditInvHolds == AuditSpec => []AuditInv
<1>1. AuditInit => AuditInv
  <2>1. AuditInit => MakingInv
    BY DEF AuditInit, MakingInv, OneMaker, Rooted, MadeInOrder, NothingStrange, MembersWhole,
       Placed, Active, Paths
  <2>2. AuditInit => VerifyingInv
    BY DEF AuditInit, VerifyingInv, OfHistory
  <2> QED BY <2>1, <2>2, AuditInitTyped DEF AuditInv
<1>2. AuditInv /\ [AuditNext]_auditVars => AuditInv'
  BY AuditNextTyped, AuditKeepsMaking, AuditKeepsVerifying DEF AuditInv
<1> QED BY <1>1, <1>2, PTL DEF AuditSpec

\* What a bundle that is not refused contains was read while it was there, and
\* nothing else is concluded of a directory that stands still.
THEOREM VerdictIsOfTheDirectoryHolds == AuditSpec => []VerdictIsOfTheDirectory
<1>1. AuditInv => VerdictIsOfTheDirectory
  <2> SUFFICES ASSUME AuditInv PROVE VerdictIsOfTheDirectory
    OBVIOUS
  <2>1. Concluded => stage # "start"
    BY DEF AuditInv, VerifyingInv, Concluded, Outcomes
  <2> QED BY <2>1 DEF AuditInv, VerifyingInv, Walked, Unmoved, VerdictIsOfTheDirectory
<1> QED BY <1>1, AuditInvHolds, PTL

\* A verified bundle's history is whole, as far as it was known at the cutoff,
\* whatever arrives later, where its timeline is one that build_timeline made.
THEOREM VerifiedHistoryIsWholeHolds == AuditSpec => []VerifiedHistoryIsWhole
<1>1. AuditInv => VerifiedHistoryIsWhole
  <2> SUFFICES ASSUME AuditInv, Verified, packed.built PROVE VerifiedHistoryIsWhole
    BY DEF VerifiedHistoryIsWhole
  <2>1. stage # "start"
    BY DEF AuditInv, VerifyingInv, Verified
  <2>2. packed # NoBundle /\ packed.timeline = "COMPLETE_FOR_DECLARED_RANGE"
    BY <2>1 DEF AuditInv, VerifyingInv, Walked, AuditTyped, Begun
  <2> DEFINE known == KnownAt(record, packed.cutoff)
  <2>3. Completeness(known) = "COMPLETE_FOR_DECLARED_RANGE"
    BY <2>2 DEF AuditInv, VerifyingInv, OfHistory
  <2>4. Forks(known) = {} /\ MissingNumbers(known) = {}
    BY <2>3 DEF Completeness
  <2>5. \A n \in RangeStart .. RangeEnd : \E e \in known : Sequence[e] = n
    BY <2>4 DEF MissingNumbers
  <2> QED BY <2>4, <2>5 DEF VerifiedHistoryIsWhole
<1> QED BY <1>1, AuditInvHolds, PTL

(***************************************************************************)
(* Making and verifying come to an end.  What a maker uses up: its stage,  *)
(* the members it has not written, and the opening of the next one.  What  *)
(* the verifier uses up: its stage, the directories it has not listed, the *)
(* entries it has not looked at, and the member to be read.  A bundle has  *)
(* the directories it has; others may fill and empty them.                 *)
(***************************************************************************)
Held(k) == maker[k].open \subseteq maker[k].left
AllHeld == \A k \in Makers : Held(k)

MakerStage(k) ==
  CASE maker[k].at = "start" -> 5 [] maker[k].at = "copy" -> 4
    [] maker[k].at = "manifest" -> 3 [] maker[k].at = "notice" -> 2
    [] maker[k].at = "readme" -> 1 [] OTHER -> 0
Unopened(k) == IF maker[k].open = {} THEN 1 ELSE 0
MakerRank(k) == <<MakerStage(k), Cardinality(maker[k].left), Unopened(k)>>
MakerDescends(k) == <<MakerRank(k)', MakerRank(k)>> \in Descent(3)

VerifierStage ==
  CASE stage = "start" -> 3 [] stage = "manifest" -> 2 [] stage \in {"walk", "read"} -> 1
    [] OTHER -> 0
VerifierRank == <<VerifierStage, Cardinality(unlisted), Cardinality(queue), Cardinality(reading)>>
VerifierDescends == <<VerifierRank', VerifierRank>> \in Descent(4)

\* When a tuple of four is less than another.
LEMMA Descends4 ==
  ASSUME NEW a \in Nat, NEW b \in Nat, NEW c \in Nat, NEW d \in Nat,
         NEW w \in Nat, NEW x \in Nat, NEW y \in Nat, NEW z \in Nat,
         \/ a < w
         \/ a = w /\ b < x
         \/ a = w /\ b = x /\ c < y
         \/ a = w /\ b = x /\ c = y /\ d < z
  PROVE  <<<<a, b, c, d>>, <<w, x, y, z>>>> \in Descent(4)
BY DEF Descent, LexProductOrdering, Fewer

\* There are finitely many paths and directories, and fewer without one.
LEMMA FewerPaths ==
  ASSUME NEW S, IsFiniteSet(S)
  PROVE  /\ Cardinality(S) \in Nat
         /\ \A p \in S : Cardinality(S \ {p}) \in Nat /\ Cardinality(S \ {p}) < Cardinality(S)
<1>1. Cardinality(S) \in Nat
  BY FS_CardinalityType
<1>2. ASSUME NEW p \in S
      PROVE  Cardinality(S \ {p}) \in Nat /\ Cardinality(S \ {p}) < Cardinality(S)
  <2>1. Cardinality(S \ {p}) = Cardinality(S) - 1 /\ IsFiniteSet(S \ {p})
    BY FS_RemoveElement
  <2>2. Cardinality(S \ {p}) \in Nat
    BY <2>1, FS_CardinalityType
  <2> QED BY <1>1, <2>1, <2>2
<1> QED BY <1>1, <1>2

AuditFinite ==
  /\ IsFiniteSet(unlisted) /\ IsFiniteSet(queue) /\ IsFiniteSet(reading)
  /\ \A k \in Makers : IsFiniteSet(maker[k].left)
LEMMA FinitePaths == AuditTyped => AuditFinite
<1> SUFFICES ASSUME AuditTyped PROVE AuditFinite
  OBVIOUS
<1>1. IsFiniteSet(Paths) /\ IsFiniteSet(Directories) /\ MemberPaths \subseteq Paths
  BY BundleAssumption DEF Paths
<1>2. IsFiniteSet(MemberPaths)
  BY <1>1, FS_Subset
<1>3. /\ unlisted \subseteq Directories /\ queue \subseteq Paths /\ reading \subseteq MemberPaths
      /\ \A k \in Makers : maker[k].left \subseteq MemberPaths
  BY DEF AuditTyped, AuditTypeOK
<1> QED BY <1>1, <1>2, <1>3, FS_Subset DEF AuditFinite

\* What the verifier does descends.
LEMMA VerifyDescends ==
  ASSUME AuditFinite, AuditFinite', Verify
  PROVE  VerifierDescends
<1>1. /\ Cardinality(unlisted) \in Nat /\ Cardinality(queue) \in Nat
      /\ Cardinality(reading) \in Nat
      /\ Cardinality(unlisted') \in Nat /\ Cardinality(queue') \in Nat
      /\ Cardinality(reading') \in Nat
  BY FS_CardinalityType DEF AuditFinite
<1>2. VerifierStage \in Nat /\ VerifierStage' \in Nat
  BY DEF VerifierStage
<1>3. ASSUME VerifierStage' < VerifierStage PROVE VerifierDescends
  BY <1>1, <1>2, <1>3, Descends4 DEF VerifierDescends, VerifierRank
<1>4. CASE BeginVerification \/ ReadManifest \/ Conclude
  <2>1. VerifierStage' < VerifierStage
    BY <1>4 DEF BeginVerification, ReadManifest, Conclude, Stop, VerifierStage
  <2> QED BY <1>3, <2>1
<1>5. ASSUME NEW d \in Directories, ListDirectory(d) PROVE VerifierDescends
  <2>1. d \in unlisted /\ unlisted' = unlisted \ {d} /\ stage' = stage
    BY <1>5 DEF ListDirectory
  <2>2. Cardinality(unlisted') < Cardinality(unlisted)
    BY <2>1, FewerPaths DEF AuditFinite
  <2>3. VerifierStage' = VerifierStage
    BY <2>1 DEF VerifierStage
  <2> QED BY <1>1, <1>2, <2>2, <2>3, Descends4 DEF VerifierDescends, VerifierRank
<1>6. ASSUME NEW p \in Paths, Look(p) PROVE VerifierDescends
  <2>1. CASE stage' = "done"
    <3>1. VerifierStage' < VerifierStage
      BY <1>6, <2>1 DEF Look, VerifierStage
    <3> QED BY <1>3, <3>1
  <2>2. CASE stage' # "done"
    <3>1. /\ p \in queue /\ queue' = queue \ {p} /\ unlisted' = unlisted
          /\ stage = "walk" /\ stage' \in {"walk", "read"}
      BY <1>6, <2>2 DEF Look, Stop
    <3>2. Cardinality(queue') < Cardinality(queue)
      BY <3>1, FewerPaths DEF AuditFinite
    <3>3. VerifierStage' = VerifierStage
      BY <3>1 DEF VerifierStage
    <3> QED BY <1>1, <1>2, <3>1, <3>2, <3>3, Descends4 DEF VerifierDescends, VerifierRank
  <2> QED BY <2>1, <2>2
<1>7. ASSUME NEW p \in Paths, ReadMember(p) PROVE VerifierDescends
  <2>1. CASE stage' = "done"
    <3>1. VerifierStage' < VerifierStage
      BY <1>7, <2>1 DEF ReadMember, VerifierStage
    <3> QED BY <1>3, <3>1
  <2>2. CASE stage' # "done"
    <3>1. /\ reading = {p} /\ reading' = {} /\ UNCHANGED <<unlisted, queue>>
          /\ stage = "read" /\ stage' = "walk"
      BY <1>7, <2>2 DEF ReadMember, Stop
    <3>2. reading' = reading \ {p} /\ p \in reading
      BY <3>1
    <3>3. Cardinality(reading') < Cardinality(reading)
      BY <3>2, FewerPaths DEF AuditFinite
    <3>4. VerifierStage' = VerifierStage
      BY <3>1 DEF VerifierStage
    <3> QED BY <1>1, <1>2, <3>1, <3>3, <3>4, Descends4 DEF VerifierDescends, VerifierRank
  <2> QED BY <2>1, <2>2
<1> QED BY <1>4, <1>5, <1>6, <1>7 DEF Verify

\* What a maker does descends, and it opens only what it has not written.
LEMMA MakeDescends ==
  ASSUME AuditTyped, AuditFinite, AuditFinite', NEW k \in Makers, Held(k), Make(k)
  PROVE  /\ MakerDescends(k) /\ Held(k)'
         /\ \A l \in Makers \ {k} : maker'[l] = maker[l]
<1>1. /\ maker \in [Makers -> MakerStates] /\ maker[k] \in MakerStates /\ Held(k)
      /\ IsFiniteSet(maker[k].left)
  BY DEF AuditTyped, AuditTypeOK, MakerStates, Stations, AuditFinite
<1>2. /\ Cardinality(maker[k].left) \in Nat /\ Cardinality(maker'[k].left) \in Nat
  <2>1. IsFiniteSet(maker'[k].left)
    BY DEF AuditFinite
  <2> QED BY <1>1, <2>1, FS_CardinalityType
<1>3. /\ MakerStage(k) \in Nat /\ Unopened(k) \in Nat
      /\ MakerStage(k)' \in Nat /\ Unopened(k)' \in Nat
  BY DEF MakerStage, Unopened
<1>4. ASSUME NEW at \in Stations, maker' = [maker EXCEPT ![k].at = at],
             MakerStage(k)' < MakerStage(k)
      PROVE  /\ MakerDescends(k) /\ Held(k)'
             /\ \A l \in Makers \ {k} : maker'[l] = maker[l]
  BY <1>1, <1>2, <1>3, <1>4, Descends3 DEF MakerDescends, MakerRank, Held, MakerStates
<1>5. CASE MakeDirectory(k) /\ ~exists
  <2>1. /\ maker[k].at = "start" /\ maker'[k].at = "copy" /\ maker'[k].open = {}
        /\ \A l \in Makers \ {k} : maker'[l] = maker[l]
    BY <1>1, <1>5 DEF MakeDirectory
  <2>2. MakerStage(k)' < MakerStage(k)
    BY <2>1 DEF MakerStage
  <2> QED BY <1>2, <1>3, <2>1, <2>2, Descends3 DEF MakerDescends, MakerRank, Held
<1>6. CASE \/ MakeDirectory(k) /\ exists
           \/ RefuseSource(k) \/ Stage(k) \/ PublishManifest(k) \/ PublishReadme(k) \/ Kill(k)
  <2>1. PICK at \in Stations : /\ maker' = [maker EXCEPT ![k].at = at]
                               /\ \/ maker[k].at = "copy" /\ at \in {"failed", "manifest"}
                                  \/ maker[k].at = "manifest" /\ at = "notice"
                                  \/ maker[k].at = "notice" /\ at = "readme"
                                  \/ maker[k].at = "readme" /\ at = "done"
                                  \/ maker[k].at \in Stations \ {"done", "failed"} /\ at = "failed"
    BY <1>1, <1>6 DEF MakeDirectory, RefuseSource, Stage, PublishManifest, PublishReadme, Kill,
       Advance, Stations, MakerStates, Idle
  <2>2. maker'[k].at = at
    BY <1>1, <2>1 DEF MakerStates
  <2>3. MakerStage(k)' < MakerStage(k)
    BY <2>1, <2>2 DEF MakerStage, Stations
  <2> QED BY <1>4, <2>1, <2>3
<1>7. ASSUME NEW m \in MemberPaths, OpenMember(k, m)
      PROVE  /\ MakerDescends(k) /\ Held(k)'
             /\ \A l \in Makers \ {k} : maker'[l] = maker[l]
  <2>1. /\ maker[k].open = {} /\ maker'[k].open = {m} /\ m \in maker[k].left
        /\ maker'[k].left = maker[k].left /\ maker'[k].at = maker[k].at
        /\ \A l \in Makers \ {k} : maker'[l] = maker[l]
    BY <1>1, <1>7 DEF OpenMember, MakerStates
  <2>2. MakerStage(k)' = MakerStage(k) /\ Unopened(k)' < Unopened(k)
    BY <2>1 DEF MakerStage, Unopened
  <2> QED BY <1>2, <1>3, <2>1, <2>2, Descends3 DEF MakerDescends, MakerRank, Held
<1>8. ASSUME NEW m \in MemberPaths, WriteMember(k, m)
      PROVE  /\ MakerDescends(k) /\ Held(k)'
             /\ \A l \in Makers \ {k} : maker'[l] = maker[l]
  <2>1. /\ maker[k].open = {m} /\ maker'[k].open = {}
        /\ maker'[k].left = maker[k].left \ {m} /\ maker'[k].at = maker[k].at
        /\ \A l \in Makers \ {k} : maker'[l] = maker[l]
    BY <1>1, <1>8 DEF WriteMember, MakerStates
  <2>2. m \in maker[k].left
    BY <1>1, <2>1 DEF Held
  <2>3. Cardinality(maker'[k].left) < Cardinality(maker[k].left)
    BY <1>1, <2>1, <2>2, FewerPaths
  <2>4. MakerStage(k)' = MakerStage(k)
    BY <2>1 DEF MakerStage
  <2> QED BY <1>2, <1>3, <2>1, <2>3, <2>4, Descends3 DEF MakerDescends, MakerRank, Held
<1> QED BY <1>5, <1>6, <1>7, <1>8 DEF Make

\* Nobody lengthens what a maker or the verifier has still to do.
NobodyDelays ==
  /\ Verify => VerifierDescends
  /\ ~Verify => VerifierRank' = VerifierRank
  /\ \A k \in Makers : /\ Make(k) => MakerDescends(k)
                       /\ ~Make(k) => MakerRank(k)' = MakerRank(k)

LEMMA AuditStep ==
  ASSUME AuditTyped, AllHeld, AuditFinite, AuditFinite', [AuditNext]_auditVars
  PROVE  AllHeld' /\ NobodyDelays
<1>1. ASSUME UNCHANGED maker PROVE AllHeld' /\ \A k \in Makers : MakerRank(k)' = MakerRank(k)
  BY <1>1 DEF AllHeld, Held, MakerRank, MakerStage, Unopened
<1>2. ASSUME UNCHANGED walkVars PROVE VerifierRank' = VerifierRank
  BY <1>2 DEF walkVars, VerifierRank, VerifierStage
<1>3. ASSUME NEW k \in Makers PROVE Make(k) => MakerDescends(k)
  BY MakeDescends DEF AllHeld
<1>4. Verify => VerifierDescends
  BY VerifyDescends
<1>5. CASE Verify
  <2>1. UNCHANGED maker
    BY <1>5 DEF Verify, BeginVerification, ReadManifest, ListDirectory, Look, ReadMember,
       Conclude, VerifierOnly
  <2> QED BY <1>1, <1>3, <1>4, <1>5, <2>1 DEF NobodyDelays
<1>6. ASSUME NEW k \in Makers, Make(k) PROVE AllHeld' /\ NobodyDelays
  <2>1. UNCHANGED walkVars
    BY <1>6 DEF Make, MakeDirectory, OpenMember, WriteMember, RefuseSource, Stage,
       PublishManifest, PublishReadme, Kill, MakerOnly
  <2>2. Held(k)' /\ \A l \in Makers \ {k} : maker'[l] = maker[l]
    BY <1>6, MakeDescends DEF AllHeld
  <2>3. ASSUME NEW l \in Makers, l # k
        PROVE  Held(l)' /\ MakerRank(l)' = MakerRank(l)
    BY <2>2, <2>3 DEF AllHeld, Held, MakerRank, MakerStage, Unopened
  <2> QED BY <1>2, <1>3, <1>4, <1>6, <2>1, <2>2, <2>3 DEF AllHeld, NobodyDelays
<1>7. CASE \/ Time \/ UNCHANGED auditVars
           \/ \E plan \in Plans, cutoff \in Moments : Pack(plan, cutoff)
           \/ \E edit \in Edits : Edit(edit[1], edit[2])
  <2>1. UNCHANGED <<maker, walkVars>>
    BY <1>7 DEF Time, Pack, Edit, auditVars, bundleVars
  <2> QED BY <1>1, <1>2, <1>3, <1>4, <2>1 DEF NobodyDelays
<1> QED BY <1>5, <1>6, <1>7 DEF AuditNext

\* materialize_bundle and verify_bundle_directory come to an end, whatever other
\* makers, other programs and new evidence do meanwhile: their own steps
\* descend, and no step of anybody else gives them more to do.
THEOREM AuditDescends ==
  /\ IsWellFoundedOn(Descent(3), Ranks(3)) /\ IsWellFoundedOn(Descent(4), Ranks(4))
  /\ AuditSpec => [][NobodyDelays]_auditVars
<1>1. IsWellFoundedOn(Descent(3), Ranks(3)) /\ IsWellFoundedOn(Descent(4), Ranks(4))
  BY DescentEnds
<1>2. AuditInit => AllHeld
  BY DEF AuditInit, AllHeld, Held
<1>3. AuditTyped /\ AllHeld /\ AuditFinite /\ AuditFinite' /\ [AuditNext]_auditVars
        => AllHeld' /\ NobodyDelays
  BY AuditStep
<1>4. AuditInv => AuditTyped
  BY DEF AuditInv
<1>5. AuditSpec => [][NobodyDelays]_auditVars
  BY AuditInvHolds, FinitePaths, <1>2, <1>3, <1>4, PTL DEF AuditSpec
<1> QED BY <1>1, <1>5
=============================================================================
